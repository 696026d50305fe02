--------------------------- MODULE LoopEvents_proofs ---------------------------
(***************************************************************************)
(* Proofs about LoopEvents, for any files, channels, table sizes and       *)
(* batches.  The tasks that wait, in the batch being run and behind it,    *)
(* are one sequence: a step adds to its end or takes its first task.       *)
(***************************************************************************)
EXTENDS LoopEvents, FiniteSetTheorems, FunctionTheorems, SequenceTheorems, TLAPS

Pending == exe \o queue

Registers(task, file) == task.op = "register" /\ task.file = file
Reg(table, fd) == fd < Len(table) /\ table[fd + 1].in_register
Holds(c) == channel[c].fd # -1

\* A file has one number; what is open, watched or in the table was opened; an
\* owner lives no longer than its channel.
FilesInv ==
  /\ \A a, b \in Fds : fdtab[a] = fdtab[b] /\ fdtab[a] \in Files => a = b
  /\ \A fd \in Fds : fdtab[fd] \in Files => fdtab[fd] \in opened
  /\ interest \subseteq opened
  /\ \A i \in DOMAIN events : events[i].cb \in opened \cup {NoFile}
  /\ \A file \in alive : \E c \in Channels : Holds(c) /\ channel[c].file = file

\* A channel's number is its file's, and no two channels stand for one file.
ChannelInv ==
  /\ \A c \in Channels : Holds(c) => fdtab[channel[c].fd] = channel[c].file
  /\ \A c, d \in Channels : Holds(c) /\ channel[c].file = channel[d].file => c = d

\* Every task is about the file that its number means.  The tasks of a file begin
\* with its register task, unless that has run, and end with its unregister
\* task, after which no channel holds the file.
TaskInv ==
  /\ \A i \in DOMAIN Pending : fdtab[Pending[i].fd] = Pending[i].file
  /\ \A i \in DOMAIN Pending : Pending[i].op = "unregister" =>
       /\ \A j \in DOMAIN Pending : j > i => Pending[j].file # Pending[i].file
       /\ \A c \in Channels : channel[c].file # Pending[i].file
  /\ \A i \in DOMAIN Pending : Pending[i].op # "register" =>
       \/ Reg(events, Pending[i].fd)
       \/ \E j \in DOMAIN Pending : j < i /\ Registers(Pending[j], Pending[i].file)
  /\ \A c \in Channels : Holds(c) =>
       \/ Reg(events, channel[c].fd)
       \/ \E j \in DOMAIN Pending : Registers(Pending[j], channel[c].file)

\* What epoll watches is in the table, and a callback with a live owner stands at
\* the number of its own file, which epoll watches.
TableInv ==
  \A fd \in Fds :
    /\ fdtab[fd] \in interest => Reg(events, fd) /\ Event(fd).in_epoll
    /\ fd < Len(events) /\ Event(fd).cb \in alive =>
         fdtab[fd] = Event(fd).cb /\ Event(fd).cb \in interest

\* The event is still that of the file behind its number.
Current(ev) == fdtab[ev.fd] = ev.file

\* The file has been closed since the event was fetched: its number may have a
\* new file, but no callback, and none of the batch's tasks will install one.
Outdated(ev) ==
  /\ \A fd \in Fds : fdtab[fd] # ev.file
  /\ \A k \in DOMAIN exe : exe[k].fd # ev.fd
  /\ Event(ev.fd).cb \notin alive

\* The events of a batch: those in front of the wake event are current, since
\* only the tasks that it stands for close descriptors.
BatchInv ==
  /\ \A i \in DOMAIN evs : evs[i] # Wake =>
       /\ evs[i].fd < Len(events) /\ evs[i].file \in opened
       /\ Current(evs[i]) \/ Outdated(evs[i])
  /\ \A i \in DOMAIN evs : evs[i] = Wake =>
       /\ exe = <<>>
       /\ \A j \in DOMAIN evs : evs[j] = Wake => j = i
       /\ \A j \in DOMAIN evs : evs[j] # Wake => Current(evs[j])

IInv == /\ TypeOK /\ FilesInv /\ ChannelInv /\ TaskInv /\ TableInv
        /\ BatchInv /\ EdgeNotLost

-------------------------------------------------------------------------------
(***************************************************************************)
(* What a step may do to the tasks that wait.                              *)
(***************************************************************************)
LEMMA PendingType ==
  ASSUME exe \in Seq(Tasks), queue \in Seq(Tasks)
  PROVE  /\ Pending \in Seq(Tasks)
         /\ \A i \in DOMAIN exe : i \in DOMAIN Pending /\ Pending[i] = exe[i]
         /\ \A i \in DOMAIN queue : /\ i + Len(exe) \in DOMAIN Pending
                                    /\ Pending[i + Len(exe)] = queue[i]
         /\ exe # <<>> => /\ Pending # <<>> /\ 1 \in DOMAIN Pending
                          /\ Pending[1] = Head(exe)
  BY ConcatProperties DEF Pending

\* A task is posted.
Appended(task) ==
  /\ Pending' \in Seq(Tasks)
  /\ \A i \in DOMAIN Pending : /\ i \in DOMAIN Pending'
                               /\ Pending'[i] = Pending[i] /\ i <= Len(Pending)
  /\ Len(Pending) + 1 \in DOMAIN Pending'
  /\ Pending'[Len(Pending) + 1] = task
  /\ \A i \in DOMAIN Pending' : i \in DOMAIN Pending \/ i = Len(Pending) + 1

LEMMA PendingAppend ==
  ASSUME exe \in Seq(Tasks), queue \in Seq(Tasks), NEW task \in Tasks,
         UNCHANGED exe, queue' = Append(queue, task)
  PROVE  Appended(task)
<1>1. Append(queue, task) \in Seq(Tasks)
      /\ Len(Append(queue, task)) = Len(queue) + 1
  OBVIOUS
<1>2. /\ Pending \in Seq(Tasks) /\ Len(Pending) = Len(exe) + Len(queue)
  BY ConcatProperties DEF Pending
<1>3. Pending' = exe \o (queue \o <<task>>)
  BY AppendIsConcat DEF Pending
<1>4. <<task>> \in Seq(Tasks)
  OBVIOUS
<1>5. Pending' = Pending \o <<task>>
  BY <1>3, <1>4, ConcatAssociative DEF Pending
<1>6. Pending' = Append(Pending, task)
  BY <1>2, <1>5, AppendIsConcat
<1>7. PICK p \in Seq(Tasks) : p = Pending
  BY <1>2
<1>8. PICK q : q = Append(p, task)
  OBVIOUS
<1>9. /\ q \in Seq(Tasks) /\ Len(p) + 1 \in DOMAIN q /\ q[Len(p) + 1] = task
      /\ \A i \in DOMAIN p : i \in DOMAIN q /\ q[i] = p[i] /\ i <= Len(p)
      /\ \A i \in DOMAIN q : i \in DOMAIN p \/ i = Len(p) + 1
  BY <1>8
<1> QED
  BY <1>6, <1>7, <1>8, <1>9 DEF Appended

\* Two are posted at once.
AppendedTwo(a, b, n) ==
  /\ \A i \in DOMAIN Pending : /\ i \in DOMAIN Pending' /\ i \in 1..n
                               /\ Pending'[i] = Pending[i]
  /\ n + 1 \in DOMAIN Pending' /\ Pending'[n + 1] = a
  /\ n + 2 \in DOMAIN Pending' /\ Pending'[n + 2] = b
  /\ \A i \in DOMAIN Pending' : i \in DOMAIN Pending \/ i = n + 1 \/ i = n + 2

LEMMA PendingAppendTwo ==
  ASSUME exe \in Seq(Tasks), queue \in Seq(Tasks),
         NEW a \in Tasks, NEW b \in Tasks,
         UNCHANGED exe, queue' = queue \o <<a, b>>
  PROVE  \E n \in Nat : AppendedTwo(a, b, n)
<1>1. <<a, b>> \in Seq(Tasks) /\ Pending \in Seq(Tasks)
  BY PendingType
<1>2. Pending' = Pending \o <<a, b>>
  BY SMTT(30), <1>1, ConcatAssociative DEF Pending
<1>3. PICK p \in Seq(Tasks) : p = Pending
  BY <1>1
<1>4. PICK q : q = p \o <<a, b>>
  OBVIOUS
<1>5. PICK n \in Nat : n = Len(p)
  OBVIOUS
<1>6. /\ q \in Seq(Tasks) /\ Len(q) = n + 2
      /\ \A i \in 1..n : q[i] = p[i]
      /\ q[n + 1] = a /\ q[n + 2] = b
  BY <1>4, <1>5
<1>7. DOMAIN p = 1..n /\ DOMAIN q = 1..n + 2
  BY <1>5, <1>6
<1>8. \A i \in 1..n + 2 : i \in 1..n \/ i = n + 1 \/ i = n + 2
  OBVIOUS
<1>9. /\ \A i \in DOMAIN p : i \in DOMAIN q /\ i \in 1..n /\ q[i] = p[i]
      /\ n + 1 \in DOMAIN q /\ n + 2 \in DOMAIN q
  BY <1>6, <1>7
<1>10. AppendedTwo(a, b, n)
  BY <1>2, <1>3, <1>4, <1>6, <1>7, <1>8, <1>9 DEF AppendedTwo
<1> QED
  BY <1>10

\* The first task is run.
Taken ==
  /\ Pending' \in Seq(Tasks)
  /\ \A i \in DOMAIN Pending' : /\ i + 1 \in DOMAIN Pending
                                /\ Pending'[i] = Pending[i + 1]
  /\ \A i \in DOMAIN Pending : i > 1 => /\ i - 1 \in DOMAIN Pending'
                                        /\ Pending'[i - 1] = Pending[i]
  /\ \A k \in DOMAIN exe' : k + 1 \in DOMAIN exe /\ exe'[k] = exe[k + 1]

LEMMA PendingTail ==
  ASSUME exe \in Seq(Tasks), queue \in Seq(Tasks), exe # <<>>,
         exe' = Tail(exe), UNCHANGED queue
  PROVE  Taken
<1>1. Tail(exe) \in Seq(Tasks) /\ Len(Tail(exe)) = Len(exe) - 1
      /\ \A i \in 1..Len(exe) - 1 : Tail(exe)[i] = exe[i + 1]
  OBVIOUS
<1>2. /\ Pending \in Seq(Tasks) /\ Len(Pending) = Len(exe) + Len(queue)
      /\ \A i \in 1..Len(exe) + Len(queue) :
           Pending[i] = IF i <= Len(exe) THEN exe[i] ELSE queue[i - Len(exe)]
  BY ConcatProperties DEF Pending
<1>3. /\ Pending' \in Seq(Tasks)
      /\ Len(Pending') = Len(Tail(exe)) + Len(queue)
      /\ \A i \in 1..Len(Tail(exe)) + Len(queue) :
           Pending'[i] = IF i <= Len(Tail(exe)) THEN Tail(exe)[i]
                         ELSE queue[i - Len(Tail(exe))]
  BY <1>1, ConcatProperties DEF Pending
<1>4. Len(exe) \in Nat \ {0} /\ Len(queue) \in Nat
  OBVIOUS
<1>5. ASSUME NEW i \in DOMAIN Pending'
      PROVE  i + 1 \in DOMAIN Pending /\ Pending'[i] = Pending[i + 1]
  <2>1. i \in 1..Len(exe) - 1 + Len(queue) /\ i + 1 \in 1..Len(exe) + Len(queue)
    BY <1>1, <1>3, <1>4
  <2>2. CASE i <= Len(exe) - 1
    BY <1>1, <1>2, <1>3, <1>4, <2>1, <2>2
  <2>3. CASE i > Len(exe) - 1
    <3>1. i - (Len(exe) - 1) = (i + 1) - Len(exe)
      BY <1>4, <2>1
    <3>2. Pending'[i] = queue[i - (Len(exe) - 1)]
      BY <1>1, <1>3, <1>4, <2>1, <2>3
    <3>3. Pending[i + 1] = queue[(i + 1) - Len(exe)] /\ i + 1 \in DOMAIN Pending
      BY <1>2, <1>4, <2>1, <2>3
    <3> QED
      BY <3>1, <3>2, <3>3
  <2> QED
    BY <1>4, <2>1, <2>2, <2>3
<1>6. ASSUME NEW i \in DOMAIN Pending, i > 1
      PROVE  i - 1 \in DOMAIN Pending' /\ Pending'[i - 1] = Pending[i]
  <2>1. PICK k : k = i - 1
    OBVIOUS
  <2>2. k \in DOMAIN Pending' /\ k + 1 = i
    BY <1>1, <1>2, <1>3, <1>4, <1>6, <2>1
  <2> QED
    BY <1>5, <2>1, <2>2
<1>7. \A k \in DOMAIN exe' : k + 1 \in DOMAIN exe /\ exe'[k] = exe[k + 1]
  BY <1>1, <1>4
<1> QED
  BY <1>3, <1>5, <1>6, <1>7 DEF Taken

\* A batch is taken: the tasks that wait are the same.
LEMMA PendingSwap ==
  ASSUME exe = <<>>, queue \in Seq(Tasks), exe' = queue, queue' = <<>>
  PROVE  Pending' = Pending
<1>1. Pending = queue
  BY ConcatEmptySeq DEF Pending
<1>2. Pending' = queue
  BY ConcatEmptySeq DEF Pending
<1> QED
  BY <1>1, <1>2

-------------------------------------------------------------------------------
\* What is reported of a set is a sequence of its members, each once.
LEMMA OrdersOf ==
  ASSUME NEW S, IsFiniteSet(S), NEW s \in Orders(S)
  PROVE  /\ s \in Seq(S)
         /\ \A i, j \in DOMAIN s : s[i] = s[j] => i = j
         /\ \A x \in S : \E i \in DOMAIN s : s[i] = x
<1> DEFINE n == Cardinality(S)
<1>1. n \in Nat
  BY FS_CardinalityType
<1>2. s \in [1..n -> S] /\ \A i, j \in 1..n : s[i] = s[j] => i = j
  BY DEF Orders
<1> HIDE DEF n
<1>3. s \in Seq(S) /\ DOMAIN s = 1..n
  BY <1>1, <1>2
<1>4. s \in Injection(1..n, S)
  BY <1>2, Fun_IsInj
<1>5. Cardinality(1..n) = n
  BY <1>1, FS_Interval
<1>6. s \in Surjection(1..n, S)
  BY <1>4, <1>5, FS_Injection DEF n
<1>7. \A x \in S : \E i \in 1..n : s[i] = x
  BY <1>6 DEF Surjection
<1> QED
  BY <1>2, <1>3, <1>7

\* What epoll_wait finds of the files: the numbers that they have now.
Found(files) ==
  {[fd |-> fd, file |-> fdtab[fd]] : fd \in {f \in Fds : fdtab[f] \in files}}
Reported(files, wake) == Found(files) \cup (IF wake THEN {Wake} ELSE {})

LEMMA FoundFinite ==
  ASSUME NEW files, NEW wake PROVE IsFiniteSet(Reported(files, wake))
<1> DEFINE A == {f \in Fds : fdtab[f] \in files}
           g == [fd \in A |-> [fd |-> fd, file |-> fdtab[fd]]]
<1>1. IsFiniteSet(Fds) /\ A \in SUBSET Fds
  BY FS_Interval, EventsAssumption DEF Fds
<1>2. IsFiniteSet(A)
  BY <1>1, FS_Subset
<1>3. g \in Surjection(A, Found(files))
  <2>1. g \in [A -> Found(files)]
    BY DEF Found
  <2>2. \A t \in Found(files) : \E a \in A : g[a] = t
    BY DEF Found
  <2> HIDE DEF A, g
  <2> QED
    BY <2>1, <2>2, Fun_IsSurj
<1>4. IsFiniteSet(Found(files))
  <2> HIDE DEF A, g
  <2> QED
    BY <1>2, <1>3, FS_Surjection
<1>5. IsFiniteSet({Wake}) /\ IsFiniteSet({})
  BY FS_Singleton, FS_EmptySet
<1> QED
  BY <1>4, <1>5, FS_Union DEF Reported

\* The batch that epoll_wait fetches.
LEMMA BatchFetched ==
  ASSUME fdtab \in [Fds -> Files \cup {Free, Foreign}],
         ready \subseteq Files, epoll_wait
  PROVE  \E files \in SUBSET ready :
           /\ ready' = ready \ files
           /\ evs' \in Seq([fd : Fds, file : Files] \cup {Wake})
           /\ \A i, j \in DOMAIN evs' : evs'[i] = evs'[j] => i = j
           /\ \A i \in DOMAIN evs' :
                \/ evs'[i] = Wake
                \/ /\ evs'[i].fd \in Fds /\ evs'[i] # Wake
                   /\ evs'[i].file = fdtab[evs'[i].fd] /\ evs'[i].file \in files
           /\ \A fd \in Fds : fdtab[fd] \in files =>
                \E i \in DOMAIN evs' : evs'[i].file = fdtab[fd]
<1>1. PICK files \in SUBSET ready, wake \in BOOLEAN :
        evs' \in Orders(Reported(files, wake)) /\ ready' = ready \ files
  BY DEF epoll_wait, Reported, Found
<1>2. /\ evs' \in Seq(Reported(files, wake))
      /\ \A i, j \in DOMAIN evs' : evs'[i] = evs'[j] => i = j
      /\ \A x \in Reported(files, wake) : \E i \in DOMAIN evs' : evs'[i] = x
  BY <1>1, FoundFinite, OrdersOf
<1>3. Reported(files, wake) \subseteq [fd : Fds, file : Files] \cup {Wake}
  BY DEF Reported, Found
<1>4. evs' \in Seq([fd : Fds, file : Files] \cup {Wake})
  BY <1>2, <1>3, SeqMonotonic
<1>5. ASSUME NEW i \in DOMAIN evs'
      PROVE  \/ evs'[i] = Wake
             \/ /\ evs'[i].fd \in Fds /\ evs'[i] # Wake
                /\ evs'[i].file = fdtab[evs'[i].fd] /\ evs'[i].file \in files
  <2>1. evs'[i] \in Reported(files, wake)
    BY <1>2
  <2>2. CASE evs'[i] \in Found(files)
    BY <2>2, EventsAssumption DEF Found, Wake, Fds
  <2> QED
    BY <2>1, <2>2 DEF Reported
<1>6. ASSUME NEW fd \in Fds, fdtab[fd] \in files
      PROVE  \E i \in DOMAIN evs' : evs'[i].file = fdtab[fd]
  <2>1. [fd |-> fd, file |-> fdtab[fd]] \in Reported(files, wake)
    BY <1>6 DEF Reported, Found
  <2>2. PICK i \in DOMAIN evs' : evs'[i] = [fd |-> fd, file |-> fdtab[fd]]
    BY <1>2, <2>1
  <2> QED
    BY <2>2
<1> QED
  BY <1>1, <1>2, <1>4, <1>5, <1>6

-------------------------------------------------------------------------------
(***************************************************************************)
(* What a task does, given that it is about its own, registered file.      *)
(***************************************************************************)
EventRecords ==
  [in_register : BOOLEAN, in_epoll : BOOLEAN, cb : Files \cup {NoFile}]

\* The first task, and the task after it.
LEMMA FirstTask ==
  ASSUME TypeOK, TaskInv, exe # <<>>
  PROVE  /\ Task \in Tasks /\ fdtab[Task.fd] = Task.file
         /\ Task.op # "register" => Reg(events, Task.fd)
<1>1. exe \in Seq(Tasks) /\ queue \in Seq(Tasks)
  BY DEF TypeOK
<1>2. Pending \in Seq(Tasks) /\ 1 \in DOMAIN Pending /\ Pending[1] = Task
  BY <1>1, PendingType DEF Task
<1>3. \A j \in DOMAIN Pending : ~(j < 1)
  BY <1>2
<1>4. Task \in Tasks
  BY <1>1 DEF Task
<1> QED
  BY <1>2, <1>3, <1>4 DEF TaskInv

\* The table after a task has changed the entry of its number.
Sets(fd, event) ==
  /\ Len(events') = Len(events) /\ DOMAIN events' = DOMAIN events
  /\ events'[fd + 1] = event
  /\ \A i \in DOMAIN events : i # fd + 1 => events'[i] = events[i]

LEMMA SetEventSets ==
  ASSUME events \in Seq(EventRecords), NEW fd \in Fds, fd < Len(events),
         NEW event \in EventRecords, SetEvent(fd, event)
  PROVE  Sets(fd, event) /\ events' \in Seq(EventRecords)
<1>1. PICK k : k = fd + 1
  OBVIOUS
<1>2. k \in 1..Len(events)
  BY <1>1 DEF Fds
<1>3. events' = [events EXCEPT ![k] = event]
  BY <1>1 DEF SetEvent
<1>4. Sets(fd, event)
  BY <1>1, <1>2, <1>3 DEF Sets
<1>5. events' \in Seq(EventRecords)
  BY <1>2, <1>3, ExceptSeq
<1> QED
  BY <1>4, <1>5

\* The table after register_fd.
GrownTable(fd) ==
  /\ Len(events') \in Nat /\ Len(events') >= Len(events)
  /\ DOMAIN events' = 1..Len(events') /\ fd + 1 \in DOMAIN events'
  /\ events'[fd + 1].in_register
  /\ \A i \in DOMAIN events : i \in DOMAIN events' /\ i # fd + 1 =>
       events'[i] = events[i]
  /\ \A i \in DOMAIN events :
       /\ events'[i].in_epoll = events[i].in_epoll
       /\ events'[i].cb = events[i].cb
       /\ events[i].in_register => events'[i].in_register
  /\ \A i \in DOMAIN events' : i \notin DOMAIN events => events'[i].cb = NoFile

LEMMA GrownCovers ==
  ASSUME NEW len \in Nat, NEW fd \in Nat
  PROVE  Grown(len, fd) \in Nat /\ Grown(len, fd) >= len /\ Grown(len, fd) > fd
<1>1. len \div 2 \in Nat
  OBVIOUS
<1> QED
  BY <1>1 DEF Grown

LEMMA RegisterSets ==
  ASSUME events \in Seq(EventRecords), Task \in Tasks, register_fd
  PROVE  GrownTable(Task.fd) /\ events' \in Seq(EventRecords)
<1>0. NoEvent \in EventRecords /\ NoEvent.cb = NoFile
  BY DEF NoEvent, EventRecords
<1>1. Task.fd \in Nat /\ Len(events) \in Nat /\ DOMAIN events = 1..Len(events)
  BY EventsAssumption DEF Tasks, Fds
<1>2. PICK n \in Nat : n = Grown(Len(events), Task.fd)
  BY <1>1, GrownCovers
<1>3. n >= Len(events) /\ n > Task.fd
  BY <1>1, <1>2, GrownCovers
<1>4. PICK table : table = [i \in 1..n |-> IF i <= Len(events) THEN events[i]
                                            ELSE NoEvent]
  OBVIOUS
<1>5. /\ table \in Seq(EventRecords) /\ Len(table) = n
      /\ \A i \in 1..n : table[i] = IF i <= Len(events) THEN events[i]
                                     ELSE NoEvent
  <2>1. \A i \in 1..n : table[i] \in EventRecords
    BY <1>0, <1>1, <1>4
  <2> QED
    BY <1>4, <2>1
<1>6. events' = [table EXCEPT ![Task.fd + 1].in_register = TRUE]
  BY <1>2, <1>4 DEF register_fd
<1>7. PICK k \in 1..n : k = Task.fd + 1
  BY <1>1, <1>3
<1>8. table[k] \in EventRecords /\ k \in 1..Len(table)
  BY <1>5
<1>9. PICK e : e = [table[k] EXCEPT !.in_register = TRUE]
  OBVIOUS
<1>10. /\ e \in EventRecords /\ e.in_register /\ e.cb = table[k].cb
       /\ e.in_epoll = table[k].in_epoll
  BY <1>8, <1>9 DEF EventRecords
<1>11. events' = [table EXCEPT ![k] = e]
  BY <1>6, <1>7, <1>9
<1>12. /\ events' \in Seq(EventRecords) /\ Len(events') = n
       /\ \A j \in 1..n : events'[j] = IF j = k THEN e ELSE table[j]
  BY <1>5, <1>8, <1>10, <1>11, ExceptSeq
<1>13. DOMAIN events' = 1..n
  BY <1>12
<1>14. \A i \in 1..Len(events) : table[i] = events[i] /\ i \in 1..n
  BY <1>1, <1>3, <1>5
<1>15. \A i \in 1..n : i \notin 1..Len(events) => table[i].cb = NoFile
  BY <1>0, <1>1, <1>5
<1> QED
  BY <1>1, <1>3, <1>7, <1>10, <1>12, <1>13, <1>14, <1>15 DEF GrownTable

LEMMA TaskIsTaken ==
  RunTask => exe # <<>> /\ exe' = Tail(exe) /\ UNCHANGED <<user, queue, evs, loop>>
  BY DEF RunTask, register_fd, unregister_fd, enable_fd, enable_fd_same,
         disable_fd, Taking

\* The task left everything as it was.
Failed == UNCHANGED <<kernel, events>>

\* The tasks as they run in the states that are reached.
LEMMA UnregisterRuns ==
  ASSUME TypeOK, TaskInv, unregister_fd
  PROVE  /\ Close(Task.fd) /\ events' \in Seq(EventRecords)
         /\ Sets(Task.fd, NoEvent) \/ UNCHANGED events
<1>1. exe # <<>> /\ Task.op = "unregister"
  BY DEF unregister_fd, Taking
<1>2. Task \in Tasks /\ Reg(events, Task.fd)
  BY <1>1, FirstTask
<1>3. Close(Task.fd) /\ (SetEvent(Task.fd, NoEvent) \/ UNCHANGED events)
  BY <1>2 DEF unregister_fd, IfRegistered, Reg, Event
<1>4. events \in Seq(EventRecords) /\ NoEvent \in EventRecords
      /\ Task.fd \in Fds /\ Task.fd < Len(events)
  BY <1>2 DEF TypeOK, EventRecords, NoEvent, Tasks, Reg
<1> QED
  BY <1>3, <1>4, SetEventSets

LEMMA EnableRuns ==
  ASSUME TypeOK, TaskInv, enable_fd, ~Failed
  PROVE  /\ Watch(Task.file) /\ events' \in Seq(EventRecords)
         /\ Sets(Task.fd, Installing)
<1>1. exe # <<>> /\ Task.op = "enable"
  BY DEF enable_fd, Taking
<1>2. Task \in Tasks /\ Reg(events, Task.fd) /\ fdtab[Task.fd] = Task.file
  BY <1>1, FirstTask
<1>3. Watch(Task.file) /\ SetEvent(Task.fd, Installing)
  BY <1>2 DEF enable_fd, IfRegistered, Reg, Event, CtlFails, Failed
<1>4. events \in Seq(EventRecords) /\ Installing \in EventRecords
      /\ Task.fd \in Fds /\ Task.fd < Len(events)
  BY <1>2 DEF TypeOK, EventRecords, Installing, Tasks, Reg
<1> QED
  BY <1>3, <1>4, SetEventSets

\* The entry of a number in the table, as long as it has one.
LEMMA EntryType ==
  ASSUME events \in Seq(EventRecords), NEW fd \in Fds, fd < Len(events)
  PROVE  fd + 1 \in DOMAIN events /\ Event(fd) \in EventRecords
<1>1. PICK k : k = fd + 1
  OBVIOUS
<1>2. k \in 1..Len(events)
  BY <1>1 DEF Fds
<1> QED
  BY <1>1, <1>2 DEF Event

LEMMA UpdateRuns ==
  ASSUME TypeOK, TaskInv, enable_fd_same, ~Failed
  PROVE  /\ Watch(Task.file) /\ events' \in Seq(EventRecords)
         /\ \E e \in EventRecords :
              /\ Sets(Task.fd, e) /\ e.in_epoll /\ e.in_register
              /\ e.cb = Event(Task.fd).cb
<1>1. exe # <<>> /\ Task.op = "update"
  BY DEF enable_fd_same, Taking
<1>2. Task \in Tasks /\ Reg(events, Task.fd) /\ fdtab[Task.fd] = Task.file
  BY <1>1, FirstTask
<1>3. PICK e : e = [Event(Task.fd) EXCEPT !.in_epoll = TRUE]
  OBVIOUS
<1>4. Watch(Task.file) /\ SetEvent(Task.fd, e)
  BY <1>2, <1>3 DEF enable_fd_same, IfRegistered, Reg, Event, CtlFails, Failed
<1>5. events \in Seq(EventRecords) /\ Task.fd \in Fds /\ Task.fd < Len(events)
  BY <1>2 DEF TypeOK, EventRecords, Tasks, Reg
<1>6. Event(Task.fd) \in EventRecords /\ Event(Task.fd).in_register
  BY <1>2, <1>5, EntryType DEF Reg, Event
<1>7. /\ e \in EventRecords /\ e.in_epoll /\ e.in_register
      /\ e.cb = Event(Task.fd).cb
  BY <1>3, <1>6 DEF EventRecords
<1> QED
  BY <1>4, <1>5, <1>7, SetEventSets

LEMMA DisableRuns ==
  ASSUME TypeOK, TaskInv, disable_fd, ~Failed
  PROVE  /\ Unwatch(Task.file) /\ events' \in Seq(EventRecords)
         /\ \E e \in EventRecords :
              Sets(Task.fd, e) /\ e.in_register /\ e.cb = NoFile
<1>1. exe # <<>> /\ Task.op = "disable"
  BY DEF disable_fd, Taking
<1>2. Task \in Tasks /\ Reg(events, Task.fd) /\ fdtab[Task.fd] = Task.file
  BY <1>1, FirstTask
<1>3. PICK e : e = [Event(Task.fd) EXCEPT !.in_epoll = FALSE, !.cb = NoFile]
  OBVIOUS
<1>4. Unwatch(Task.file) /\ SetEvent(Task.fd, e)
  BY <1>2, <1>3 DEF disable_fd, IfRegistered, Reg, Event, CtlFails, Failed
<1>5. events \in Seq(EventRecords) /\ Task.fd \in Fds /\ Task.fd < Len(events)
  BY <1>2 DEF TypeOK, EventRecords, Tasks, Reg
<1>6. Event(Task.fd) \in EventRecords /\ Event(Task.fd).in_register
  BY <1>2, <1>5, EntryType DEF Reg, Event
<1>7. e \in EventRecords /\ e.in_register /\ e.cb = NoFile
  BY <1>3, <1>6 DEF EventRecords
<1> QED
  BY <1>4, <1>5, <1>7, SetEventSets

-------------------------------------------------------------------------------
(***************************************************************************)
(* The inductive invariant, part by part.                                  *)
(***************************************************************************)
LEMMA TypesInductive == TypeOK /\ TaskInv /\ [Next]_vars => TypeOK'
<1> SUFFICES ASSUME TypeOK, TaskInv, [Next]_vars PROVE TypeOK'
  OBVIOUS
<1>t. /\ fdtab \in [Fds -> Files \cup {Free, Foreign}]
      /\ interest \subseteq Files /\ readable \subseteq Files
      /\ ready \subseteq interest /\ events \in Seq(EventRecords)
      /\ channel \in [Channels -> [fd : Fds, file : Files] \cup {NoChannel}]
      /\ opened \subseteq Files /\ alive \subseteq opened
      /\ queue \in Seq(Tasks) /\ exe \in Seq(Tasks)
      /\ evs \in Seq([fd : Fds, file : Files] \cup {Wake})
      /\ loop \in {"up", "dead"}
  BY DEF TypeOK, EventRecords
<1> USE DEF EventRecords
<1>1. ASSUME NEW op \in Ops, NEW c \in Channels, Post(op, c)
      PROVE  queue' \in Seq(Tasks)
  <2>1. channel[c] \in [fd : Fds, file : Files]
    BY <1>1, <1>t DEF Post, NoChannel
  <2>2. [op |-> op, fd |-> channel[c].fd, file |-> channel[c].file] \in Tasks
    BY <2>1 DEF Tasks
  <2> QED
    BY <1>1, <1>t, <2>2 DEF Post
<1>2. ASSUME NEW file \in Files, NEW fd \in Fds, FactoryFails(file, fd)
      PROVE  TypeOK'
  <2>1. /\ [op |-> "register", fd |-> fd, file |-> file] \in Tasks
        /\ [op |-> "unregister", fd |-> fd, file |-> file] \in Tasks
    BY DEF Tasks, Ops
  <2>2. <<[op |-> "register", fd |-> fd, file |-> file],
          [op |-> "unregister", fd |-> fd, file |-> file]>> \in Seq(Tasks)
    BY <2>1
  <2>3. queue' \in Seq(Tasks)
    BY <1>2, <1>t, <2>2 DEF FactoryFails
  <2> QED
    BY <1>2, <1>t, <2>3 DEF FactoryFails, TypeOK
<1>3. ASSUME NEW c \in Channels, NEW file \in Files, NEW fd \in Fds,
             Construct(c, file, fd)
      PROVE  TypeOK'
  <2>1. [op |-> "register", fd |-> fd, file |-> file] \in Tasks
    BY DEF Tasks, Ops
  <2>2. queue' \in Seq(Tasks)
    BY <1>3, <1>t, <2>1 DEF Construct
  <2> QED
    BY <1>3, <1>t, <2>2 DEF Construct, TypeOK
<1>4. ASSUME NEW c \in Channels, NEW d \in Channels, Move(c, d) \/ Swap(c, d)
      PROVE  TypeOK'
  BY <1>4, <1>t DEF Move, Swap, TypeOK, kernel
<1>5. ASSUME NEW c \in Channels, UpdateEventCb(c) \/ UpdateEvent(c) \/ DisableEvent(c)
      PROVE  TypeOK'
  <2>1. queue' \in Seq(Tasks)
    BY <1>1, <1>5 DEF UpdateEventCb, UpdateEvent, DisableEvent, Ops
  <2> QED
    BY <1>5, <1>t, <2>1
       DEF UpdateEventCb, UpdateEvent, DisableEvent, TypeOK, kernel, user
<1>6. ASSUME NEW c \in Channels, Expire(c) PROVE TypeOK'
  BY <1>6, <1>t DEF Expire, TypeOK, kernel
<1>7. ASSUME NEW c \in Channels, Destruct(c) PROVE TypeOK'
  <2>1. queue' \in Seq(Tasks)
    BY <1>1, <1>7 DEF Destruct, Ops
  <2> QED
    BY <1>7, <1>t, <2>1 DEF Destruct, TypeOK, kernel
<1>8. ASSUME NEW fd \in Fds, ForeignOpen(fd) PROVE TypeOK'
  BY <1>8, <1>t DEF ForeignOpen, TypeOK, user
<1>9. ASSUME NEW file \in Files, Arrive(file) PROVE TypeOK'
  BY <1>9, <1>t DEF Arrive, TypeOK, user
<1>10. CASE epoll_wait
  <2>1. evs' \in Seq([fd : Fds, file : Files] \cup {Wake}) /\ ready' \subseteq ready
    BY <1>10, <1>t, BatchFetched
  <2> QED
    BY <1>10, <1>t, <2>1 DEF epoll_wait, TypeOK, user
<1>11. CASE TakeTasks
  BY <1>11, <1>t DEF TakeTasks, TypeOK, user, kernel
<1>12. CASE Dispatch
  BY <1>12, <1>t DEF Dispatch, AtEvent, TypeOK, user
<1>13. CASE DestroyLoop
  BY <1>13, <1>t DEF DestroyLoop, TypeOK, user
<1>14. CASE RunTask
  <2>0. exe # <<>> /\ exe' = Tail(exe) /\ UNCHANGED <<user, queue, evs, loop>>
    BY <1>14, TaskIsTaken
  <2>1. exe' \in Seq(Tasks) /\ UNCHANGED <<user, queue, evs, loop>>
        /\ Task \in Tasks /\ exe # <<>>
    BY <1>t, <2>0, FirstTask
  <2>6. CASE Failed
    BY <1>t, <2>1, <2>6 DEF Failed, TypeOK, kernel, user
  <2> SUFFICES ASSUME ~Failed PROVE TypeOK'
    BY <2>6
  <2>2. CASE register_fd
    <3>1. events' \in Seq(EventRecords)
      BY <1>t, <2>1, <2>2, RegisterSets
    <3> QED
      BY <1>t, <2>1, <2>2, <3>1 DEF register_fd, TypeOK, user, kernel
  <2>3. CASE unregister_fd
    <3>1. Close(Task.fd) /\ events' \in Seq(EventRecords)
      BY <2>3, UnregisterRuns
    <3> QED
      BY <1>t, <2>1, <3>1 DEF Close, TypeOK, user
  <2>4. CASE enable_fd \/ enable_fd_same
    <3>1. Watch(Task.file) /\ events' \in Seq(EventRecords)
      BY <2>4, EnableRuns, UpdateRuns
    <3>2. Task.file \in Files
      BY <2>1 DEF Tasks
    <3> QED
      BY <1>t, <2>1, <3>1, <3>2 DEF Watch, TypeOK, user
  <2>5. CASE disable_fd
    <3>1. Unwatch(Task.file) /\ events' \in Seq(EventRecords)
      BY <2>5, DisableRuns
    <3> QED
      BY <1>t, <2>1, <3>1 DEF Unwatch, TypeOK, user
  <2> QED
    BY <1>14, <2>2, <2>3, <2>4, <2>5 DEF RunTask
<1>15. CASE UNCHANGED vars
  BY <1>15, <1>t DEF vars, kernel, user, TypeOK
<1> QED
  BY <1>2, <1>3, <1>4, <1>5, <1>6, <1>7, <1>8, <1>9, <1>10, <1>11, <1>12,
     <1>13, <1>14, <1>15
     DEF Next, IoStep, UserStep

LEMMA FilesInductive ==
  TypeOK /\ FilesInv /\ TaskInv /\ [Next]_vars => FilesInv'
<1> SUFFICES ASSUME TypeOK, FilesInv, TaskInv, [Next]_vars PROVE FilesInv'
  OBVIOUS
<1>t. /\ fdtab \in [Fds -> Files \cup {Free, Foreign}]
      /\ interest \subseteq Files /\ events \in Seq(EventRecords)
      /\ channel \in [Channels -> [fd : Fds, file : Files] \cup {NoChannel}]
      /\ opened \subseteq Files /\ alive \subseteq opened
      /\ queue \in Seq(Tasks) /\ exe \in Seq(Tasks)
  BY DEF TypeOK, EventRecords
<1>a. Free \notin Files /\ Foreign \notin Files /\ NoFile \notin Files
  BY EventsAssumption
<1>u. \A i \in DOMAIN events : events[i].cb \in opened \cup {NoFile}
  BY DEF FilesInv
<1>0. ASSUME UNCHANGED <<fdtab, interest, events, channel, opened, alive>>
      PROVE  FilesInv'
  BY <1>0 DEF FilesInv, Holds
<1>1. ASSUME NEW file \in Files, NEW fd \in Fds, FactoryFails(file, fd)
      PROVE  FilesInv'
  <2>1. /\ fdtab' = [fdtab EXCEPT ![fd] = file] /\ file \notin opened
        /\ opened' = opened \cup {file}
        /\ UNCHANGED <<interest, events, channel, alive>>
    BY <1>1 DEF FactoryFails
  <2> QED
    BY <1>t, <1>a, <2>1 DEF FilesInv, Holds
<1>2. ASSUME NEW c \in Channels, NEW file \in Files, NEW fd \in Fds,
             Construct(c, file, fd)
      PROVE  FilesInv'
  <2>1. /\ fdtab' = [fdtab EXCEPT ![fd] = file] /\ file \notin opened
        /\ opened' = opened \cup {file} /\ alive' = alive \cup {file}
        /\ channel' = [channel EXCEPT ![c] = [fd |-> fd, file |-> file]]
        /\ channel[c].fd = -1 /\ UNCHANGED <<interest, events>>
    BY <1>2 DEF Construct
  <2>2. \A x \in alive' : \E d \in Channels :
          channel'[d].fd # -1 /\ channel'[d].file = x
    <3>1. channel'[c].fd # -1 /\ channel'[c].file = file
      BY <1>t, <2>1, EventsAssumption DEF Fds
    <3>2. ASSUME NEW x \in alive
          PROVE  \E d \in Channels : channel'[d].fd # -1 /\ channel'[d].file = x
      <4>1. PICK d \in Channels : channel[d].fd # -1 /\ channel[d].file = x
        BY DEF FilesInv, Holds
      <4>2. channel'[d] = channel[d]
        BY <1>t, <2>1, <4>1
      <4> QED
        BY <4>1, <4>2
    <3> QED
      BY <2>1, <3>1, <3>2
  <2> QED
    BY <1>t, <1>a, <2>1, <2>2 DEF FilesInv, Holds
<1>3. ASSUME NEW c \in Channels, NEW d \in Channels, Move(c, d) \/ Swap(c, d)
      PROVE  FilesInv'
  <2>1. /\ \/ channel' = [channel EXCEPT ![d] = channel[c], ![c] = NoChannel]
           \/ channel' = [channel EXCEPT ![c] = channel[d], ![d] = channel[c]]
        /\ channel[c].fd # -1 /\ c # d
        /\ channel[d].fd = -1 \/ channel'[c] = channel[d]
        /\ UNCHANGED <<fdtab, interest, events, opened, alive>>
    BY <1>3, <1>t DEF Move, Swap, kernel
  <2>2. channel'[d] = channel[c] /\ \A x \in Channels : x # c /\ x # d =>
                                               channel'[x] = channel[x]
    BY <1>t, <2>1
  <2>3. \A file \in alive : \E x \in Channels :
          channel'[x].fd # -1 /\ channel'[x].file = file
    <3> SUFFICES ASSUME NEW file \in alive
                 PROVE  \E x \in Channels : channel'[x].fd # -1
                                           /\ channel'[x].file = file
      OBVIOUS
    <3>1. PICK x \in Channels : channel[x].fd # -1 /\ channel[x].file = file
      BY DEF FilesInv, Holds
    <3> QED
      BY <2>1, <2>2, <3>1
  <2> QED
    BY <2>1, <2>3 DEF FilesInv, Holds
<1>4. ASSUME NEW c \in Channels, Expire(c) PROVE FilesInv'
  BY <1>4 DEF Expire, FilesInv, Holds, kernel
<1>5. ASSUME NEW c \in Channels, Destruct(c) PROVE FilesInv'
  <2>1. /\ channel' = [channel EXCEPT ![c] = NoChannel]
        /\ channel[c].file \notin alive
        /\ UNCHANGED <<fdtab, interest, events, opened, alive>>
    BY <1>5 DEF Destruct, kernel
  <2>2. \A x \in Channels : channel[x].file \in alive => channel'[x] = channel[x]
    BY <1>t, <2>1
  <2> QED
    BY <2>1, <2>2 DEF FilesInv, Holds
<1>6. ASSUME NEW c \in Channels, UpdateEventCb(c) \/ UpdateEvent(c) \/ DisableEvent(c)
      PROVE  FilesInv'
  BY <1>0, <1>6 DEF UpdateEventCb, UpdateEvent, DisableEvent, kernel, user
<1>7. ASSUME NEW fd \in Fds, ForeignOpen(fd) PROVE FilesInv'
  BY <1>7, <1>t, <1>a DEF ForeignOpen, FilesInv, Holds, user
<1>8. ASSUME NEW file \in Files, Arrive(file) PROVE FilesInv'
  BY <1>0, <1>8 DEF Arrive, user
<1>9. CASE epoll_wait \/ TakeTasks \/ Dispatch
  BY <1>0, <1>9 DEF epoll_wait, TakeTasks, Dispatch, kernel, user
<1>10. CASE DestroyLoop
  <2>1. /\ \A fd \in Fds : fdtab'[fd] = fdtab[fd] \/ fdtab'[fd] = Free
        /\ interest' = {} /\ UNCHANGED <<events, channel, opened, alive>>
    BY <1>10 DEF DestroyLoop, user
  <2> QED
    BY <1>a, <2>1 DEF FilesInv, Holds
<1>11. CASE RunTask
  <2>1. exe # <<>> /\ UNCHANGED <<channel, opened, alive>>
    BY <1>11, TaskIsTaken DEF user
  <2>2. Task \in Tasks /\ fdtab[Task.fd] = Task.file /\ Task.file \in opened
        /\ Task.fd \in Fds
    BY <2>1, FirstTask DEF Tasks, FilesInv
  <2>3. ASSUME NEW e, Sets(Task.fd, e),
               \/ e.cb \in opened \cup {NoFile} \/ e.cb = Event(Task.fd).cb
        PROVE  \A i \in DOMAIN events' : events'[i].cb \in opened \cup {NoFile}
    BY <1>u, <2>3 DEF Sets, Event
  <2>9. CASE Failed
    BY <1>0, <2>1, <2>9 DEF Failed, kernel
  <2> SUFFICES ASSUME ~Failed PROVE FilesInv'
    BY <2>9
  <2>4. CASE register_fd
    <3>1. GrownTable(Task.fd)
      BY <1>t, <2>2, <2>4, RegisterSets
    <3>2. \A i \in DOMAIN events' : events'[i].cb \in opened \cup {NoFile}
      BY <1>u, <3>1 DEF GrownTable
    <3> QED
      BY <2>1, <2>4, <3>2 DEF register_fd, kernel, FilesInv, Holds
  <2>5. CASE unregister_fd
    <3>1. Close(Task.fd) /\ (Sets(Task.fd, NoEvent) \/ UNCHANGED events)
      BY <2>5, UnregisterRuns
    <3>2. \A i \in DOMAIN events' : events'[i].cb \in opened \cup {NoFile}
      BY <1>u, <2>3, <3>1 DEF NoEvent
    <3>3. \A fd \in Fds : fdtab'[fd] = fdtab[fd] \/ fdtab'[fd] = Free
      BY <1>t, <3>1 DEF Close
    <3> QED
      BY <1>a, <2>1, <3>1, <3>2, <3>3 DEF Close, FilesInv, Holds
  <2>6. CASE enable_fd
    <3>1. Watch(Task.file) /\ Sets(Task.fd, Installing)
      BY <2>6, EnableRuns
    <3>2. \A i \in DOMAIN events' : events'[i].cb \in opened \cup {NoFile}
      BY <2>2, <2>3, <3>1 DEF Installing
    <3> QED
      BY <2>1, <2>2, <3>1, <3>2 DEF Watch, FilesInv, Holds
  <2>7. CASE enable_fd_same
    <3>1. Watch(Task.file) /\ \E e \in EventRecords :
            Sets(Task.fd, e) /\ e.cb = Event(Task.fd).cb
      BY <2>7, UpdateRuns
    <3>2. \A i \in DOMAIN events' : events'[i].cb \in opened \cup {NoFile}
      BY <2>3, <3>1
    <3> QED
      BY <2>1, <2>2, <3>1, <3>2 DEF Watch, FilesInv, Holds
  <2>8. CASE disable_fd
    <3>1. Unwatch(Task.file) /\ \E e \in EventRecords :
            Sets(Task.fd, e) /\ e.cb = NoFile
      BY <2>8, DisableRuns
    <3>2. \A i \in DOMAIN events' : events'[i].cb \in opened \cup {NoFile}
      BY <2>3, <3>1
    <3> QED
      BY <2>1, <2>2, <3>1, <3>2 DEF Unwatch, FilesInv, Holds
  <2> QED
    BY <1>11, <2>4, <2>5, <2>6, <2>7, <2>8 DEF RunTask
<1>12. CASE UNCHANGED vars
  BY <1>0, <1>12 DEF vars, kernel, user
<1> QED
  BY <1>1, <1>2, <1>3, <1>4, <1>5, <1>6, <1>7, <1>8, <1>9, <1>10, <1>11,
     <1>12
     DEF Next, IoStep, UserStep

\* The file of a channel that is held is open; of one that is not, there is none.
LEMMA HeldFiles ==
  ASSUME TypeOK, FilesInv, ChannelInv, NEW c \in Channels
  PROVE  /\ Holds(c) => /\ channel[c] \in [fd : Fds, file : Files]
                        /\ channel[c].file \in opened
                        /\ fdtab[channel[c].fd] = channel[c].file
         /\ ~Holds(c) => channel[c] = NoChannel /\ channel[c].file \notin Files
<1>1. channel[c] \in [fd : Fds, file : Files] \cup {NoChannel}
  BY DEF TypeOK
<1>2. CASE channel[c] = NoChannel
  BY <1>2, EventsAssumption DEF NoChannel, Holds
<1>3. CASE channel[c] \in [fd : Fds, file : Files]
  <2>1. channel[c].fd # -1
    BY <1>3, EventsAssumption DEF Fds
  <2> QED
    BY <1>3, <2>1 DEF ChannelInv, FilesInv, Holds
<1> QED
  BY <1>1, <1>2, <1>3

LEMMA ChannelInductive ==
  TypeOK /\ FilesInv /\ ChannelInv /\ TaskInv /\ [Next]_vars => ChannelInv'
<1> SUFFICES ASSUME TypeOK, FilesInv, ChannelInv, TaskInv, [Next]_vars
             PROVE  ChannelInv'
  OBVIOUS
<1>t. /\ fdtab \in [Fds -> Files \cup {Free, Foreign}]
      /\ channel \in [Channels -> [fd : Fds, file : Files] \cup {NoChannel}]
      /\ queue \in Seq(Tasks) /\ exe \in Seq(Tasks) /\ opened \subseteq Files
  BY DEF TypeOK
<1>a. Free \notin Files /\ Foreign \notin Files /\ NoFile \notin Files
  BY EventsAssumption
<1>h. \A c \in Channels :
        /\ Holds(c) => /\ channel[c].fd \in Fds /\ channel[c].file \in Files
                       /\ channel[c].file \in opened
                       /\ fdtab[channel[c].fd] = channel[c].file
        /\ ~Holds(c) => channel[c].file \notin Files
  BY HeldFiles
<1>0. ASSUME UNCHANGED <<fdtab, channel>> PROVE ChannelInv'
  BY <1>0 DEF ChannelInv, Holds
<1>1. ASSUME NEW fd \in Fds, fdtab[fd] = Free, NEW x,
             fdtab' = [fdtab EXCEPT ![fd] = x], UNCHANGED channel
      PROVE  ChannelInv'
  <2>1. \A c \in Channels : Holds(c) => fdtab'[channel[c].fd] = channel[c].file
    BY <1>1, <1>h, <1>t, <1>a
  <2> QED
    BY <1>1, <2>1 DEF ChannelInv, Holds
<1>2. ASSUME NEW c \in Channels, NEW file \in Files, NEW fd \in Fds,
             Construct(c, file, fd)
      PROVE  ChannelInv'
  <2>1. /\ fdtab' = [fdtab EXCEPT ![fd] = file] /\ file \notin opened
        /\ channel' = [channel EXCEPT ![c] = [fd |-> fd, file |-> file]]
        /\ fdtab[fd] = Free
    BY <1>2 DEF Construct
  <2>2. /\ channel'[c].fd = fd /\ channel'[c].file = file
        /\ \A d \in Channels : d # c => channel'[d] = channel[d]
    BY <1>t, <2>1
  <2>3. fdtab'[fd] = file /\ \A g \in Fds : g # fd => fdtab'[g] = fdtab[g]
    BY <1>t, <2>1
  <2>4. \A d \in Channels : channel[d].file # file
    BY <1>h, <2>1
  <2>5. \A d \in Channels : Holds(d) => channel[d].fd # fd
    BY <1>h, <1>a, <2>1
  <2> QED
    BY <1>h, <2>2, <2>3, <2>4, <2>5 DEF ChannelInv, Holds
<1>3. ASSUME NEW c \in Channels, NEW d \in Channels, Move(c, d) \/ Swap(c, d)
      PROVE  ChannelInv'
  <2>1. /\ channel[c].fd # -1 /\ c # d /\ UNCHANGED fdtab
        /\ \/ /\ channel[d].fd = -1
              /\ channel' = [channel EXCEPT ![d] = channel[c], ![c] = NoChannel]
           \/ channel' = [channel EXCEPT ![c] = channel[d], ![d] = channel[c]]
    BY <1>3, <1>t DEF Move, Swap, kernel
  <2>2. /\ channel'[d] = channel[c]
        /\ channel'[c] = NoChannel \/ channel'[c] = channel[d]
        /\ \A x \in Channels : x # c /\ x # d => channel'[x] = channel[x]
    BY <1>t, <2>1
  <2>3. NoChannel.fd = -1 /\ NoChannel.file \notin Files
    BY <1>a DEF NoChannel
  <2>4. \A x \in Channels : channel'[x].fd # -1 =>
          fdtab[channel'[x].fd] = channel'[x].file
    BY <1>h, <2>2, <2>3 DEF Holds
  <2>5. ASSUME NEW x \in Channels, NEW y \in Channels, channel'[x].fd # -1,
               channel'[x].file = channel'[y].file
        PROVE  x = y
    BY <1>h, <2>1, <2>2, <2>3, <2>5 DEF ChannelInv, Holds
  <2> QED
    BY <2>1, <2>4, <2>5 DEF ChannelInv, Holds
<1>4. ASSUME NEW c \in Channels, Destruct(c) PROVE ChannelInv'
  <2>1. channel' = [channel EXCEPT ![c] = NoChannel] /\ UNCHANGED fdtab
    BY <1>4 DEF Destruct, kernel
  <2>2. NoChannel.fd = -1 /\ NoChannel.file \notin Files
    BY <1>a DEF NoChannel
  <2>3. /\ channel'[c] = NoChannel
        /\ \A d \in Channels : d # c => channel'[d] = channel[d]
    BY <1>t, <2>1
  <2> QED
    BY <1>h, <2>1, <2>2, <2>3 DEF ChannelInv, Holds
<1>5. CASE unregister_fd
  <2>1. exe # <<>> /\ UNCHANGED channel /\ Task.op = "unregister"
    BY <1>5, TaskIsTaken DEF RunTask, unregister_fd, Taking, user
  <2>2. Task \in Tasks /\ fdtab[Task.fd] = Task.file
    BY <2>1, FirstTask
  <2>3. 1 \in DOMAIN Pending /\ Pending[1] = Task
    BY <1>t, <2>1, PendingType DEF Task
  <2>4. \A c \in Channels : channel[c].file # Task.file
    BY <2>1, <2>3 DEF TaskInv
  <2>5. fdtab' = [fdtab EXCEPT ![Task.fd] = Free]
    BY <1>5, UnregisterRuns DEF Close
  <2>6. \A c \in Channels : Holds(c) => fdtab'[channel[c].fd] = fdtab[channel[c].fd]
    BY <1>h, <1>t, <2>2, <2>4, <2>5
  <2> QED
    BY <2>1, <2>6 DEF ChannelInv, Holds
<1>6. CASE register_fd \/ enable_fd \/ enable_fd_same \/ disable_fd
  <2>1. UNCHANGED channel
    BY <1>6, TaskIsTaken DEF RunTask, user
  <2>2. UNCHANGED fdtab
    BY <1>6, EnableRuns, UpdateRuns, DisableRuns
       DEF register_fd, Watch, Unwatch, kernel, Failed
  <2> QED
    BY <1>0, <2>1, <2>2
<1>7. CASE DestroyLoop
  BY <1>7 DEF DestroyLoop, ChannelInv, Holds, user
<1>8. ASSUME NEW c \in Channels,
             UpdateEventCb(c) \/ UpdateEvent(c) \/ DisableEvent(c) \/ Expire(c)
      PROVE  ChannelInv'
  BY <1>0, <1>8 DEF UpdateEventCb, UpdateEvent, DisableEvent, Expire, kernel, user
<1>9. ASSUME NEW file \in Files, NEW fd \in Fds, FactoryFails(file, fd)
      PROVE  ChannelInv'
  BY <1>1, <1>9 DEF FactoryFails
<1>10. ASSUME NEW fd \in Fds, ForeignOpen(fd) PROVE ChannelInv'
  BY <1>1, <1>10 DEF ForeignOpen, user
<1>11. CASE \/ epoll_wait \/ TakeTasks \/ Dispatch
            \/ \E file \in Files : Arrive(file)
  BY <1>0, <1>11 DEF epoll_wait, TakeTasks, Dispatch, Arrive, kernel, user
<1>12. CASE UNCHANGED vars
  BY <1>0, <1>12 DEF vars, kernel, user
<1> QED
  BY <1>2, <1>3, <1>4, <1>5, <1>6, <1>7, <1>8, <1>9, <1>10, <1>11, <1>12
     DEF Next, IoStep, UserStep, RunTask

\* A task of a channel is posted, and the channel may be given up with it.
LEMMA PostKeepsTasks ==
  ASSUME TypeOK, FilesInv, ChannelInv, TaskInv, NEW op \in Ops \ {"register"},
         NEW c \in Channels, Post(op, c), UNCHANGED <<fdtab, events, exe>>,
         \/ op # "unregister" /\ UNCHANGED channel
         \/ channel' = [channel EXCEPT ![c] = NoChannel]
  PROVE  TaskInv'
<1>1. PICK task : task = [op |-> op, fd |-> channel[c].fd, file |-> channel[c].file]
  OBVIOUS
<1>2. /\ Holds(c) /\ channel[c] \in [fd : Fds, file : Files]
      /\ fdtab[channel[c].fd] = channel[c].file
  BY HeldFiles DEF Post, Holds
<1>3. /\ task \in Tasks /\ task.op = op /\ task.fd = channel[c].fd
      /\ task.file = channel[c].file /\ task.file \in Files
  BY <1>1, <1>2 DEF Tasks
<1>4. queue \in Seq(Tasks) /\ exe \in Seq(Tasks)
      /\ channel \in [Channels -> [fd : Fds, file : Files] \cup {NoChannel}]
  BY DEF TypeOK
<1>5. Appended(task) /\ Pending \in Seq(Tasks)
  BY <1>1, <1>3, <1>4, PendingAppend, PendingType DEF Post
<1>6. PICK n \in Nat : n = Len(Pending)
  BY <1>5
<1>7. /\ \A i \in DOMAIN Pending : /\ i \in DOMAIN Pending' /\ i \in 1..n
                                   /\ Pending'[i] = Pending[i]
      /\ n + 1 \in DOMAIN Pending' /\ Pending'[n + 1] = task
      /\ \A i \in DOMAIN Pending' : i \in DOMAIN Pending \/ i = n + 1
  BY <1>5, <1>6 DEF Appended
<1>8. NoChannel.fd = -1 /\ NoChannel.file \notin Files
  BY EventsAssumption DEF NoChannel
<1>9. \A d \in Channels : channel'[d] = channel[d] \/ channel'[d] = NoChannel
  BY <1>4
<1>10. \A fd : Reg(events', fd) = Reg(events, fd)
  OBVIOUS
<1>11. \A i \in DOMAIN Pending : Pending[i] \in Tasks
  BY <1>5
<1>12. \A i \in DOMAIN Pending' : fdtab'[Pending'[i].fd] = Pending'[i].file
  BY <1>2, <1>3, <1>7 DEF TaskInv
<1>13. ASSUME NEW i \in DOMAIN Pending', Pending'[i].op = "unregister"
       PROVE  /\ \A j \in DOMAIN Pending' : j > i =>
                   Pending'[j].file # Pending'[i].file
              /\ \A d \in Channels : channel'[d].file # Pending'[i].file
  <2>1. CASE i \in DOMAIN Pending
    <3>1. Pending[i].op = "unregister" /\ Pending'[i] = Pending[i]
          /\ Pending[i].file \in Files
      BY <1>7, <1>11, <1>13, <2>1 DEF Tasks
    <3>2. /\ \A j \in DOMAIN Pending : j > i => Pending[j].file # Pending[i].file
          /\ \A d \in Channels : channel[d].file # Pending[i].file
      BY <2>1, <3>1 DEF TaskInv
    <3> QED
      BY <1>3, <1>7, <1>8, <1>9, <3>1, <3>2
  <2>2. CASE i = n + 1
    <3>1. op = "unregister" /\ Pending'[i] = task
      BY <1>3, <1>7, <1>13, <2>2
    <3>2. \A j \in DOMAIN Pending' : ~(j > i)
      BY <1>7, <2>2
    <3>3. channel' = [channel EXCEPT ![c] = NoChannel]
      BY <3>1
    <3>4. \A d \in Channels : channel'[d].file # task.file
      BY <1>2, <1>3, <1>4, <1>8, <3>3 DEF ChannelInv
    <3> QED
      BY <3>1, <3>2, <3>4
  <2> QED
    BY <1>7, <2>1, <2>2
<1>14. ASSUME NEW i \in DOMAIN Pending', Pending'[i].op # "register"
       PROVE  \/ Reg(events', Pending'[i].fd)
              \/ \E j \in DOMAIN Pending' :
                   j < i /\ Registers(Pending'[j], Pending'[i].file)
  <2>1. CASE i \in DOMAIN Pending
    <3>1. Pending[i].op # "register" /\ Pending'[i] = Pending[i]
          /\ Pending[i].fd \in Fds
      BY <1>7, <1>11, <1>14, <2>1 DEF Tasks
    <3>2. \/ Reg(events, Pending[i].fd)
          \/ \E j \in DOMAIN Pending :
               j < i /\ Registers(Pending[j], Pending[i].file)
      BY <2>1, <3>1 DEF TaskInv
    <3> QED
      BY <1>7, <1>10, <3>1, <3>2
  <2>2. CASE i = n + 1
    <3>1. Pending'[i] = task
      BY <1>7, <2>2
    <3>2. \/ Reg(events, task.fd)
          \/ \E j \in DOMAIN Pending : Registers(Pending[j], task.file)
      BY <1>2, <1>3 DEF TaskInv
    <3> QED
      BY <1>2, <1>3, <1>7, <1>10, <2>2, <3>1, <3>2
  <2> QED
    BY <1>7, <2>1, <2>2
<1>15. ASSUME NEW d \in Channels, channel'[d].fd # -1
       PROVE  \/ Reg(events', channel'[d].fd)
              \/ \E j \in DOMAIN Pending' : Registers(Pending'[j], channel'[d].file)
  <2>1. channel'[d] = channel[d] /\ Holds(d) /\ channel[d].fd \in Fds
    BY <1>8, <1>9, <1>15, HeldFiles DEF Holds
  <2> QED
    BY <1>7, <1>10, <2>1 DEF TaskInv
<1> QED
  BY <1>12, <1>13, <1>14, <1>15 DEF TaskInv, Registers, Holds

\* A descriptor is opened: its number was free, so that no task was about it.
LEMMA OpenKeepsTasks ==
  ASSUME TypeOK, TaskInv, NEW fd \in Fds, fdtab[fd] = Free, NEW x,
         fdtab' = [fdtab EXCEPT ![fd] = x]
  PROVE  \A i \in DOMAIN Pending :
           /\ Pending[i] \in Tasks
           /\ fdtab'[Pending[i].fd] = Pending[i].file
           /\ fdtab[Pending[i].fd] = Pending[i].file
<1>1. /\ queue \in Seq(Tasks) /\ exe \in Seq(Tasks)
      /\ fdtab \in [Fds -> Files \cup {Free, Foreign}]
  BY DEF TypeOK
<1>2. Pending \in Seq(Tasks) /\ \A i \in DOMAIN Pending : Pending[i] \in Tasks
  BY <1>1, PendingType
<1> QED
  BY <1>1, <1>2, EventsAssumption DEF TaskInv, Tasks

LEMMA ConstructKeepsTasks ==
  ASSUME TypeOK, FilesInv, ChannelInv, TaskInv, NEW c \in Channels,
         NEW file \in Files, NEW fd \in Fds, Construct(c, file, fd)
  PROVE  TaskInv'
<1>1. PICK task : task = [op |-> "register", fd |-> fd, file |-> file]
  OBVIOUS
<1>2. /\ task \in Tasks /\ task.op = "register" /\ task.fd = fd /\ task.file = file
  BY <1>1 DEF Tasks, Ops
<1>3. /\ queue \in Seq(Tasks) /\ exe \in Seq(Tasks)
      /\ channel \in [Channels -> [fd : Fds, file : Files] \cup {NoChannel}]
      /\ fdtab \in [Fds -> Files \cup {Free, Foreign}]
  BY DEF TypeOK
<1>4. /\ fdtab[fd] = Free /\ fdtab' = [fdtab EXCEPT ![fd] = file]
      /\ file \notin opened /\ queue' = Append(queue, task)
      /\ channel' = [channel EXCEPT ![c] = [fd |-> fd, file |-> file]]
      /\ UNCHANGED <<exe, events>>
  BY <1>1 DEF Construct
<1>5. Appended(task) /\ Pending \in Seq(Tasks)
  BY <1>2, <1>3, <1>4, PendingAppend, PendingType
<1>6. PICK n \in Nat : n = Len(Pending)
  BY <1>5
<1>7. /\ \A i \in DOMAIN Pending : /\ i \in DOMAIN Pending' /\ i \in 1..n
                                   /\ Pending'[i] = Pending[i]
      /\ n + 1 \in DOMAIN Pending' /\ Pending'[n + 1] = task
      /\ \A i \in DOMAIN Pending' : i \in DOMAIN Pending \/ i = n + 1
  BY <1>5, <1>6 DEF Appended
<1>8. \A i \in DOMAIN Pending : /\ fdtab'[Pending[i].fd] = Pending[i].file
                                /\ Pending[i].file # file
  <2>1. \A i \in DOMAIN Pending :
          /\ Pending[i] \in Tasks /\ fdtab'[Pending[i].fd] = Pending[i].file
          /\ fdtab[Pending[i].fd] = Pending[i].file
    BY <1>4, OpenKeepsTasks
  <2> QED
    BY <1>4, <2>1 DEF FilesInv, Tasks
<1>9. /\ channel'[c].fd = fd /\ channel'[c].file = file
      /\ \A d \in Channels : d # c => channel'[d] = channel[d]
  BY <1>3, <1>4
<1>10. \A i \in DOMAIN Pending' : fdtab'[Pending'[i].fd] = Pending'[i].file
  BY <1>2, <1>3, <1>4, <1>7, <1>8
<1>11. ASSUME NEW i \in DOMAIN Pending', Pending'[i].op = "unregister"
       PROVE  /\ \A j \in DOMAIN Pending' : j > i =>
                   Pending'[j].file # Pending'[i].file
              /\ \A d \in Channels : channel'[d].file # Pending'[i].file
  <2>1. i \in DOMAIN Pending /\ Pending'[i] = Pending[i]
    BY <1>2, <1>7, <1>11
  <2> QED
    BY <1>2, <1>7, <1>8, <1>9, <1>11, <2>1 DEF TaskInv
<1>12. ASSUME NEW i \in DOMAIN Pending', Pending'[i].op # "register"
       PROVE  \/ Reg(events', Pending'[i].fd)
              \/ \E j \in DOMAIN Pending' :
                   j < i /\ Registers(Pending'[j], Pending'[i].file)
  <2>1. i \in DOMAIN Pending /\ Pending'[i] = Pending[i]
    BY <1>2, <1>7, <1>12
  <2> QED
    BY <1>4, <1>7, <1>12, <2>1 DEF TaskInv
<1>13. ASSUME NEW d \in Channels, channel'[d].fd # -1
       PROVE  \/ Reg(events', channel'[d].fd)
              \/ \E j \in DOMAIN Pending' : Registers(Pending'[j], channel'[d].file)
  BY <1>2, <1>4, <1>7, <1>9, <1>13 DEF TaskInv, Holds, Registers
<1> QED
  BY <1>10, <1>11, <1>12, <1>13 DEF TaskInv, Registers, Holds

LEMMA FactoryKeepsTasks ==
  ASSUME TypeOK, FilesInv, ChannelInv, TaskInv,
         NEW file \in Files, NEW fd \in Fds, FactoryFails(file, fd)
  PROVE  TaskInv'
<1>1. PICK a, b : /\ a = [op |-> "register", fd |-> fd, file |-> file]
                  /\ b = [op |-> "unregister", fd |-> fd, file |-> file]
  OBVIOUS
<1>2. /\ a \in Tasks /\ a.op = "register" /\ a.fd = fd /\ a.file = file
      /\ b \in Tasks /\ b.op = "unregister" /\ b.fd = fd /\ b.file = file
  BY <1>1 DEF Tasks, Ops
<1>3. /\ queue \in Seq(Tasks) /\ exe \in Seq(Tasks)
      /\ fdtab \in [Fds -> Files \cup {Free, Foreign}]
  BY DEF TypeOK
<1>4. /\ fdtab[fd] = Free /\ fdtab' = [fdtab EXCEPT ![fd] = file]
      /\ file \notin opened /\ queue' = queue \o <<a, b>>
      /\ UNCHANGED <<exe, events, channel>>
  BY <1>1 DEF FactoryFails
<1>5. Pending \in Seq(Tasks)
  BY <1>3, PendingType
<1>6. PICK n \in Nat : AppendedTwo(a, b, n)
  BY <1>2, <1>3, <1>4, PendingAppendTwo
<1>7. /\ \A i \in DOMAIN Pending : /\ i \in DOMAIN Pending' /\ i \in 1..n
                                   /\ Pending'[i] = Pending[i]
      /\ n + 1 \in DOMAIN Pending' /\ Pending'[n + 1] = a
      /\ n + 2 \in DOMAIN Pending' /\ Pending'[n + 2] = b
      /\ \A i \in DOMAIN Pending' : i \in DOMAIN Pending \/ i = n + 1 \/ i = n + 2
  BY <1>6 DEF AppendedTwo
<1>8. \A i \in DOMAIN Pending : /\ fdtab'[Pending[i].fd] = Pending[i].file
                                /\ Pending[i].file # file
  <2>1. \A i \in DOMAIN Pending :
          /\ Pending[i] \in Tasks /\ fdtab'[Pending[i].fd] = Pending[i].file
          /\ fdtab[Pending[i].fd] = Pending[i].file
    BY <1>4, OpenKeepsTasks
  <2> QED
    BY <1>4, <2>1 DEF FilesInv, Tasks
<1>9. \A d \in Channels : channel[d].file # file
  BY <1>4, HeldFiles
<1>10. \A i \in DOMAIN Pending' : fdtab'[Pending'[i].fd] = Pending'[i].file
  <2>1. fdtab'[fd] = file
    BY <1>3, <1>4
  <2>2. ASSUME NEW i \in DOMAIN Pending', i \notin DOMAIN Pending
        PROVE  Pending'[i].fd = fd /\ Pending'[i].file = file
    <3>1. Pending'[i] = a \/ Pending'[i] = b
      BY <1>7, <2>2
    <3> QED
      BY <1>2, <3>1
  <2> QED
    BY <1>7, <1>8, <2>1, <2>2
<1>11. ASSUME NEW i \in DOMAIN Pending', Pending'[i].op = "unregister"
       PROVE  /\ \A j \in DOMAIN Pending' : j > i =>
                   Pending'[j].file # Pending'[i].file
              /\ \A d \in Channels : channel'[d].file # Pending'[i].file
  <2>1. CASE i \in DOMAIN Pending
    <3>1. Pending'[i] = Pending[i] /\ Pending[i].op = "unregister"
      BY <1>7, <1>11, <2>1
    <3>2. /\ \A j \in DOMAIN Pending : j > i => Pending[j].file # Pending[i].file
          /\ \A d \in Channels : channel[d].file # Pending[i].file
      BY <2>1, <3>1 DEF TaskInv
    <3>3. Pending[i].file # file
      BY <1>8, <2>1
    <3> QED
      BY <1>2, <1>4, <1>7, <3>1, <3>2, <3>3
  <2>2. CASE i = n + 2
    <3>1. \A j \in DOMAIN Pending' : ~(j > i)
      BY <1>7, <2>2
    <3> QED
      BY <1>2, <1>4, <1>7, <1>9, <2>2, <3>1
  <2> QED
    BY <1>2, <1>7, <1>11, <2>1, <2>2
<1>12. ASSUME NEW i \in DOMAIN Pending', Pending'[i].op # "register"
       PROVE  \/ Reg(events', Pending'[i].fd)
              \/ \E j \in DOMAIN Pending' :
                   j < i /\ Registers(Pending'[j], Pending'[i].file)
  <2>1. CASE i \in DOMAIN Pending
    BY <1>4, <1>7, <1>12, <2>1 DEF TaskInv
  <2>2. CASE i = n + 2
    <3>1. n + 1 < i /\ Registers(Pending'[n + 1], Pending'[i].file)
      BY <1>2, <1>7, <2>2 DEF Registers
    <3> QED
      BY <1>7, <3>1
  <2> QED
    BY <1>2, <1>7, <1>12, <2>1, <2>2
<1>13. ASSUME NEW d \in Channels, channel'[d].fd # -1
       PROVE  \/ Reg(events', channel'[d].fd)
              \/ \E j \in DOMAIN Pending' : Registers(Pending'[j], channel'[d].file)
  BY <1>4, <1>7, <1>13 DEF TaskInv, Holds
<1> QED
  BY <1>10, <1>11, <1>12, <1>13 DEF TaskInv, Registers, Holds

\* A task is run: the tasks that follow it find what they need.
LEMMA RunKeepsTasks ==
  ASSUME TypeOK, FilesInv, ChannelInv, TaskInv, RunTask
  PROVE  TaskInv'
<1>1. exe # <<>> /\ exe' = Tail(exe) /\ UNCHANGED <<channel, queue>>
  BY TaskIsTaken DEF user
<1>2. /\ queue \in Seq(Tasks) /\ exe \in Seq(Tasks) /\ events \in Seq(EventRecords)
      /\ fdtab \in [Fds -> Files \cup {Free, Foreign}]
  BY DEF TypeOK, EventRecords
<1>3. Taken /\ Pending \in Seq(Tasks) /\ 1 \in DOMAIN Pending /\ Pending[1] = Task
  BY <1>1, <1>2, PendingTail, PendingType DEF Task
<1>4. /\ \A i \in DOMAIN Pending' : /\ i + 1 \in DOMAIN Pending /\ i + 1 > 1
                                    /\ Pending'[i] = Pending[i + 1] /\ i \in Nat
      /\ \A i \in DOMAIN Pending : i > 1 => /\ i - 1 \in DOMAIN Pending'
                                            /\ Pending'[i - 1] = Pending[i]
      /\ \A i \in DOMAIN Pending : i \in Nat /\ i >= 1
  BY <1>3 DEF Taken
<1>5. Task \in Tasks /\ fdtab[Task.fd] = Task.file /\ Task.fd \in Fds
  BY <1>1, FirstTask DEF Tasks
<1>6. \A i \in DOMAIN Pending : Pending[i] \in Tasks
  BY <1>3
<1>7. Task.op = "unregister" => /\ \A j \in DOMAIN Pending :
                                     j > 1 => Pending[j].file # Task.file
                                /\ \A c \in Channels : channel[c].file # Task.file
  BY <1>3 DEF TaskInv
\* The numbers mean the same files, except for that of an unregister task.
<1>8. \/ Task.op # "unregister" /\ UNCHANGED fdtab
      \/ Task.op = "unregister" /\ fdtab' = [fdtab EXCEPT ![Task.fd] = Free]
  <2>1. CASE register_fd
    BY <2>1 DEF register_fd, Taking, kernel
  <2>2. CASE unregister_fd
    BY <2>2, UnregisterRuns DEF unregister_fd, Taking, Close
  <2>3. CASE enable_fd
    BY <2>3, EnableRuns DEF enable_fd, Taking, Watch, Failed, kernel
  <2>4. CASE enable_fd_same
    BY <2>4, UpdateRuns DEF enable_fd_same, Taking, Watch, Failed, kernel
  <2>5. CASE disable_fd
    BY <2>5, DisableRuns DEF disable_fd, Taking, Unwatch, Failed, kernel
  <2> QED
    BY <2>1, <2>2, <2>3, <2>4, <2>5 DEF RunTask
\* What was registered still is, and the file of a register task is now.
<1>9. /\ \A fd \in Fds :
           Reg(events, fd) /\ (Task.op # "unregister" \/ fd # Task.fd) =>
             Reg(events', fd)
      /\ Task.op = "register" => Reg(events', Task.fd)
  <2>0. ASSUME NEW e, Sets(Task.fd, e), e.in_register \/ Task.op = "unregister"
        PROVE  \A fd \in Fds :
                 Reg(events, fd) /\ (Task.op # "unregister" \/ fd # Task.fd) =>
                   Reg(events', fd)
    <3> SUFFICES ASSUME NEW fd \in Fds, Reg(events, fd),
                        Task.op # "unregister" \/ fd # Task.fd
                 PROVE  Reg(events', fd)
      OBVIOUS
    <3>1. fd + 1 \in DOMAIN events
      BY <1>2, EntryType DEF Reg
    <3>2. fd # Task.fd => fd + 1 # Task.fd + 1
      BY <1>5 DEF Fds
    <3> QED
      BY <2>0, <3>1, <3>2 DEF Sets, Reg
  <2>6. CASE Failed /\ Task.op # "register"
    BY <2>6 DEF Failed, Reg
  <2> SUFFICES ASSUME ~(Failed /\ Task.op # "register")
               PROVE  /\ \A fd \in Fds :
                           Reg(events, fd)
                           /\ (Task.op # "unregister" \/ fd # Task.fd) =>
                             Reg(events', fd)
                      /\ Task.op = "register" => Reg(events', Task.fd)
    BY <2>6
  <2>1. CASE register_fd
    <3>1. GrownTable(Task.fd) /\ Task.op = "register"
      BY <1>2, <1>5, <2>1, RegisterSets DEF register_fd, Taking
    <3>2. Reg(events', Task.fd)
      BY <1>5, <3>1 DEF GrownTable, Reg, Fds
    <3>3. ASSUME NEW fd \in Fds, Reg(events, fd) PROVE Reg(events', fd)
      <4>1. fd + 1 \in DOMAIN events /\ fd < Len(events)
        BY <1>2, <3>3, EntryType DEF Reg
      <4>2. fd < Len(events')
        BY <1>2, <3>1, <4>1 DEF GrownTable, Fds
      <4> QED
        BY <3>1, <3>3, <4>1, <4>2 DEF GrownTable, Reg
    <3> QED
      BY <3>1, <3>2, <3>3
  <2>2. CASE unregister_fd
    <3>1. Task.op = "unregister" /\ (Sets(Task.fd, NoEvent) \/ UNCHANGED events)
      BY <2>2, UnregisterRuns DEF unregister_fd, Taking
    <3> QED
      BY <2>0, <3>1
  <2>3. CASE enable_fd
    <3>1. Task.op = "enable" /\ Sets(Task.fd, Installing) /\ Installing.in_register
      BY <2>3, EnableRuns DEF enable_fd, Taking, Installing
    <3> QED
      BY <2>0, <3>1
  <2>4. CASE enable_fd_same
    <3>1. Task.op = "update" /\ \E e \in EventRecords :
                                  Sets(Task.fd, e) /\ e.in_register
      BY <2>4, UpdateRuns DEF enable_fd_same, Taking
    <3> QED
      BY <2>0, <3>1
  <2>5. CASE disable_fd
    <3>1. Task.op = "disable" /\ \E e \in EventRecords :
                                  Sets(Task.fd, e) /\ e.in_register
      BY <2>5, DisableRuns DEF disable_fd, Taking
    <3> QED
      BY <2>0, <3>1
  <2> QED
    BY <2>1, <2>2, <2>3, <2>4, <2>5 DEF RunTask
\* A number other than that of an unregister task stays registered.
<1>10. ASSUME NEW i \in DOMAIN Pending, i > 1, Task.op = "unregister"
       PROVE  Pending[i].fd # Task.fd
  BY <1>5, <1>7, <1>10 DEF TaskInv
<1>11. \A i \in DOMAIN Pending' : fdtab'[Pending'[i].fd] = Pending'[i].file
  <2> SUFFICES ASSUME NEW i \in DOMAIN Pending'
               PROVE  fdtab'[Pending'[i].fd] = Pending'[i].file
    OBVIOUS
  <2>1. PICK k \in DOMAIN Pending : k > 1 /\ Pending'[i] = Pending[k]
    BY <1>4
  <2>2. fdtab[Pending[k].fd] = Pending[k].file /\ Pending[k].fd \in Fds
    BY <1>6 DEF TaskInv, Tasks
  <2> QED
    BY <1>2, <1>8, <1>10, <2>1, <2>2
<1>12. ASSUME NEW i \in DOMAIN Pending', Pending'[i].op = "unregister"
       PROVE  /\ \A j \in DOMAIN Pending' : j > i =>
                   Pending'[j].file # Pending'[i].file
              /\ \A c \in Channels : channel'[c].file # Pending'[i].file
  <2>1. /\ i + 1 \in DOMAIN Pending /\ Pending'[i] = Pending[i + 1]
        /\ \A j \in DOMAIN Pending' : j > i =>
             /\ j + 1 > i + 1 /\ j + 1 \in DOMAIN Pending
             /\ Pending'[j] = Pending[j + 1]
    BY <1>4
  <2> QED
    BY <1>1, <1>12, <2>1 DEF TaskInv
<1>13. ASSUME NEW i \in DOMAIN Pending', Pending'[i].op # "register"
       PROVE  \/ Reg(events', Pending'[i].fd)
              \/ \E j \in DOMAIN Pending' :
                   j < i /\ Registers(Pending'[j], Pending'[i].file)
  <2>1. PICK k \in DOMAIN Pending : k = i + 1 /\ k > 1 /\ Pending'[i] = Pending[k]
    BY <1>4
  <2>2. Pending[k] \in Tasks /\ Pending[k].fd \in Fds /\ Pending[k].file \in Files
        /\ fdtab[Pending[k].fd] = Pending[k].file
    BY <1>6 DEF Tasks, TaskInv
  <2>3. \/ Reg(events, Pending[k].fd)
        \/ \E j \in DOMAIN Pending : j < k /\ Registers(Pending[j], Pending[k].file)
    BY <1>13, <2>1 DEF TaskInv
  <2>4. CASE Reg(events, Pending[k].fd)
    BY <1>9, <1>10, <2>1, <2>2, <2>4
  <2>5. ASSUME NEW j \in DOMAIN Pending, j < k, Registers(Pending[j], Pending[k].file)
        PROVE  \/ Reg(events', Pending'[i].fd)
               \/ \E m \in DOMAIN Pending' :
                    m < i /\ Registers(Pending'[m], Pending'[i].file)
    <3>1. CASE j = 1
      <4>1. Task.op = "register" /\ Task.file = Pending[k].file
        BY <1>3, <2>5, <3>1 DEF Registers
      <4>2. Task.fd = Pending[k].fd
        BY <1>5, <2>2, <4>1 DEF FilesInv
      <4> QED
        BY <1>9, <2>1, <4>1, <4>2
    <3>2. CASE j > 1
      <4>1. PICK m \in DOMAIN Pending' : m = j - 1 /\ Pending'[m] = Pending[j]
        BY <1>4, <3>2
      <4>2. m < i
        BY <1>4, <2>1, <2>5, <4>1
      <4> QED
        BY <2>1, <2>5, <4>1, <4>2
    <3> QED
      BY <1>4, <3>1, <3>2
  <2> QED
    BY <2>1, <2>3, <2>4, <2>5
<1>14. ASSUME NEW c \in Channels, channel'[c].fd # -1
       PROVE  \/ Reg(events', channel'[c].fd)
              \/ \E j \in DOMAIN Pending' : Registers(Pending'[j], channel'[c].file)
  <2>1. /\ Holds(c) /\ channel'[c] = channel[c] /\ channel[c].fd \in Fds
        /\ channel[c].file \in Files /\ fdtab[channel[c].fd] = channel[c].file
    BY <1>1, <1>14, HeldFiles DEF Holds
  <2>2. \/ Reg(events, channel[c].fd)
        \/ \E j \in DOMAIN Pending : Registers(Pending[j], channel[c].file)
    BY <2>1 DEF TaskInv
  <2>3. CASE Reg(events, channel[c].fd)
    BY <1>5, <1>7, <1>9, <2>1, <2>3
  <2>4. ASSUME NEW j \in DOMAIN Pending, Registers(Pending[j], channel[c].file)
        PROVE  \/ Reg(events', channel'[c].fd)
               \/ \E m \in DOMAIN Pending' : Registers(Pending'[m], channel'[c].file)
    <3>1. CASE j = 1
      <4>1. Task.op = "register" /\ Task.file = channel[c].file
        BY <1>3, <2>4, <3>1 DEF Registers
      <4>2. Task.fd = channel[c].fd
        BY <1>5, <2>1, <4>1 DEF FilesInv
      <4> QED
        BY <1>9, <2>1, <4>1, <4>2
    <3>2. CASE j > 1
      BY <1>4, <2>1, <2>4, <3>2
    <3> QED
      BY <1>4, <3>1, <3>2
  <2> QED
    BY <2>2, <2>3, <2>4
<1> QED
  BY <1>11, <1>12, <1>13, <1>14 DEF TaskInv, Registers, Holds

LEMMA TasksInductive ==
  TypeOK /\ FilesInv /\ ChannelInv /\ TaskInv /\ [Next]_vars => TaskInv'
<1> SUFFICES ASSUME TypeOK, FilesInv, ChannelInv, TaskInv, [Next]_vars
             PROVE  TaskInv'
  OBVIOUS
<1>t. /\ fdtab \in [Fds -> Files \cup {Free, Foreign}]
      /\ channel \in [Channels -> [fd : Fds, file : Files] \cup {NoChannel}]
      /\ queue \in Seq(Tasks) /\ exe \in Seq(Tasks)
  BY DEF TypeOK
<1>0. ASSUME Pending' = Pending, UNCHANGED <<fdtab, channel, events>>
      PROVE  TaskInv'
  BY <1>0 DEF TaskInv, Holds
<1>1. ASSUME NEW c \in Channels, UpdateEventCb(c) \/ UpdateEvent(c) \/ DisableEvent(c)
      PROVE  TaskInv'
  <2>1. ASSUME NEW op \in {"enable", "update", "disable"}, Post(op, c),
               UNCHANGED <<fdtab, events, exe, channel>>
        PROVE  TaskInv'
    <3>1. op \in Ops \ {"register"} /\ op # "unregister"
      BY DEF Ops
    <3> QED
      BY <2>1, <3>1, PostKeepsTasks
  <2> QED
    BY <1>1, <2>1 DEF UpdateEventCb, UpdateEvent, DisableEvent, kernel, user
<1>2. ASSUME NEW c \in Channels, Destruct(c) PROVE TaskInv'
  <2>1. "unregister" \in Ops \ {"register"}
    BY DEF Ops
  <2>2. /\ Post("unregister", c) /\ UNCHANGED <<fdtab, events, exe>>
        /\ channel' = [channel EXCEPT ![c] = NoChannel]
    BY <1>2 DEF Destruct, kernel
  <2> QED
    BY <2>1, <2>2, PostKeepsTasks
<1>3. ASSUME NEW c \in Channels, NEW d \in Channels, Move(c, d) \/ Swap(c, d)
      PROVE  TaskInv'
  <2>1. /\ channel[c].fd # -1 /\ c # d /\ UNCHANGED <<fdtab, events, queue, exe>>
        /\ \/ channel' = [channel EXCEPT ![d] = channel[c], ![c] = NoChannel]
           \/ channel' = [channel EXCEPT ![c] = channel[d], ![d] = channel[c]]
    BY <1>3, <1>t DEF Move, Swap, kernel
  <2>2. \A x \in Channels : \/ channel'[x] = NoChannel
                            \/ \E y \in Channels : channel'[x] = channel[y]
    BY <1>t, <2>1
  <2>3. NoChannel.fd = -1 /\ NoChannel.file \notin Files /\ Pending' = Pending
    BY <2>1, EventsAssumption DEF NoChannel, Pending
  <2>4. Pending \in Seq(Tasks) /\ \A i \in DOMAIN Pending : Pending[i].file \in Files
    <3>1. Pending \in Seq(Tasks) /\ \A i \in DOMAIN Pending : Pending[i] \in Tasks
      BY <1>t, PendingType
    <3> QED
      BY <3>1 DEF Tasks
  <2>5. ASSUME NEW i \in DOMAIN Pending, Pending[i].op = "unregister"
        PROVE  \A x \in Channels : channel'[x].file # Pending[i].file
    BY <2>2, <2>3, <2>4, <2>5 DEF TaskInv
  <2>6. ASSUME NEW x \in Channels, channel'[x].fd # -1
        PROVE  \/ Reg(events, channel'[x].fd)
               \/ \E j \in DOMAIN Pending : Registers(Pending[j], channel'[x].file)
    <3>1. PICK y \in Channels : channel'[x] = channel[y] /\ Holds(y)
      BY <2>2, <2>3, <2>6 DEF Holds
    <3> QED
      BY <3>1 DEF TaskInv
  <2> QED
    BY <2>1, <2>3, <2>5, <2>6 DEF TaskInv, Holds
<1>4. ASSUME NEW fd \in Fds, ForeignOpen(fd) PROVE TaskInv'
  <2>1. \A i \in DOMAIN Pending : fdtab'[Pending[i].fd] = Pending[i].file
    BY <1>4, OpenKeepsTasks DEF ForeignOpen
  <2>2. Pending' = Pending /\ UNCHANGED <<channel, events>>
    BY <1>4 DEF ForeignOpen, Pending, user
  <2> QED
    BY <2>1, <2>2 DEF TaskInv, Holds
<1>5. CASE TakeTasks
  <2>1. Pending' = Pending
    BY <1>5, <1>t, PendingSwap DEF TakeTasks
  <2> QED
    BY <1>0, <1>5, <2>1 DEF TakeTasks, kernel, user
<1>6. CASE DestroyLoop
  <2>1. Pending' = <<>> \o <<>>
    BY <1>6 DEF DestroyLoop, Pending
  <2>2. Pending' = <<>>
    BY <2>1
  <2>3. \A c \in Channels : channel'[c].fd = -1
    BY <1>6 DEF DestroyLoop, user
  <2> QED
    BY <2>2, <2>3 DEF TaskInv, Holds
<1>7. CASE \/ epoll_wait \/ Dispatch \/ \E file \in Files : Arrive(file)
           \/ \E c \in Channels : Expire(c)
  BY <1>0, <1>7 DEF epoll_wait, Dispatch, Arrive, Expire, Pending, kernel, user
<1>8. CASE UNCHANGED vars
  BY <1>0, <1>8 DEF vars, Pending, kernel, user
<1> QED
  BY <1>1, <1>2, <1>3, <1>4, <1>5, <1>6, <1>7, <1>8, ConstructKeepsTasks,
     FactoryKeepsTasks, RunKeepsTasks
     DEF Next, IoStep, UserStep

\* The owner of a file lives while a channel holds it, and no longer when its
\* unregister task runs.
LEMMA UnregisteredIsDead ==
  ASSUME TypeOK, FilesInv, TaskInv, exe # <<>>, Task.op = "unregister"
  PROVE  /\ Task.file \notin alive
         /\ \A k \in DOMAIN exe : k > 1 => exe[k].fd # Task.fd
<1>1. queue \in Seq(Tasks) /\ exe \in Seq(Tasks)
  BY DEF TypeOK
<1>2. /\ 1 \in DOMAIN Pending /\ Pending[1] = Task
      /\ \A k \in DOMAIN exe : k \in DOMAIN Pending /\ Pending[k] = exe[k]
  BY <1>1, PendingType DEF Task
<1>3. /\ \A c \in Channels : channel[c].file # Task.file
      /\ \A j \in DOMAIN Pending : j > 1 => Pending[j].file # Task.file
  BY <1>2 DEF TaskInv
<1> QED
  BY <1>2, <1>3 DEF FilesInv, TaskInv

\* The entries of the other numbers are not changed by a task.
LEMMA OtherEntries ==
  ASSUME TypeOK, Task \in Tasks, NEW e, Sets(Task.fd, e)
  PROVE  \A fd \in Fds :
           /\ fd < Len(events') <=> fd < Len(events)
           /\ fd < Len(events) /\ fd # Task.fd => events'[fd + 1] = events[fd + 1]
<1>1. events \in Seq(EventRecords)
  BY DEF TypeOK, EventRecords
<1> SUFFICES ASSUME NEW fd \in Fds
             PROVE  /\ fd < Len(events') <=> fd < Len(events)
                    /\ fd < Len(events) /\ fd # Task.fd =>
                         events'[fd + 1] = events[fd + 1]
  OBVIOUS
<1>2. fd # Task.fd => fd + 1 # Task.fd + 1
  BY DEF Fds, Tasks
<1>3. fd < Len(events) => fd + 1 \in DOMAIN events
  BY <1>1, EntryType
<1> QED
  BY <1>2, <1>3 DEF Sets

LEMMA TableInductive ==
  TypeOK /\ FilesInv /\ TaskInv /\ TableInv /\ [Next]_vars => TableInv'
<1> SUFFICES ASSUME TypeOK, FilesInv, TaskInv, TableInv, [Next]_vars
             PROVE  TableInv'
  OBVIOUS
<1>t. /\ fdtab \in [Fds -> Files \cup {Free, Foreign}]
      /\ interest \subseteq Files /\ events \in Seq(EventRecords)
      /\ opened \subseteq Files /\ alive \subseteq opened
      /\ queue \in Seq(Tasks) /\ exe \in Seq(Tasks)
  BY DEF TypeOK, EventRecords
<1>a. Free \notin Files /\ Foreign \notin Files /\ NoFile \notin Files
  BY EventsAssumption
<1>u. \A fd \in Fds : fd < Len(events) => events[fd + 1].cb \in opened \cup {NoFile}
  BY <1>t, EntryType DEF FilesInv
<1>e. \A fd \in Fds :
        /\ fdtab[fd] \in interest => Reg(events, fd) /\ events[fd + 1].in_epoll
        /\ fd < Len(events) /\ events[fd + 1].cb \in alive =>
             /\ fdtab[fd] = events[fd + 1].cb
             /\ events[fd + 1].cb \in interest
  BY DEF TableInv, Event
<1>g. ASSUME \A fd \in Fds :
               /\ fdtab'[fd] \in interest' =>
                    Reg(events', fd) /\ events'[fd + 1].in_epoll
               /\ fd < Len(events') /\ events'[fd + 1].cb \in alive' =>
                    /\ fdtab'[fd] = events'[fd + 1].cb
                    /\ events'[fd + 1].cb \in interest'
      PROVE  TableInv'
  BY <1>g DEF TableInv, Event, Reg
<1>0. ASSUME UNCHANGED <<fdtab, interest, events>>, alive' \subseteq alive
      PROVE  TableInv'
  BY <1>0, <1>e, <1>g
<1>1. ASSUME NEW fd \in Fds, fdtab[fd] = Free, NEW x, x \notin opened,
             fdtab' = [fdtab EXCEPT ![fd] = x], alive' \subseteq alive \cup {x},
             x = Foreign \/ x \in Files, UNCHANGED <<interest, events>>
      PROVE  TableInv'
  <2>1. x \notin interest /\ x # NoFile
    BY <1>1, <1>a DEF FilesInv, NoFile, Foreign
  <2>2. \A g \in Fds : fdtab'[g] = x \/ fdtab'[g] = fdtab[g]
    BY <1>1, <1>t
  <2>3. \A g \in Fds : g < Len(events) /\ events[g + 1].cb \in alive' =>
          events[g + 1].cb \in alive /\ g # fd
    BY <1>1, <1>e, <1>t, <1>a, <1>u, <2>1
  <2>4. \A g \in Fds : g # fd => fdtab'[g] = fdtab[g]
    BY <1>1, <1>t
  <2> QED
    BY <1>1, <1>e, <1>g, <2>1, <2>2, <2>3, <2>4
<1>2. ASSUME NEW c \in Channels, NEW file \in Files, NEW fd \in Fds,
             Construct(c, file, fd)
      PROVE  TableInv'
  BY <1>1, <1>2 DEF Construct
<1>3. ASSUME NEW file \in Files, NEW fd \in Fds, FactoryFails(file, fd)
      PROVE  TableInv'
  BY <1>1, <1>3 DEF FactoryFails
<1>4. ASSUME NEW fd \in Fds, ForeignOpen(fd) PROVE TableInv'
  BY <1>1, <1>4, <1>t, <1>a DEF ForeignOpen, user
<1>5. CASE DestroyLoop
  <2>1. interest' = {} /\ alive = {} /\ UNCHANGED <<alive, events>>
    BY <1>5 DEF DestroyLoop, FilesInv, Holds, user
  <2> QED
    BY <1>g, <2>1
<1>6. CASE RunTask
  <2>1. exe # <<>> /\ UNCHANGED alive
    BY <1>6, TaskIsTaken DEF user
  <2>2. /\ Task \in Tasks /\ fdtab[Task.fd] = Task.file
        /\ Task.fd \in Fds /\ Task.file \in Files
        /\ Task.op # "register" => Reg(events, Task.fd)
    BY <2>1, FirstTask DEF Tasks
  <2>3. \A fd \in Fds : fd # Task.fd => fdtab[fd] # Task.file
    BY <2>2 DEF FilesInv
  <2>10. CASE Failed
    BY <1>0, <2>1, <2>10 DEF Failed, kernel
  <2> SUFFICES ASSUME ~Failed PROVE TableInv'
    BY <2>10
  <2>4. CASE register_fd
    <3>1. GrownTable(Task.fd) /\ UNCHANGED <<fdtab, interest>>
      BY <1>t, <2>2, <2>4, RegisterSets DEF register_fd, kernel
    <3>2. ASSUME NEW fd \in Fds, fd < Len(events)
          PROVE  /\ fd < Len(events') /\ events'[fd + 1].cb = events[fd + 1].cb
                 /\ events'[fd + 1].in_epoll = events[fd + 1].in_epoll
                 /\ events[fd + 1].in_register => events'[fd + 1].in_register
      <4>1. fd + 1 \in DOMAIN events
        BY <1>t, <3>2, EntryType
      <4>2. fd < Len(events')
        BY <1>t, <3>1, <3>2 DEF GrownTable, Fds
      <4> QED
        BY <3>1, <4>1, <4>2 DEF GrownTable
    <3>3. ASSUME NEW fd \in Fds, fd < Len(events'), ~(fd < Len(events))
          PROVE  events'[fd + 1].cb = NoFile
      <4>1. fd + 1 \notin DOMAIN events
        BY <1>t, <3>3 DEF Fds
      <4>2. fd + 1 \in DOMAIN events'
        BY <3>1, <3>3 DEF GrownTable, Fds
      <4> QED
        BY <3>1, <4>1, <4>2 DEF GrownTable
    <3>4. NoFile \notin alive
      BY <1>t, <1>a
    <3> QED
      BY <1>e, <1>g, <2>1, <3>1, <3>2, <3>3, <3>4 DEF Reg
  <2>5. CASE unregister_fd
    <3>1. Close(Task.fd) /\ (Sets(Task.fd, NoEvent) \/ UNCHANGED events)
      BY <2>5, UnregisterRuns
    <3>2. Task.file \notin alive
      BY <2>1, <2>5, UnregisteredIsDead DEF unregister_fd, Taking
    <3>3. /\ fdtab'[Task.fd] = Free /\ interest' = interest \ {Task.file}
          /\ \A fd \in Fds : fd # Task.fd => fdtab'[fd] = fdtab[fd]
      BY <1>t, <2>2, <3>1 DEF Close
    <3>4. \A fd \in Fds :
            /\ fd < Len(events') <=> fd < Len(events)
            /\ fd < Len(events) /\ fd # Task.fd => events'[fd + 1] = events[fd + 1]
      BY <2>2, <3>1, OtherEntries
    <3>5. events'[Task.fd + 1].cb \notin alive
      <4>1. CASE Sets(Task.fd, NoEvent)
        BY <1>t, <1>a, <4>1 DEF Sets, NoEvent
      <4>2. CASE UNCHANGED events
        BY <1>e, <2>2, <2>5, <3>2, <4>2 DEF Reg, unregister_fd, Taking
      <4> QED
        BY <3>1, <4>1, <4>2
    <3>6. ASSUME NEW fd \in Fds, fd # Task.fd
          PROVE  /\ fdtab'[fd] \in interest' =>
                      Reg(events', fd) /\ events'[fd + 1].in_epoll
                 /\ fd < Len(events') /\ events'[fd + 1].cb \in alive' =>
                      /\ fdtab'[fd] = events'[fd + 1].cb
                      /\ events'[fd + 1].cb \in interest'
      BY <1>e, <2>1, <2>3, <3>3, <3>4, <3>6 DEF Reg
    <3> QED
      BY <1>a, <1>g, <1>t, <2>1, <3>3, <3>5, <3>6
  <2>6. ASSUME NEW e, Sets(Task.fd, e), UNCHANGED fdtab,
               \/ /\ interest' = interest \cup {Task.file}
                  /\ e.in_register /\ e.in_epoll
                  /\ e.cb = Task.file \/ e.cb = events[Task.fd + 1].cb
               \/ interest' = interest \ {Task.file} /\ e.cb = NoFile,
               Reg(events, Task.fd)
        PROVE  TableInv'
    <3>1. \A fd \in Fds :
            /\ fd < Len(events') <=> fd < Len(events)
            /\ fd < Len(events) /\ fd # Task.fd => events'[fd + 1] = events[fd + 1]
      BY <2>2, <2>6, OtherEntries
    <3>2. ASSUME NEW fd \in Fds, fd # Task.fd
          PROVE  /\ fdtab'[fd] \in interest' =>
                      Reg(events', fd) /\ events'[fd + 1].in_epoll
                 /\ fd < Len(events') /\ events'[fd + 1].cb \in alive' =>
                      /\ fdtab'[fd] = events'[fd + 1].cb
                      /\ events'[fd + 1].cb \in interest'
      BY <1>e, <2>1, <2>3, <2>6, <3>1, <3>2 DEF Reg
    <3>3. events'[Task.fd + 1] = e /\ Task.fd < Len(events')
      BY <2>2, <2>6, <3>1 DEF Sets, Reg
    <3>4. /\ fdtab'[Task.fd] \in interest' =>
               Reg(events', Task.fd) /\ events'[Task.fd + 1].in_epoll
          /\ Task.fd < Len(events') /\ events'[Task.fd + 1].cb \in alive' =>
               /\ fdtab'[Task.fd] = events'[Task.fd + 1].cb
               /\ events'[Task.fd + 1].cb \in interest'
      <4>1. NoFile \notin alive
        BY <1>t, <1>a
      <4>2. CASE interest' = interest \ {Task.file} /\ e.cb = NoFile
        BY <2>1, <2>2, <2>6, <3>3, <4>1, <4>2
      <4>3. CASE /\ interest' = interest \cup {Task.file}
                 /\ e.in_register /\ e.in_epoll
                 /\ e.cb = Task.file \/ e.cb = events[Task.fd + 1].cb
        BY <1>e, <2>1, <2>2, <2>6, <3>3, <4>3 DEF Reg
      <4> QED
        BY <2>6, <4>2, <4>3
    <3> QED
      BY <1>g, <3>2, <3>4
  <2>7. CASE enable_fd
    <3>1. Watch(Task.file) /\ Sets(Task.fd, Installing) /\ Task.op = "enable"
      BY <2>7, EnableRuns DEF enable_fd, Taking
    <3>2. Installing.in_register /\ Installing.in_epoll /\ Installing.cb = Task.file
      BY DEF Installing
    <3> QED
      BY <2>2, <2>6, <3>1, <3>2 DEF Watch
  <2>8. CASE enable_fd_same
    <3>1. /\ Watch(Task.file) /\ Task.op = "update"
          /\ \E e \in EventRecords :
               /\ Sets(Task.fd, e) /\ e.in_epoll /\ e.in_register
               /\ e.cb = events[Task.fd + 1].cb
      BY <2>8, UpdateRuns DEF enable_fd_same, Taking, Event
    <3> QED
      BY <2>2, <2>6, <3>1 DEF Watch
  <2>9. CASE disable_fd
    <3>1. /\ Unwatch(Task.file) /\ Task.op = "disable"
          /\ \E e \in EventRecords : Sets(Task.fd, e) /\ e.cb = NoFile
      BY <2>9, DisableRuns DEF disable_fd, Taking
    <3> QED
      BY <2>2, <2>6, <3>1 DEF Unwatch
  <2> QED
    BY <1>6, <2>4, <2>5, <2>7, <2>8, <2>9 DEF RunTask
<1>7. CASE \/ epoll_wait \/ TakeTasks \/ Dispatch
           \/ \E file \in Files : Arrive(file)
           \/ \E c \in Channels :
                \/ \E d \in Channels : Move(c, d) \/ Swap(c, d)
                \/ UpdateEventCb(c) \/ UpdateEvent(c) \/ DisableEvent(c)
                \/ Expire(c) \/ Destruct(c)
  BY <1>0, <1>7
     DEF epoll_wait, TakeTasks, Dispatch, Arrive, Move, Swap, UpdateEventCb,
         UpdateEvent, DisableEvent, Expire, Destruct, kernel, user
<1>8. CASE UNCHANGED vars
  BY <1>0, <1>8 DEF vars, kernel, user
<1> QED
  BY <1>2, <1>3, <1>4, <1>5, <1>6, <1>7, <1>8 DEF Next, IoStep, UserStep
-------------------------------------------------------------------------------
\* What a task changes: the entry of its own number and, if it is an unregister
\* task, what that number refers to.
LEMMA TaskEffects ==
  ASSUME TypeOK, FilesInv, TaskInv, RunTask
  PROVE  /\ \A fd \in Fds : fd < Len(events) => fd < Len(events')
         /\ \A fd \in Fds : fd < Len(events) /\ fd # Task.fd =>
              events'[fd + 1].cb = events[fd + 1].cb
         /\ \A fd \in Fds : fd # Task.fd => fdtab'[fd] = fdtab[fd]
         /\ \/ UNCHANGED fdtab
            \/ /\ Task.op = "unregister" /\ fdtab'[Task.fd] = Free
               /\ \/ events'[Task.fd + 1].cb = NoFile
                  \/ UNCHANGED events
<1>t. fdtab \in [Fds -> Files \cup {Free, Foreign}] /\ events \in Seq(EventRecords)
  BY DEF TypeOK, EventRecords
<1>1. exe # <<>> /\ Task \in Tasks /\ Task.fd \in Fds
  BY TaskIsTaken, FirstTask DEF Tasks
<1>2. ASSUME NEW e, Sets(Task.fd, e)
      PROVE  \A fd \in Fds :
               /\ fd < Len(events) => fd < Len(events')
               /\ fd < Len(events) /\ fd # Task.fd =>
                    events'[fd + 1].cb = events[fd + 1].cb
  BY <1>1, <1>2, OtherEntries
<1>7. CASE Failed
  BY <1>7 DEF Failed, kernel
<1> SUFFICES ASSUME ~Failed
             PROVE  /\ \A fd \in Fds : fd < Len(events) => fd < Len(events')
                    /\ \A fd \in Fds : fd < Len(events) /\ fd # Task.fd =>
                         events'[fd + 1].cb = events[fd + 1].cb
                    /\ \A fd \in Fds : fd # Task.fd => fdtab'[fd] = fdtab[fd]
                    /\ \/ UNCHANGED fdtab
                       \/ /\ Task.op = "unregister" /\ fdtab'[Task.fd] = Free
                          /\ \/ events'[Task.fd + 1].cb = NoFile
                             \/ UNCHANGED events
  BY <1>7
<1>3. CASE register_fd
  <2>1. GrownTable(Task.fd) /\ UNCHANGED fdtab
    BY <1>t, <1>1, <1>3, RegisterSets DEF register_fd, kernel
  <2>2. ASSUME NEW fd \in Fds, fd < Len(events)
        PROVE  fd < Len(events') /\ events'[fd + 1].cb = events[fd + 1].cb
    <3>1. fd + 1 \in DOMAIN events
      BY <1>t, <2>2, EntryType
    <3>2. fd < Len(events')
      BY <1>t, <2>1, <2>2 DEF GrownTable, Fds
    <3> QED
      BY <2>1, <3>1, <3>2 DEF GrownTable
  <2> QED
    BY <2>1, <2>2
<1>4. CASE unregister_fd
  <2>1. Close(Task.fd) /\ (Sets(Task.fd, NoEvent) \/ UNCHANGED events)
    BY <1>4, UnregisterRuns
  <2>2. /\ fdtab'[Task.fd] = Free /\ Task.op = "unregister"
        /\ \A fd \in Fds : fd # Task.fd => fdtab'[fd] = fdtab[fd]
    BY <1>t, <1>1, <1>4, <2>1 DEF Close, unregister_fd, Taking
  <2>3. CASE Sets(Task.fd, NoEvent)
    <3>1. events'[Task.fd + 1].cb = NoFile
      BY <2>3 DEF Sets, NoEvent
    <3> QED
      BY <1>2, <2>2, <2>3, <3>1
  <2> QED
    BY <2>1, <2>2, <2>3
<1>5. CASE enable_fd \/ enable_fd_same
  <2>1. UNCHANGED fdtab /\ \E e : Sets(Task.fd, e)
    BY <1>5, EnableRuns, UpdateRuns DEF Watch
  <2> QED
    BY <1>2, <2>1
<1>6. CASE disable_fd
  <2>1. UNCHANGED fdtab /\ \E e : Sets(Task.fd, e)
    BY <1>6, DisableRuns DEF Unwatch
  <2> QED
    BY <1>2, <2>1
<1> QED
  BY <1>3, <1>4, <1>5, <1>6 DEF RunTask

LEMMA BatchInductive ==
  TypeOK /\ FilesInv /\ TaskInv /\ TableInv /\ BatchInv /\ [Next]_vars => BatchInv'
<1> SUFFICES ASSUME TypeOK, FilesInv, TaskInv, TableInv, BatchInv, [Next]_vars
             PROVE  BatchInv'
  OBVIOUS
<1>t. /\ fdtab \in [Fds -> Files \cup {Free, Foreign}]
      /\ interest \subseteq Files /\ ready \subseteq interest
      /\ events \in Seq(EventRecords)
      /\ opened \subseteq Files /\ alive \subseteq opened
      /\ queue \in Seq(Tasks) /\ exe \in Seq(Tasks)
      /\ evs \in Seq([fd : Fds, file : Files] \cup {Wake})
  BY DEF TypeOK, EventRecords
<1>a. Free \notin Files /\ Foreign \notin Files /\ NoFile \notin Files
  BY EventsAssumption
<1>f. \A i \in DOMAIN evs : evs[i] # Wake => evs[i].fd \in Fds /\ evs[i].file \in Files
  BY <1>t
<1>u. \A fd \in Fds : fd < Len(events) => events[fd + 1].cb \in opened \cup {NoFile}
  BY <1>t, EntryType DEF FilesInv
<1>0. ASSUME UNCHANGED <<fdtab, events, opened, exe, evs>>, alive' \subseteq alive
      PROVE  BatchInv'
  <2>1. \A i \in DOMAIN evs : Current(evs[i]) => Current(evs[i])'
    BY <1>0 DEF Current
  <2>2. \A i \in DOMAIN evs : Outdated(evs[i]) => Outdated(evs[i])'
    BY <1>0 DEF Outdated, Event
  <2> QED
    BY <1>0, <2>1, <2>2 DEF BatchInv
<1>1. ASSUME NEW fd \in Fds, fdtab[fd] = Free, NEW x, x \notin opened,
             fdtab' = [fdtab EXCEPT ![fd] = x], alive' \subseteq alive \cup {x},
             x = Foreign \/ x \in Files, opened \subseteq opened',
             UNCHANGED <<events, exe, evs>>
      PROVE  BatchInv'
  <2>1. \A g \in Fds : fdtab'[g] = x \/ fdtab'[g] = fdtab[g]
    BY <1>1, <1>t
  <2>2. \A g \in Fds : fdtab[g] \in Files => fdtab'[g] = fdtab[g]
    BY <1>1, <1>t, <1>a
  <2>3. ASSUME NEW i \in DOMAIN evs, evs[i] # Wake, evs[i].fd < Len(events),
               evs[i].file \in opened
        PROVE  /\ Current(evs[i]) => Current(evs[i])'
               /\ Outdated(evs[i]) => Outdated(evs[i])'
    <3>1. Current(evs[i]) => Current(evs[i])'
      BY <1>1, <1>f, <2>2, <2>3 DEF Current
    <3>2. ASSUME Outdated(evs[i]) PROVE Outdated(evs[i])'
      <4>1. events[evs[i].fd + 1].cb \notin alive'
        <5>1. events[evs[i].fd + 1].cb \notin alive
          BY <3>2 DEF Outdated, Event
        <5>2. events[evs[i].fd + 1].cb # x
          BY <1>1, <1>a, <1>f, <1>u, <2>3 DEF NoFile, Foreign
        <5> QED
          BY <1>1, <5>1, <5>2
      <4>2. \A g \in Fds : fdtab'[g] # evs[i].file
        BY <1>1, <2>1, <2>3, <3>2 DEF Outdated
      <4> QED
        BY <1>1, <3>2, <4>1, <4>2 DEF Outdated, Event
    <3> QED
      BY <3>1, <3>2
  <2>4. ASSUME NEW i \in DOMAIN evs, evs[i] # Wake
        PROVE  /\ evs[i].fd < Len(events) /\ evs[i].file \in opened
               /\ Current(evs[i])' \/ Outdated(evs[i])'
               /\ Current(evs[i]) => Current(evs[i])'
    BY <2>3, <2>4 DEF BatchInv
  <2> QED
    BY <1>1, <2>4 DEF BatchInv
<1>2. ASSUME NEW c \in Channels, NEW file \in Files, NEW fd \in Fds,
             Construct(c, file, fd)
      PROVE  BatchInv'
  BY <1>1, <1>2 DEF Construct
<1>3. ASSUME NEW file \in Files, NEW fd \in Fds, FactoryFails(file, fd)
      PROVE  BatchInv'
  BY <1>1, <1>3 DEF FactoryFails
<1>4. ASSUME NEW fd \in Fds, ForeignOpen(fd) PROVE BatchInv'
  BY <1>1, <1>4, <1>t, <1>a DEF ForeignOpen, user
<1>5. CASE epoll_wait
  <2>1. PICK files \in SUBSET ready :
          /\ \A i, j \in DOMAIN evs' : evs'[i] = evs'[j] => i = j
          /\ \A i \in DOMAIN evs' :
               \/ evs'[i] = Wake
               \/ /\ evs'[i].fd \in Fds /\ evs'[i] # Wake
                  /\ evs'[i].file = fdtab[evs'[i].fd] /\ evs'[i].file \in files
    BY <1>5, <1>t, BatchFetched
  <2>2. exe' = <<>> /\ UNCHANGED <<fdtab, events, opened>>
    BY <1>5 DEF epoll_wait, user
  <2>3. ASSUME NEW i \in DOMAIN evs', evs'[i] # Wake
        PROVE  /\ evs'[i].fd < Len(events) /\ evs'[i].file \in opened
               /\ fdtab[evs'[i].fd] = evs'[i].file
    <3>1. evs'[i].fd \in Fds /\ fdtab[evs'[i].fd] = evs'[i].file
          /\ evs'[i].file \in interest
      BY <1>t, <2>1, <2>3
    <3> QED
      BY <3>1 DEF TableInv, Reg, FilesInv
  <2> QED
    BY <2>1, <2>2, <2>3 DEF BatchInv, Current
<1>6. CASE TakeTasks \/ Dispatch
  <2>1. /\ evs # <<>> /\ evs' = Tail(evs) /\ exe = <<>>
        /\ UNCHANGED <<fdtab, events, opened, alive>>
    BY <1>6 DEF TakeTasks, Dispatch, AtEvent, kernel, user
  <2>2. \A i \in DOMAIN evs' : i + 1 \in DOMAIN evs /\ evs'[i] = evs[i + 1]
    BY <1>t, <2>1
  <2>3. 1 \in DOMAIN evs /\ evs[1] = Head(evs) /\ \A i \in DOMAIN evs' : i + 1 # 1
    BY <1>t, <2>1
  <2>4. CASE TakeTasks
    <3>1. \A i \in DOMAIN evs' : evs'[i] # Wake
      BY <2>2, <2>3, <2>4 DEF TakeTasks, BatchInv
    <3>2. \A i \in DOMAIN evs' : Current(evs'[i]) /\ evs'[i].fd < Len(events)
                                 /\ evs'[i].file \in opened
      BY <2>2, <2>3, <2>4, <3>1 DEF TakeTasks, BatchInv
    <3> QED
      BY <2>1, <3>1, <3>2 DEF BatchInv, Current
  <2>5. CASE Dispatch
    <3>1. exe' = <<>>
      BY <2>1, <2>5 DEF Dispatch
    <3>2. \A i \in DOMAIN evs' : evs'[i] # Wake =>
            /\ evs'[i].fd < Len(events) /\ evs'[i].file \in opened
            /\ Current(evs'[i]) \/ Outdated(evs'[i])
      BY <2>2 DEF BatchInv
    <3>3. ASSUME NEW i \in DOMAIN evs', evs'[i] = Wake
          PROVE  /\ \A j \in DOMAIN evs' : evs'[j] = Wake => j = i
                 /\ \A j \in DOMAIN evs' : evs'[j] # Wake => Current(evs'[j])
      <4>1. /\ \A j \in DOMAIN evs : evs[j] = Wake => j = i + 1
            /\ \A j \in DOMAIN evs : evs[j] # Wake => Current(evs[j])
        BY <2>2, <3>3 DEF BatchInv
      <4>2. \A j \in DOMAIN evs' : j + 1 = i + 1 => j = i
        BY <1>t, <2>1
      <4> QED
        BY <2>2, <4>1, <4>2
    <3>4. \A i \in DOMAIN evs' : Current(evs'[i]) => fdtab'[evs'[i].fd] = evs'[i].file
      BY <2>1 DEF Current
    <3>5. \A i \in DOMAIN evs' : Outdated(evs'[i]) =>
            /\ \A fd \in Fds : fdtab'[fd] # evs'[i].file
            /\ events'[evs'[i].fd + 1].cb \notin alive'
      BY <2>1 DEF Outdated, Event
    <3> QED
      BY <2>1, <3>1, <3>2, <3>3, <3>4, <3>5 DEF BatchInv, Current, Outdated, Event
  <2> QED
    BY <1>6, <2>4, <2>5
<1>7. CASE RunTask
  <2>1. exe # <<>> /\ UNCHANGED <<opened, alive, evs>> /\ Taken
    BY <1>7, <1>t, TaskIsTaken, PendingTail DEF user
  <2>2. /\ Task \in Tasks /\ fdtab[Task.fd] = Task.file
        /\ Task.fd \in Fds /\ Task.file \in Files
        /\ Task.op # "register" => Reg(events, Task.fd)
    BY <2>1, FirstTask DEF Tasks
  <2>3. /\ \A fd \in Fds : fd < Len(events) => fd < Len(events')
        /\ \A fd \in Fds : fd < Len(events) /\ fd # Task.fd =>
             events'[fd + 1].cb = events[fd + 1].cb
        /\ \A fd \in Fds : fd # Task.fd => fdtab'[fd] = fdtab[fd]
        /\ \/ UNCHANGED fdtab
           \/ /\ Task.op = "unregister" /\ fdtab'[Task.fd] = Free
              /\ \/ events'[Task.fd + 1].cb = NoFile
                 \/ UNCHANGED events
    BY <1>7, TaskEffects
  <2>4. \A i \in DOMAIN evs : /\ evs[i] # Wake /\ evs[i].fd < Len(events)
                              /\ evs[i].file \in opened
                              /\ evs[i].fd \in Fds /\ evs[i].file \in Files
                              /\ Current(evs[i]) \/ Outdated(evs[i])
    BY <1>f, <2>1 DEF BatchInv
  <2>5. \A k \in DOMAIN exe' : k + 1 \in DOMAIN exe /\ exe'[k] = exe[k + 1] /\ k + 1 > 1
    <3>1. exe # <<>> /\ exe' = Tail(exe)
      BY <1>7, TaskIsTaken
    <3>2. exe' \in Seq(Tasks)
      BY <1>t, <3>1
    <3> QED
      BY <2>1, <3>2 DEF Taken
  <2>6. 1 \in DOMAIN exe /\ exe[1] = Task
    BY <1>t, <2>1 DEF Task
  <2>7. ASSUME NEW i \in DOMAIN evs, Outdated(evs[i]) PROVE Outdated(evs[i])'
    <3>1. evs[i].fd # Task.fd
      BY <2>6, <2>7 DEF Outdated
    <3>2. \A fd \in Fds : fdtab'[fd] = fdtab[fd] \/ fdtab'[fd] = Free
      BY <2>3
    <3>3. \A fd \in Fds : fdtab'[fd] # evs[i].file
      BY <1>a, <2>4, <2>7, <3>2 DEF Outdated
    <3>4. events'[evs[i].fd + 1].cb \notin alive
      BY <2>3, <2>4, <2>7, <3>1 DEF Outdated, Event
    <3>5. \A k \in DOMAIN exe' : exe'[k].fd # evs[i].fd
      BY <2>5, <2>7 DEF Outdated
    <3> QED
      BY <2>1, <3>3, <3>4, <3>5 DEF Outdated, Event
  <2>8. ASSUME NEW i \in DOMAIN evs, Current(evs[i])
        PROVE  Current(evs[i])' \/ Outdated(evs[i])'
    <3>1. CASE UNCHANGED fdtab \/ evs[i].fd # Task.fd
      BY <2>1, <2>3, <2>4, <2>8, <3>1 DEF Current
    <3>2. CASE fdtab' # fdtab /\ evs[i].fd = Task.fd
      <4>1. /\ Task.op = "unregister" /\ fdtab'[Task.fd] = Free
            /\ \/ events'[Task.fd + 1].cb = NoFile
               \/ UNCHANGED events
        BY <2>3, <3>2
      <4>2. /\ Task.file \notin alive
            /\ \A k \in DOMAIN exe : k > 1 => exe[k].fd # Task.fd
        BY <2>1, <4>1, UnregisteredIsDead
      <4>3. evs[i].file = Task.file
        BY <2>2, <2>8, <3>2 DEF Current
      <4>4. \A fd \in Fds : fdtab'[fd] # evs[i].file
        BY <1>a, <2>2, <2>3, <4>1, <4>3 DEF FilesInv
      <4>5. events'[evs[i].fd + 1].cb \notin alive
        <5>1. events[Task.fd + 1].cb \notin alive
          BY <2>2, <2>4, <3>2, <4>2 DEF TableInv, Event
        <5>2. NoFile \notin alive
          BY <1>t, <1>a
        <5> QED
          BY <3>2, <4>1, <5>1, <5>2
      <4>6. \A k \in DOMAIN exe' : exe'[k].fd # evs[i].fd
        BY <2>5, <3>2, <4>2
      <4> QED
        BY <2>1, <4>4, <4>5, <4>6 DEF Outdated, Event
    <3> QED
      BY <3>1, <3>2
  <2> QED
    BY <2>1, <2>3, <2>4, <2>7, <2>8 DEF BatchInv
<1>8. CASE DestroyLoop
  <2>1. evs' = <<>>
    BY <1>8 DEF DestroyLoop
  <2> QED
    BY <2>1 DEF BatchInv
<1>9. CASE \/ \E file \in Files : Arrive(file)
           \/ \E c \in Channels :
                \/ \E d \in Channels : Move(c, d) \/ Swap(c, d)
                \/ UpdateEventCb(c) \/ UpdateEvent(c) \/ DisableEvent(c)
                \/ Expire(c) \/ Destruct(c)
  BY <1>0, <1>9
     DEF Arrive, Move, Swap, UpdateEventCb, UpdateEvent, DisableEvent, Expire,
         Destruct, kernel, user
<1>10. CASE UNCHANGED vars
  BY <1>0, <1>10 DEF vars, kernel, user
<1> QED
  BY <1>2, <1>3, <1>4, <1>5, <1>6, <1>7, <1>8, <1>9, <1>10
     DEF Next, IoStep, UserStep
LEMMA EdgeInductive ==
  TypeOK /\ FilesInv /\ TaskInv /\ TableInv /\ BatchInv /\ EdgeNotLost /\ [Next]_vars
    => EdgeNotLost'
<1> SUFFICES ASSUME TypeOK, FilesInv, TaskInv, TableInv, BatchInv, EdgeNotLost,
                    [Next]_vars
             PROVE  EdgeNotLost'
  OBVIOUS
<1>t. /\ fdtab \in [Fds -> Files \cup {Free, Foreign}]
      /\ interest \subseteq Files /\ ready \subseteq interest
      /\ readable \subseteq Files /\ events \in Seq(EventRecords)
      /\ opened \subseteq Files /\ alive \subseteq opened
      /\ queue \in Seq(Tasks) /\ exe \in Seq(Tasks)
      /\ evs \in Seq([fd : Fds, file : Files] \cup {Wake})
  BY DEF TypeOK, EventRecords
<1>a. Free \notin Files /\ Foreign \notin Files /\ NoFile \notin Files
  BY EventsAssumption
<1>u. \A fd \in Fds : fd < Len(events) => events[fd + 1].cb \in opened \cup {NoFile}
  BY <1>t, EntryType DEF FilesInv
<1>g. ASSUME \A file \in readable', fd \in Fds :
               /\ file \in alive' /\ fd < Len(events') /\ fdtab'[fd] = file
               /\ events'[fd + 1].cb = file
               => file \in ready' \/ \E i \in DOMAIN evs' : evs'[i].file = file
      PROVE  EdgeNotLost'
  BY <1>g DEF EdgeNotLost, Installed, InBatch, Event
<1>e. ASSUME NEW file \in readable, NEW fd \in Fds, file \in alive,
             fd < Len(events), fdtab[fd] = file, events[fd + 1].cb = file
      PROVE  file \in ready \/ \E i \in DOMAIN evs : evs[i].file = file
  BY <1>e DEF EdgeNotLost, Installed, InBatch, Event
<1>0. ASSUME UNCHANGED <<fdtab, events, readable, ready, evs>>, alive' \subseteq alive
      PROVE  EdgeNotLost'
  BY <1>0, <1>e, <1>g
<1>1. ASSUME NEW fd \in Fds, fdtab[fd] = Free, NEW x, x \notin opened,
             fdtab' = [fdtab EXCEPT ![fd] = x], alive' \subseteq alive \cup {x},
             x = Foreign \/ x \in Files,
             UNCHANGED <<events, readable, ready, evs>>
      PROVE  EdgeNotLost'
  <2>1. ASSUME NEW file \in readable, NEW g \in Fds, file \in alive',
               g < Len(events), fdtab'[g] = file, events[g + 1].cb = file
        PROVE  file \in ready \/ \E i \in DOMAIN evs : evs[i].file = file
    <3>1. file # x
      BY <1>a, <1>t, <1>u, <1>1, <2>1
    <3>2. fdtab[g] = file /\ file \in alive
      BY <1>t, <1>1, <2>1, <3>1
    <3> QED
      BY <1>e, <2>1, <3>2
  <2> QED
    BY <1>1, <1>g, <2>1
<1>2. ASSUME NEW c \in Channels, NEW file \in Files, NEW fd \in Fds,
             Construct(c, file, fd)
      PROVE  EdgeNotLost'
  BY <1>1, <1>2 DEF Construct
<1>3. ASSUME NEW file \in Files, NEW fd \in Fds, FactoryFails(file, fd)
      PROVE  EdgeNotLost'
  BY <1>1, <1>3 DEF FactoryFails
<1>4. ASSUME NEW fd \in Fds, ForeignOpen(fd) PROVE EdgeNotLost'
  BY <1>1, <1>4, <1>t, <1>a DEF ForeignOpen, user
<1>5. ASSUME NEW x \in Files, Arrive(x) PROVE EdgeNotLost'
  <2>1. /\ readable' = readable \cup {x} /\ ready \subseteq ready'
        /\ x \in interest => x \in ready'
        /\ UNCHANGED <<fdtab, events, alive, evs>>
    BY <1>5 DEF Arrive, user
  <2>2. \A fd \in Fds : x \in alive /\ fd < Len(events) /\ events[fd + 1].cb = x =>
          x \in interest
    BY DEF TableInv, Event
  <2> QED
    BY <1>e, <1>g, <2>1, <2>2
<1>6. CASE epoll_wait
  <2>1. PICK files \in SUBSET ready :
          /\ ready' = ready \ files
          /\ \A fd \in Fds : fdtab[fd] \in files =>
               \E i \in DOMAIN evs' : evs'[i].file = fdtab[fd]
    BY <1>6, <1>t, BatchFetched
  <2>2. evs = <<>> /\ UNCHANGED <<fdtab, events, alive, readable>>
    BY <1>6 DEF epoll_wait, user
  <2>3. \A i \in DOMAIN evs : FALSE
    BY <2>2
  <2> QED
    BY <1>e, <1>g, <2>1, <2>2, <2>3
<1>7. CASE TakeTasks \/ Dispatch
  <2>1. /\ evs # <<>> /\ evs' = Tail(evs) /\ readable' \subseteq readable
        /\ UNCHANGED <<fdtab, events, alive, ready>>
        /\ Head(evs) = Wake \/ Dispatch
    BY <1>7 DEF TakeTasks, Dispatch, AtEvent, kernel, user
  <2>2. /\ \A i \in DOMAIN evs : \/ i = 1
                                 \/ \E j \in DOMAIN evs' : evs'[j] = evs[i]
        /\ 1 \in DOMAIN evs /\ evs[1] = Head(evs)
    <3>1. 1 \in DOMAIN evs /\ evs[1] = Head(evs)
      BY <1>t, <2>1
    <3>2. ASSUME NEW i \in DOMAIN evs, i # 1
          PROVE  \E j \in DOMAIN evs' : evs'[j] = evs[i]
      <4>1. PICK j : j = i - 1
        OBVIOUS
      <4>2. j + 1 = i /\ j \in 1..Len(evs) - 1
        BY <1>t, <3>2, <4>1
      <4>3. j \in DOMAIN evs' /\ evs'[j] = evs[j + 1]
        BY <1>t, <2>1, <4>2
      <4> QED
        BY <4>2, <4>3
    <3> QED
      BY <3>1, <3>2
  <2>3. ASSUME NEW file \in readable', NEW fd \in Fds, file \in alive,
               fd < Len(events), fdtab[fd] = file, events[fd + 1].cb = file
        PROVE  Head(evs).file # file
    <3>1. CASE Head(evs) = Wake
      BY <1>t, <1>a, <2>3, <3>1 DEF Wake
    <3>2. CASE Head(evs) # Wake
      <4>1. /\ readable' = IF EventCb \in alive THEN readable \ {EventCb} ELSE readable
            /\ EventCb = events[Head(evs).fd + 1].cb
        BY <2>1, <3>2 DEF Dispatch, EventCb, Event
      <4>2. Head(evs).fd \in Fds /\ (Current(Head(evs)) \/ Outdated(Head(evs)))
        BY <1>t, <2>2, <3>2 DEF BatchInv
      <4>3. CASE Current(Head(evs))
        BY <1>t, <2>3, <4>1, <4>2, <4>3 DEF Current, FilesInv
      <4>4. CASE Outdated(Head(evs))
        BY <2>3, <4>4 DEF Outdated
      <4> QED
        BY <4>2, <4>3, <4>4
    <3> QED
      BY <3>1, <3>2
  <2>4. ASSUME NEW file \in readable', NEW fd \in Fds, file \in alive,
               fd < Len(events), fdtab[fd] = file, events[fd + 1].cb = file
        PROVE  file \in ready \/ \E i \in DOMAIN evs' : evs'[i].file = file
    <3>1. file \in ready \/ \E i \in DOMAIN evs : evs[i].file = file
      BY <1>e, <2>1, <2>4
    <3>2. Head(evs).file # file
      BY <2>3, <2>4
    <3> QED
      BY <2>2, <3>1, <3>2
  <2> QED
    BY <1>g, <2>1, <2>4
<1>8. CASE DestroyLoop
  BY <1>8, <1>g DEF DestroyLoop
<1>9. CASE RunTask
  <2>1. exe # <<>> /\ UNCHANGED <<opened, alive, evs>>
    BY <1>9, TaskIsTaken DEF user
  <2>2. /\ Task \in Tasks /\ fdtab[Task.fd] = Task.file
        /\ Task.fd \in Fds /\ Task.file \in Files
        /\ Task.op # "register" => Reg(events, Task.fd)
    BY <2>1, FirstTask DEF Tasks
  <2>3. /\ \A fd \in Fds : fd < Len(events) => fd < Len(events')
        /\ \A fd \in Fds : fd < Len(events) /\ fd # Task.fd =>
             events'[fd + 1].cb = events[fd + 1].cb
        /\ \A fd \in Fds : fd # Task.fd => fdtab'[fd] = fdtab[fd]
    BY <1>9, TaskEffects
  <2>10. CASE Failed
    BY <1>e, <1>g, <2>1, <2>10 DEF Failed, kernel
  <2> SUFFICES ASSUME ~Failed PROVE EdgeNotLost'
    BY <2>10
  <2>4. CASE register_fd
    <3>1. GrownTable(Task.fd) /\ UNCHANGED <<fdtab, ready, readable>>
      BY <1>t, <2>2, <2>4, RegisterSets DEF register_fd, kernel
    <3>2. ASSUME NEW file \in readable, NEW fd \in Fds, fd < Len(events'),
                 events'[fd + 1].cb = file
          PROVE  fd < Len(events) /\ events[fd + 1].cb = file
      <4>1. fd + 1 \in DOMAIN events'
        BY <3>1, <3>2 DEF GrownTable, Fds
      <4>2. fd + 1 \in DOMAIN events
        BY <1>a, <1>t, <3>1, <3>2, <4>1 DEF GrownTable
      <4>3. fd < Len(events)
        BY <1>t, <4>2 DEF Fds
      <4> QED
        BY <3>1, <3>2, <4>2, <4>3 DEF GrownTable
    <3> QED
      BY <1>e, <1>g, <2>1, <3>1, <3>2
  <2>5. ASSUME NEW e, Sets(Task.fd, e) \/ UNCHANGED events,
               readable' \subseteq readable,
               \A file \in ready : file # Task.file => file \in ready',
               fdtab'[Task.fd] = fdtab[Task.fd] \/ fdtab'[Task.fd] = Free,
               \/ fdtab'[Task.fd] = Free
               \/ Sets(Task.fd, e) /\ e.cb = NoFile
               \/ Task.file \in readable' => Task.file \in ready'
        PROVE  EdgeNotLost'
    <3>1. ASSUME NEW fd \in Fds
          PROVE  /\ fd < Len(events') <=> fd < Len(events)
                 /\ fd < Len(events) /\ fd # Task.fd =>
                      events'[fd + 1] = events[fd + 1]
      BY <2>2, <2>5, OtherEntries
    <3>2. ASSUME NEW file \in readable', NEW fd \in Fds, file \in alive',
                 fd < Len(events'), fdtab'[fd] = file, events'[fd + 1].cb = file
          PROVE  file \in ready' \/ \E i \in DOMAIN evs' : evs'[i].file = file
      <4>1. CASE fd = Task.fd
        <5>1. file = Task.file /\ fdtab'[Task.fd] # Free
          BY <1>a, <1>t, <2>2, <2>5, <3>2, <4>1
        <5>2. ~(Sets(Task.fd, e) /\ e.cb = NoFile)
          BY <1>a, <1>t, <2>5, <3>2, <4>1 DEF Sets
        <5> QED
          BY <2>5, <3>2, <5>1, <5>2
      <4>2. CASE fd # Task.fd
        <5>1. fdtab[fd] = file /\ fd < Len(events) /\ events[fd + 1].cb = file
          BY <2>3, <3>1, <3>2, <4>2
        <5>2. file # Task.file
          BY <2>2, <4>2, <5>1 DEF FilesInv
        <5> QED
          BY <1>e, <2>1, <2>5, <3>2, <5>1, <5>2
      <4> QED
        BY <4>1, <4>2
    <3> QED
      BY <1>g, <3>2
  <2>6. CASE unregister_fd
    <3>1. Close(Task.fd) /\ (Sets(Task.fd, NoEvent) \/ UNCHANGED events)
      BY <2>6, UnregisterRuns
    <3>2. fdtab'[Task.fd] = Free /\ ready' = ready \ {Task.file}
          /\ readable' \subseteq readable
      BY <1>t, <2>2, <3>1 DEF Close
    <3> QED
      BY <2>5, <3>1, <3>2
  <2>7. ASSUME Watch(Task.file), NEW e, Sets(Task.fd, e) PROVE EdgeNotLost'
    <3>1. /\ UNCHANGED <<fdtab, readable>> /\ ready \subseteq ready'
          /\ Task.file \in readable => Task.file \in ready'
      BY <2>7 DEF Watch
    <3> QED
      BY <2>5, <2>7, <3>1
  <2>8. CASE enable_fd \/ enable_fd_same
    <3>1. Watch(Task.file) /\ \E e : Sets(Task.fd, e)
      BY <2>8, EnableRuns, UpdateRuns
    <3> QED
      BY <2>7, <3>1
  <2>9. CASE disable_fd
    <3>1. Unwatch(Task.file) /\ \E e : Sets(Task.fd, e) /\ e.cb = NoFile
      BY <2>9, DisableRuns
    <3>2. UNCHANGED <<fdtab, readable>> /\ ready' = ready \ {Task.file}
      BY <3>1 DEF Unwatch
    <3> QED
      BY <2>5, <3>1, <3>2
  <2> QED
    BY <1>9, <2>4, <2>6, <2>8, <2>9 DEF RunTask
<1>10. CASE \E c \in Channels :
              \/ \E d \in Channels : Move(c, d) \/ Swap(c, d)
              \/ UpdateEventCb(c) \/ UpdateEvent(c) \/ DisableEvent(c)
              \/ Expire(c) \/ Destruct(c)
  BY <1>0, <1>10
     DEF Move, Swap, UpdateEventCb, UpdateEvent, DisableEvent, Expire,
         Destruct, kernel, user
<1>11. CASE UNCHANGED vars
  BY <1>0, <1>11 DEF vars, kernel, user
<1> QED
  BY <1>2, <1>3, <1>4, <1>5, <1>6, <1>7, <1>8, <1>9, <1>10, <1>11
     DEF Next, IoStep, UserStep
-------------------------------------------------------------------------------
(***************************************************************************)
(* The theorems.                                                           *)
(***************************************************************************)
LEMMA InitEstablishes == Init => IInv
<1> SUFFICES ASSUME Init PROVE IInv
  OBVIOUS
<1>1. PICK n \in Nat : n = kEpollInitEventLen
  BY EventsAssumption
<1>2. events = [i \in 1..n |-> NoEvent]
  BY <1>1 DEF Init
<1>3. NoEvent \in EventRecords
  BY DEF NoEvent, EventRecords
<1>4. events \in Seq(EventRecords) /\ \A i \in DOMAIN events : events[i] = NoEvent
  BY <1>2, <1>3
<1>5. TypeOK
  BY <1>4 DEF TypeOK, Init, EventRecords
<1>6. Pending = <<>>
  BY DEF Pending, Init
<1>7. \A c \in Channels : channel[c].fd = -1 /\ channel[c].file = NoFile
  BY DEF Init, NoChannel
<1>a. Free \notin Files
  BY EventsAssumption
<1>8. FilesInv /\ ChannelInv
  BY <1>4, <1>7, <1>a DEF FilesInv, ChannelInv, Holds, NoEvent, Init
<1>9. TaskInv
  BY <1>6, <1>7 DEF TaskInv, Holds
<1>10. TableInv /\ BatchInv /\ EdgeNotLost
  BY DEF TableInv, BatchInv, EdgeNotLost, Init
<1> QED
  BY <1>5, <1>8, <1>9, <1>10 DEF IInv

LEMMA StepPreserves == IInv /\ [Next]_vars => IInv'
  BY TypesInductive, FilesInductive, ChannelInductive, TasksInductive,
     TableInductive, BatchInductive, EdgeInductive
     DEF IInv

LEMMA Invariance == Spec => []IInv
  BY InitEstablishes, StepPreserves, PTL DEF Spec

\* The table, the kernel's view, the channels and the queues keep their types.
THEOREM TypeCorrect == Spec => []TypeOK
<1>1. IInv => TypeOK
  BY DEF IInv
<1> QED
  BY <1>1, Invariance, PTL

\* The io tasks that LoopChannel's operations post act on the file that they were
\* posted for, however its number is closed, reused, moved or swapped meanwhile:
\* unregister_fd closes no descriptor but its own.
THEOREM TasksActOnTheirFile == Spec => []TasksOwnTheirFd
<1>1. IInv => TasksOwnTheirFd
  <2> SUFFICES ASSUME TypeOK, TaskInv PROVE TasksOwnTheirFd
    BY DEF IInv
  <2>1. exe \in Seq(Tasks) /\ queue \in Seq(Tasks)
    BY DEF TypeOK
  <2>2. /\ \A i \in DOMAIN exe : i \in DOMAIN Pending /\ Pending[i] = exe[i]
        /\ \A i \in DOMAIN queue : /\ i + Len(exe) \in DOMAIN Pending
                                   /\ Pending[i + Len(exe)] = queue[i]
    BY <2>1, PendingType
  <2>3. \A i \in DOMAIN exe : fdtab[exe[i].fd] = exe[i].file
    BY <2>2 DEF TaskInv
  <2>4. \A i \in DOMAIN queue : fdtab[queue[i].fd] = queue[i].file
    BY <2>2 DEF TaskInv
  <2> QED
    BY <2>3, <2>4 DEF TasksOwnTheirFd
<1> QED
  BY <1>1, Invariance, PTL

\* events_ is indexed within its bounds by every io task and every event of a
\* batch, and no task after the register task finds its number unregistered.
THEOREM TableIsLargeEnough == Spec => []EntriesExist
<1>1. IInv => EntriesExist
  <2> SUFFICES ASSUME TypeOK, TaskInv, BatchInv PROVE EntriesExist
    BY DEF IInv
  <2>1. exe # <<>> /\ Task.op # "register" =>
          Task.fd < Len(events) /\ Event(Task.fd).in_register
    BY FirstTask DEF Reg, Event
  <2>2. ASSUME NEW i \in DOMAIN evs, evs[i] = Wake PROVE evs[i].fd < Len(events)
    BY <2>2 DEF TypeOK, Wake
  <2>3. ASSUME NEW i \in DOMAIN evs, evs[i] # Wake PROVE evs[i].fd < Len(events)
    BY <2>3 DEF BatchInv
  <2> QED
    BY <2>1, <2>2, <2>3 DEF EntriesExist
<1> QED
  BY <1>1, Invariance, PTL

\* An event of the batch reaches only the callback of the file it happened on,
\* while epoll watches that file: not the file that has its number since.
THEOREM EventsReachTheirFile == Spec => []DispatchIsCurrent
<1>1. IInv => DispatchIsCurrent
  <2> SUFFICES ASSUME TypeOK, FilesInv, TableInv, BatchInv,
                      AtEvent, EventCb \in alive
               PROVE  EventCb = EventFile /\ EventCb \in interest
    BY DEF IInv, DispatchIsCurrent
  <2>1. evs \in Seq([fd : Fds, file : Files] \cup {Wake}) /\ evs # <<>>
        /\ Head(evs) # Wake
    BY DEF TypeOK, AtEvent
  <2>2. 1 \in DOMAIN evs /\ evs[1] = Head(evs) /\ Head(evs).fd \in Fds
    BY <2>1
  <2>3. /\ Head(evs).fd < Len(events)
        /\ Current(Head(evs)) \/ Outdated(Head(evs))
    BY <2>1, <2>2 DEF BatchInv
  <2>4. ~Outdated(Head(evs))
    BY DEF Outdated, EventCb
  <2> QED
    BY <2>2, <2>3, <2>4 DEF TableInv, EventCb, EventFile, Current
<1> QED
  BY <1>1, Invariance, PTL

\* A file with an unhandled event whose live callback is in the table is on
\* epoll's ready list or in the batch being dispatched.
THEOREM EdgesAreKept == Spec => []EdgeNotLost
<1>1. IInv => EdgeNotLost
  BY DEF IInv
<1> QED
  BY <1>1, Invariance, PTL

\* What epoll watches is in the table, so that disable_fd and unregister_fd find
\* it, and a live callback stands only at the number of its own file, also
\* where a close() that failed left an old entry behind.
THEOREM TableAgreesWithKernel == Spec => []TableCoversKernel
<1>1. IInv => TableCoversKernel
  BY DEF IInv, TableInv, TableCoversKernel, Reg, Event
<1> QED
  BY <1>1, Invariance, PTL

\* A callback with a live owner is in the table only where epoll watches, also
\* after an epoll_ctl() or a close() that failed.
THEOREM CallbacksAreWatched == Spec => []CallbackIsWatched
<1>1. IInv => CallbackIsWatched
  BY DEF IInv, TableInv, CallbackIsWatched, Event
<1> QED
  BY <1>1, Invariance, PTL
===============================================================================

--------------------------- MODULE UdpSocket_proofs ----------------------------
(***************************************************************************)
(* Proofs about UdpSocket, for any peers, groups, bounds and timeouts.     *)
(***************************************************************************)
EXTENDS UdpSocket, SequenceTheorems, TLAPS

Unread == {inbox[i] : i \in DOMAIN inbox}

\* What the steps left of a start() or of a stop() can be.
Rests(flag, op) ==
  IF kind = "server"
    THEN {<<Task(op, "dgram"), Task(flag, "timer"), Task(op, "timer")>>,
          <<Task(flag, "timer"), Task(op, "timer")>>,
          <<Task(op, "timer")>>}
    ELSE {<<Task(op, "dgram")>>}
Shapes == {<<>>} \cup Rests("set", "enable") \cup Rests("clear", "disable")

Phases == {"scan", "read", "error", "leave"}
IoTasks ==
  [op : {"enable", "disable", "unregister", "send"}, ch : Parts]

\* The types of the parts that TypeOK leaves open: tasks, calls, phases, timer.
TasksOK ==
  /\ queue \in Seq(IoTasks)
  /\ call \in [Callers -> Shapes]
  /\ pc \in Seq(Phases)
  /\ timer \in [left : 0..Scan, repeat : 0..Scan, due : BOOLEAN]

\* An object that is being let go of is not called any more.  One that is gone
\* is in no callback and has no sessions, and only then its channels are closed.
GoneInv ==
  /\ owner # "owned" => \A t \in Callers : call[t] = <<>>
  /\ owner = "gone" => /\ pc = <<>>
                       /\ \A p \in Peers : sessions[p] = NoSession
                       /\ \A ch \in Channels : ~started[ch]
  /\ \A i \in DOMAIN queue : queue[i].op = "unregister" => owner = "gone"
  /\ kind # "server" => \A p \in Peers : sessions[p] = NoSession

\* A session's time stamp is never older than its peer has been silent, unless
\* a datagram of the peer waits in the socket.
LeaseInv ==
  \A p \in Peers :
    sessions[p] # NoSession => p \in Unread \/ sessions[p] <= idle[p]

\* The channel is in the epoll set, or is going to be when the queue has run.
Disables(task, ch) == task.op \in {"disable", "unregister"} /\ task.ch = ch
Enabled(ch) ==
  \/ /\ ch \in watched
     /\ \A i \in DOMAIN queue : ~Disables(queue[i], ch)
  \/ \E i \in DOMAIN queue :
       /\ queue[i] = Task("enable", ch)
       /\ \A j \in DOMAIN queue : j > i => ~Disables(queue[j], ch)

\* The caller t has changed the flag of ch and not yet posted the task.
Posting(t, op, ch) == call[t] # <<>> /\ Head(call[t]) = Task(op, ch)

\* With one caller, flag and tasks agree.
WatchInv(t) ==
  \A ch \in Channels :
    /\ owner # "gone" /\ started[ch] => Posting(t, "enable", ch) \/ Enabled(ch)
    /\ Posting(t, "disable", ch) => ~started[ch]

\* What a watched channel has to report is on the ready list, or being handled.
ReadyInv ==
  /\ owner # "gone" /\ "dgram" \in watched /\ inbox # <<>> /\ ~cut =>
       "dgram" \in ready \/ At("read")
  /\ owner # "gone" /\ "timer" \in watched /\ timer.due =>
       "timer" \in ready \/ At("scan")

\* The timer of a server runs, and since the last scan no session has become
\* older than the part of the interval that has passed allows.
ScanInv ==
  kind = "server" /\ owner # "gone" =>
    /\ timer.repeat = Scan /\ timer.left > 0
    /\ ~timer.due =>
         \A p \in Peers : sessions[p] + timer.left <= session_timeout_ms + Scan

-------------------------------------------------------------------------------
\* The interval between two scans is neither zero nor above its limit.
LEMMA ScanIsPositive ==
  /\ Scan \in Nat /\ Scan > 0 /\ Scan <= kMaxScanIntervalMs
  /\ Long \in Nat /\ Long = session_timeout_ms + kMaxScanIntervalMs + 1
<1>1. session_timeout_ms \div kScanFrequencyDivisor \in Nat
  BY UdpAssumption
<1> QED
  BY <1>1, UdpAssumption DEF Scan, ScanTime, Long

\* What is left of a call of start() or stop() after one of its steps.
StepsOn(c) ==
  /\ Head(c).op \in {"set", "clear", "enable", "disable"}
  /\ Head(c).ch \in Parts
  /\ Tail(c) \in Shapes
  /\ Head(c).op \in {"set", "clear"} =>
       /\ Tail(c) # <<>> /\ Tail(Tail(c)) = <<>>
       /\ Head(Tail(c)) =
            Task(IF Head(c).op = "set" THEN "enable" ELSE "disable",
                 Head(c).ch)
  /\ Head(c).op \in {"enable", "disable"} /\ Tail(c) # <<>> =>
       Head(Tail(c)).op \in {"set", "clear"}

LEMMA RestSteps ==
  ASSUME NEW flag, NEW op,
         \/ flag = "set" /\ op = "enable"
         \/ flag = "clear" /\ op = "disable",
         NEW c \in Rests(flag, op)
  PROVE  StepsOn(c)
<1>0. Rests(flag, op) \subseteq Shapes
  BY DEF Shapes
<1>1. CASE c = <<Task(op, "dgram"), Task(flag, "timer"), Task(op, "timer")>>
  <2>1. Tail(c) = <<Task(flag, "timer"), Task(op, "timer")>>
    BY <1>1
  <2> QED
    BY <1>0, <1>1, <2>1 DEF Rests, Task, Parts, StepsOn
<1>2. CASE c = <<Task(flag, "timer"), Task(op, "timer")>>
  <2>1. Tail(c) = <<Task(op, "timer")>>
    BY <1>2
  <2> QED
    BY <1>0, <1>2, <2>1 DEF Rests, Task, Parts, StepsOn
<1>3. CASE c = <<Task(op, "timer")>>
  BY <1>0, <1>3 DEF Shapes, Rests, Task, Parts, StepsOn
<1>4. CASE c = <<Task(op, "dgram")>>
  BY <1>0, <1>4 DEF Shapes, Rests, Task, Parts, StepsOn
<1> QED
  BY <1>1, <1>2, <1>3, <1>4 DEF Rests

LEMMA ShapeSteps == ASSUME NEW c \in Shapes, c # <<>> PROVE StepsOn(c)
  BY RestSteps DEF Shapes

\* A call begins with the flag of the socket, and goes on as its shape says.
BeginsOn(c) ==
  /\ c # <<>> /\ Head(c).op \in {"set", "clear"} /\ Head(c).ch = "dgram"
  /\ Tail(c) \in Shapes /\ Tail(c) # <<>>
  /\ Head(Tail(c)) =
       Task(IF Head(c).op = "set" THEN "enable" ELSE "disable", "dgram")
  /\ Tail(Tail(c)) \in Shapes
  /\ Tail(Tail(c)) # <<>> => Head(Tail(Tail(c))).op \in {"set", "clear"}

LEMMA BothSteps ==
  ASSUME NEW flag, NEW op,
         \/ flag = "set" /\ op = "enable"
         \/ flag = "clear" /\ op = "disable"
  PROVE  BeginsOn(Both(<<flag, op>>))
<1> DEFINE a == Task(flag, "dgram")
           b == Task(op, "dgram")
           c == Task(flag, "timer")
           d == Task(op, "timer")
           all == Both(<<flag, op>>)
           S == {a, b, c, d}
<1>0. Rests(flag, op) \subseteq Shapes /\ <<>> \in Shapes
  BY DEF Shapes
<1>1. CASE kind = "server"
  <2>1. all = <<a, b>> \o <<c, d>>
    BY <1>1 DEF Both
  <2>2. <<a, b>> \o <<c, d>> = <<a, b, c, d>>
    <3> HIDE DEF a, b, c, d
    <3>1. <<a, b>> \o <<c, d>> \in Seq(S) /\ Len(<<a, b>> \o <<c, d>>) = 4
      OBVIOUS
    <3>2. <<a, b, c, d>> \in Seq(S) /\ Len(<<a, b, c, d>>) = 4
      OBVIOUS
    <3>3. \A i \in 1..4 : (<<a, b>> \o <<c, d>>)[i] = <<a, b, c, d>>[i]
      OBVIOUS
    <3> QED
      BY <3>1, <3>2, <3>3, SeqEqual
  <2>3. all = <<a, b, c, d>>
    BY <2>1, <2>2
  <2>4. all # <<>> /\ Head(all) = a /\ Tail(all) = <<b, c, d>>
        /\ Tail(Tail(all)) = <<c, d>> /\ Head(Tail(Tail(all))) = c
        /\ Tail(all) # <<>> /\ Head(Tail(all)) = b
    <3> HIDE DEF a, b, c, d, all
    <3> QED
      BY <2>3
  <2>5. Tail(all) \in Shapes /\ Tail(Tail(all)) \in Shapes
    BY <1>0, <1>1, <2>4 DEF Rests
  <2>6. BeginsOn(all)
    <3> HIDE DEF all
    <3>1. /\ Head(all).op = flag /\ Head(all).ch = "dgram"
          /\ Head(Tail(Tail(all))).op = flag
      BY <2>4 DEF Task
    <3>2. b = Task(IF Head(all).op = "set" THEN "enable" ELSE "disable",
                   "dgram")
      BY <3>1
    <3> HIDE DEF a, b, c, d
    <3> QED
      BY <3>1, <3>2, <2>4, <2>5 DEF BeginsOn
  <2> QED
    BY <2>6
<1>2. CASE kind # "server"
  <2>1. all = <<a, b>>
    BY <1>2 DEF Both
  <2>2. all # <<>> /\ Head(all) = a /\ Tail(all) = <<b>>
        /\ Tail(Tail(all)) = <<>>
        /\ Tail(all) # <<>> /\ Head(Tail(all)) = b
    <3> HIDE DEF a, b, all
    <3> QED
      BY <2>1
  <2>3. Tail(all) \in Shapes /\ Tail(Tail(all)) \in Shapes
    BY <1>0, <1>2, <2>2 DEF Rests
  <2>4. BeginsOn(all)
    <3> HIDE DEF all
    <3>1. Head(all).op = flag /\ Head(all).ch = "dgram"
      BY <2>2 DEF Task
    <3>2. b = Task(IF Head(all).op = "set" THEN "enable" ELSE "disable",
                   "dgram")
      BY <3>1
    <3> HIDE DEF a, b, c, d
    <3> QED
      BY <3>1, <3>2, <2>2, <2>3 DEF BeginsOn
  <2> QED
    BY <2>4
<1> QED
  BY <1>1, <1>2

LEMMA CallBegins == BeginsOn(StartSteps) /\ BeginsOn(StopSteps)
  BY BothSteps DEF StartSteps, StopSteps

-------------------------------------------------------------------------------
Types == TypeOK /\ TasksOK

\* The constructors leave every variable well typed.
LEMMA InitTypes == Init => Types
<1> SUFFICES ASSUME Init PROVE Types
  OBVIOUS
<1> USE DEF Init
<1>1. make_timer_channel(Scan, Scan)
        \in [left : 0..Scan, repeat : 0..Scan, due : BOOLEAN]
      /\ make_timer_channel(0, 0)
           \in [left : 0..Scan, repeat : 0..Scan, due : BOOLEAN]
  BY ScanIsPositive DEF make_timer_channel
<1>2. queue \in Seq(IoTasks)
  <2>1. /\ Task("enable", "dgram") \in IoTasks
        /\ kind = "server" => Task("enable", "timer") \in IoTasks
    BY DEF Task, Parts, IoTasks
  <2>2. queue = <<Task("enable", "dgram")>>
                  \o (IF kind = "server" THEN <<Task("enable", "timer")>>
                                         ELSE <<>>)
    OBVIOUS
  <2> HIDE DEF Init
  <2> QED
    BY <2>1, <2>2
<1>3. call \in [Callers -> Shapes]
  BY DEF Shapes
<1>4. timer.left \in 0..Scan /\ timer \in [left : 0..Scan, repeat : 0..Scan,
                                          due : BOOLEAN]
  BY <1>1
<1> QED
  BY <1>2, <1>3, <1>4, ScanIsPositive DEF Types, TypeOK, TasksOK, Channels,
     NoSession

\* Every step of the application, of the io thread, of the network and of the
\* clock keeps the types.
LEMMA TypesInductive == Types /\ [Next]_vars => Types'
<1> SUFFICES ASSUME Types, [Next]_vars PROVE Types'
  OBVIOUS
<1> USE ScanIsPositive, UdpAssumption DEF Types, TypeOK, TasksOK
<1>0. kind' = kind => Parts' = Parts /\ Shapes' = Shapes /\ IoTasks' = IoTasks
  BY DEF Parts, Shapes, Rests, IoTasks
<1>1. ASSUME NEW cb \in {"new", "read", "error"}, SetCb(cb) PROVE Types'
  BY <1>0, <1>1 DEF SetCb, kernel
<1>2. ASSUME NEW t \in Callers, Calls(t) PROVE Types'
  <2>1. PICK c \in {StartSteps, StopSteps} : Flag(t, c)
    BY <1>2 DEF Calls
  <2>2. BeginsOn(c)
    BY <2>1, CallBegins
  <2>3. call' \in [Callers -> Shapes]
    BY <2>1, <2>2 DEF Flag, BeginsOn
  <2>4. started' \in [Channels -> BOOLEAN]
    BY <2>1, <2>2 DEF Flag
  <2> QED
    BY <1>0, <2>1, <2>3, <2>4 DEF Flag, kernel
<1>3. ASSUME NEW t \in Callers, CallFlag(t) PROVE Types'
  <2>1. StepsOn(call[t]) /\ <<>> \in Shapes
    BY <1>3, ShapeSteps DEF CallFlag, Flag, Shapes
  <2> QED
    BY <1>0, <1>3, <2>1 DEF CallFlag, Flag, kernel, StepsOn, Channels
<1>4. ASSUME NEW t \in Callers, CallPosts(t) PROVE Types'
  <2>1. StepsOn(call[t])
    BY <1>4, ShapeSteps DEF CallPosts
  <2>2. Head(call[t]) \in IoTasks
    BY <1>4, <2>1 DEF CallPosts, StepsOn, Shapes, Rests, Task, IoTasks
  <2>3. queue' \in Seq(IoTasks)
    BY <1>4, <2>2 DEF CallPosts
  <2>4. call' \in [Callers -> Shapes]
    BY <1>4, <2>1 DEF CallPosts, StepsOn
  <2> QED
    BY <1>0, <1>4, <2>3, <2>4 DEF CallPosts, kernel
<1>5. ASSUME NEW g \in Groups, Group(g) PROVE Types'
  BY <1>0, <1>5 DEF Group, app
<1>6. CASE PostSend
  <2>1. Task("send", "dgram") \in IoTasks
    BY DEF Task, Parts, IoTasks
  <2> QED
    BY <1>0, <1>6, <2>1 DEF PostSend, app, kernel
<1>7. ASSUME Destroy, UNCHANGED <<heavy, watched, ready, kernel, idle, cut>>,
             pc' \in Seq(Phases)
      PROVE  Types'
  <2>1. /\ Task("disable", "dgram") \in IoTasks
        /\ Task("unregister", "dgram") \in IoTasks
        /\ kind = "server" => /\ Task("disable", "timer") \in IoTasks
                              /\ Task("unregister", "timer") \in IoTasks
    BY DEF Task, Parts, IoTasks
  <2>2. queue' \in Seq(IoTasks)
    BY <1>7, <2>1 DEF Destroy
  <2> QED
    BY <1>0, <1>7, <2>2 DEF Destroy, kernel, NoSession
<1>8. CASE Release
  BY <1>0, <1>7, <1>8 DEF Release, app, kernel
<1>9. CASE RunHeavy
  BY <1>0, <1>9 DEF RunHeavy, app, kernel
<1>10. CASE EnableTask
  <2>0. Head(queue) \in IoTasks /\ Tail(queue) \in Seq(IoTasks)
    BY <1>10 DEF EnableTask, Running
  <2>1. Ch \in Parts /\ queue' \in Seq(IoTasks)
    BY <1>10, <2>0 DEF EnableTask, Ch, IoTasks
  <2> QED
    BY <1>0, <1>10, <2>1 DEF EnableTask, app, kernel
<1>11. CASE DisableTask
  BY <1>0, <1>11 DEF DisableTask, Running, Ch, app, kernel, make_timer_channel
<1>12. CASE SendTask
  BY <1>0, <1>12 DEF SendTask, Running, app
<1>13. ASSUME NEW ch \in Channels, Event(ch) PROVE Types'
  <2>1. pc' \in Seq(Phases)
    <3> DEFINE a == IF "R" \in Level(ch) THEN <<"read">> ELSE <<>>
               b == IF "E" \in Level(ch) THEN <<"error">> ELSE <<>>
    <3>1. a \in Seq(Phases) /\ b \in Seq(Phases) /\ <<>> \in Seq(Phases)
          /\ <<"leave">> \in Seq(Phases) /\ <<"scan", "leave">> \in Seq(Phases)
      <4>1. {"scan", "read", "error", "leave"} \subseteq Phases
        BY DEF Phases
      <4> HIDE DEF Types, TypeOK, TasksOK
      <4> QED
        BY <4>1
    <3>2. pc' \in {<<>>, <<"scan", "leave">>, a \o b \o <<"leave">>}
      BY <1>13 DEF Event
    <3> HIDE DEF a, b, Types, TypeOK, TasksOK
    <3>3. a \o b \in Seq(Phases)
      BY <3>1, ConcatProperties
    <3>4. (a \o b) \o <<"leave">> \in Seq(Phases)
      BY <3>1, <3>3, ConcatProperties
    <3> QED
      BY <3>1, <3>2, <3>4
  <2> QED
    BY <1>0, <1>13, <2>1 DEF Event, app, kernel
<1>14. CASE Read
  <2> DEFINE q == Head(inbox)
  <2>1. q \in Peers /\ inbox' \in Seq(Peers)
    BY <1>14 DEF Read
  <2>2. Wanted(q) \in {"new", "read", None}
    BY DEF Wanted, NodeWants, ClientWants, ServerWants
  <2>3. heavy' \in Seq([cb : {"new", "read"}, peer : Peers])
    <3> DEFINE H == [cb : {"new", "read"}, peer : Peers]
               task == [cb |-> Wanted(q), peer |-> q]
    <3>1. heavy' = heavy \/ (Wanted(q) # None /\ heavy' = Append(heavy, task))
      BY <1>14 DEF Read
    <3>2. Wanted(q) # None => task \in H
      <4> HIDE DEF q
      <4> QED
        BY <2>1, <2>2
    <3>3. heavy \in Seq(H)
      OBVIOUS
    <3> HIDE DEF H, task, Types, TypeOK, TasksOK
    <3>4. heavy' \in Seq(H)
      BY <3>1, <3>2, <3>3
    <3> QED
      BY <3>4 DEF H
  <2>4. idle' \in [Peers -> 0..Long]
    <3>1. idle' = idle \/ idle' = [idle EXCEPT ![q] = Long]
      BY <1>14 DEF Read
    <3>2. idle \in [Peers -> 0..Long] /\ Long \in 0..Long
      OBVIOUS
    <3> HIDE DEF q, Types, TypeOK, TasksOK
    <3> QED
      BY <2>1, <3>1, <3>2
  <2>5. sessions' \in [Peers -> 0..Long \cup {NoSession}]
    <3>1. sessions' = sessions \/ sessions' = [sessions EXCEPT ![q] = 0]
      BY <1>14 DEF Read, Stamped
    <3>2. /\ sessions \in [Peers -> 0..Long \cup {NoSession}]
          /\ 0 \in 0..Long \cup {NoSession}
      OBVIOUS
    <3> HIDE DEF q, Types, TypeOK, TasksOK
    <3> QED
      BY <2>1, <3>1, <3>2
  <2> QED
    BY <1>0, <1>14, <2>1, <2>3, <2>4, <2>5 DEF Read, app, ReadLoop
<1>15. CASE ReadEnds \/ Error \/ ScanSessions
  <2>1. pc' \in Seq(Phases)
    <3>1. pc # <<>> /\ pc' = Tail(pc)
      BY <1>15 DEF ReadEnds, Error, ScanSessions, At
    <3> QED
      BY <3>1
  <2>2. sessions' \in [Peers -> 0..Long \cup {NoSession}]
    BY <1>15 DEF ReadEnds, Error, ScanSessions
  <2>3. timer' \in [left : 0..Scan, repeat : 0..Scan, due : BOOLEAN]
        /\ timer'.left \in 0..Scan
    BY <1>15 DEF ReadEnds, Error, ScanSessions
  <2> QED
    BY <1>0, <1>15, <2>1, <2>2, <2>3 DEF ReadEnds, Error, ScanSessions, app
<1>16. CASE Leave
  <2>1. pc' \in Seq(Phases)
    BY <1>16 DEF Leave
  <2>2. CASE owner = "released"
    BY <1>7, <1>16, <2>1, <2>2 DEF Leave
  <2>3. CASE owner # "released"
    BY <1>0, <1>16, <2>1, <2>3 DEF Leave, app, kernel
  <2> QED
    BY <2>2, <2>3
<1>17. ASSUME NEW q \in Peers, NEW to \in Groups \cup {None}, Arrive(q, to)
       PROVE  Types'
  BY <1>0, <1>17 DEF Arrive, Signal, app
<1>18. ASSUME NEW e \in NetErrors, SocketError(e) PROVE Types'
  BY <1>0, <1>18 DEF SocketError, Signal, app
<1>19. CASE Tick
  <2>0. \A n \in 0..Long : Older(n) \in 0..Long
    BY DEF Older
  <2>1. sessions' \in [Peers -> 0..Long \cup {NoSession}]
        /\ idle' \in [Peers -> 0..Long]
    BY <1>19, <2>0 DEF Tick
  <2>2. timer' \in [left : 0..Scan, repeat : 0..Scan, due : BOOLEAN]
        /\ timer'.left \in 0..Scan
    <3> DEFINE left == IF timer.left = 1 THEN timer.repeat
                       ELSE IF timer.left = 0 THEN 0 ELSE timer.left - 1
    <3>1. left \in 0..Scan /\ (timer.due \/ timer.left = 1) \in BOOLEAN
      OBVIOUS
    <3>2. timer' = [timer EXCEPT !.left = left,
                                 !.due = timer.due \/ timer.left = 1]
      BY <1>19 DEF Tick
    <3> HIDE DEF left
    <3> QED
      BY <3>1, <3>2
  <2>3. ready' \subseteq watched
    BY <1>19 DEF Tick, Signal
  <2> QED
    BY <1>0, <1>19, <2>1, <2>2, <2>3 DEF Tick, app
<1>20. CASE UNCHANGED vars
  BY <1>0, <1>20 DEF vars, app, kernel
<1> QED
  BY <1>1, <1>2, <1>3, <1>4, <1>5, <1>6, <1>8, <1>9, <1>10, <1>11, <1>12,
     <1>13, <1>14, <1>15, <1>16, <1>17, <1>18, <1>19, <1>20
     DEF Next, AppStep, IoStep, Deliver, Skip

\* Object, tasks, socket and timer keep their types, whatever the constants.
THEOREM TypeCorrect == Spec => []TypeOK
<1>1. Types => TypeOK
  BY DEF Types
<1> QED
  BY <1>1, InitTypes, TypesInductive, PTL DEF Spec

-------------------------------------------------------------------------------
\* What a step may do to the queue: the first task goes, or tasks are added.
LEMMA QueueTail ==
  ASSUME NEW S, NEW q \in Seq(S), q # <<>>
  PROVE  /\ 1 \in DOMAIN q /\ q[1] = Head(q)
         /\ \A i \in DOMAIN Tail(q) : i + 1 \in DOMAIN q /\ Tail(q)[i] = q[i + 1]
         /\ \A i \in DOMAIN q : i > 1 => /\ i - 1 \in DOMAIN Tail(q)
                                         /\ Tail(q)[i - 1] = q[i]
  OBVIOUS

LEMMA QueueAppend ==
  ASSUME NEW S, NEW q \in Seq(S), NEW x \in S
  PROVE  /\ Len(q) + 1 \in DOMAIN Append(q, x)
         /\ Append(q, x)[Len(q) + 1] = x
         /\ \A i \in DOMAIN q : i \in DOMAIN Append(q, x) /\ i <= Len(q)
                               /\ Append(q, x)[i] = q[i]
         /\ \A i \in DOMAIN Append(q, x) : i \in DOMAIN q \/ i = Len(q) + 1
  OBVIOUS

\* Letting go of the object, callbacks and closing keep to their order.
LEMMA GoneInductive == Types /\ GoneInv /\ [Next]_vars => GoneInv'
<1> SUFFICES ASSUME Types, GoneInv, [Next]_vars PROVE GoneInv'
  OBVIOUS
<1>t. /\ queue \in Seq(IoTasks) /\ call \in [Callers -> Shapes]
      /\ sessions \in [Peers -> 0..Long \cup {NoSession}]
      /\ started \in [Channels -> BOOLEAN] /\ inbox \in Seq(Peers)
      /\ owner \in {"owned", "released", "gone"}
  BY DEF Types, TypeOK, TasksOK
<1> USE DEF GoneInv
<1>1. ASSUME NEW cb \in {"new", "read", "error"}, SetCb(cb) PROVE GoneInv'
  BY <1>1 DEF SetCb
<1>2. ASSUME NEW t \in Callers, Calls(t) PROVE GoneInv'
  BY <1>2, <1>t DEF Calls, Flag
<1>3. ASSUME NEW t \in Callers, CallFlag(t) PROVE GoneInv'
  BY <1>3, <1>t DEF CallFlag, Flag
<1>4. ASSUME NEW t \in Callers, CallPosts(t) PROVE GoneInv'
  <2>1. Head(call[t]) \in IoTasks /\ Head(call[t]).op # "unregister"
    <3>1. StepsOn(call[t])
      BY <1>4, <1>t, ShapeSteps DEF CallPosts
    <3> QED
      BY <1>4, <1>t, <3>1 DEF CallPosts, StepsOn, Shapes, Rests, Task, IoTasks
  <2>2. \A i \in DOMAIN queue' : queue'[i].op = "unregister" => owner' = "gone"
    BY <1>4, <1>t, <2>1, QueueAppend DEF CallPosts
  <2> QED
    BY <1>4, <1>t, <2>2 DEF CallPosts
<1>5. ASSUME NEW g \in Groups, Group(g) PROVE GoneInv'
  BY <1>5 DEF Group, app
<1>6. CASE PostSend
  <2>1. Task("send", "dgram") \in IoTasks /\ Task("send", "dgram").op = "send"
    BY DEF Task, Parts, IoTasks
  <2>2. \A i \in DOMAIN queue' : queue'[i].op = "unregister" => owner' = "gone"
    BY <1>6, <1>t, <2>1, QueueAppend DEF PostSend
  <2> QED
    BY <1>6, <2>2 DEF PostSend, app
<1>7. ASSUME Destroy, pc' = <<>>, \A t \in Callers : call[t] = <<>>
      PROVE  GoneInv'
  BY <1>7 DEF Destroy, Channels
<1>8. CASE Release
  BY <1>7, <1>8 DEF Release, app
<1>9. CASE RunHeavy
  BY <1>9 DEF RunHeavy, app
<1>10. ASSUME pc = <<>>, queue # <<>>, queue' = Tail(queue),
              UNCHANGED <<app, owner, sessions, pc>>
       PROVE  GoneInv'
  <2>1. \A i \in DOMAIN queue' : queue'[i].op = "unregister" => owner' = "gone"
    BY <1>10, <1>t, QueueTail
  <2> QED
    BY <1>10, <2>1 DEF app
<1>11. CASE EnableTask \/ DisableTask \/ SendTask
  BY <1>10, <1>11 DEF EnableTask, DisableTask, SendTask, Running
<1>12. ASSUME NEW ch \in Channels, Event(ch) PROVE GoneInv'
  BY <1>12 DEF Event, app
<1>13. CASE Read
  <2>1. Head(inbox) \in Peers
    BY <1>13, <1>t DEF Read
  <2> QED
    BY <1>13, <1>t, <2>1 DEF Read, At, app, ReadLoop
<1>14. CASE ReadEnds \/ Error
  BY <1>14 DEF ReadEnds, Error, At, app
<1>15. CASE ScanSessions
  BY <1>15 DEF ScanSessions, At, app
<1>16. CASE Leave
  BY <1>7, <1>16, <1>t DEF Leave, At, app
<1>17. ASSUME NEW q \in Peers, NEW to \in Groups \cup {None}, Arrive(q, to)
       PROVE  GoneInv'
  BY <1>17 DEF Arrive, app
<1>18. ASSUME NEW e \in NetErrors, SocketError(e) PROVE GoneInv'
  BY <1>18 DEF SocketError, app
<1>19. CASE Tick
  BY <1>19, <1>t DEF Tick, app
<1>20. CASE UNCHANGED vars
  BY <1>20 DEF vars, app
<1> QED
  BY <1>1, <1>2, <1>3, <1>4, <1>5, <1>6, <1>8, <1>9, <1>11, <1>12, <1>13,
     <1>14, <1>15, <1>16, <1>17, <1>18, <1>19, <1>20
     DEF Next, AppStep, IoStep, Deliver, Skip

\* What a step may do to the datagrams that wait: nothing, one arrives, the
\* first is read, or all go with the socket.
LEMMA UnreadTail ==
  ASSUME NEW b \in Seq(Peers), b # <<>>, inbox = b, inbox' = Tail(b)
  PROVE  /\ Head(b) \in Unread
         /\ Unread' = Unread \/ Unread' = Unread \ {Head(b)}
<1>1. Head(b) \in Unread
  BY QueueTail DEF Unread
<1>2. Unread' \subseteq Unread
  BY QueueTail DEF Unread
<1>3. ASSUME NEW x \in Unread, x # Head(b) PROVE x \in Unread'
  <2>1. PICK i \in DOMAIN b : x = b[i]
    BY DEF Unread
  <2>2. i > 1
    BY <1>3, <2>1
  <2>3. i - 1 \in DOMAIN Tail(b) /\ Tail(b)[i - 1] = x
    BY <2>1, <2>2, QueueTail
  <2> QED
    BY <2>3 DEF Unread
<1> QED
  BY <1>1, <1>2, <1>3

LEMMA UnreadAppend ==
  ASSUME inbox \in Seq(Peers), NEW p \in Peers, inbox' = Append(inbox, p)
  PROVE  Unread' = Unread \cup {p}
<1>1. Unread' \subseteq Unread \cup {p}
  BY QueueAppend DEF Unread
<1>2. Unread \cup {p} \subseteq Unread'
  BY QueueAppend DEF Unread
<1> QED
  BY <1>1, <1>2

-------------------------------------------------------------------------------
Leased == {p \in Peers : sessions[p] # NoSession}

\* Every step keeps LeaseInv and is a step of SessionLease, or none of its
\* variables changes: datagrams arrive, are handled or dropped; a scan takes
\* the sessions of silent peers; the object is destroyed or its socket closed.
LEMMA LeaseStep ==
  Types /\ GoneInv /\ LeaseInv /\ [Next]_vars =>
    LeaseInv' /\ [Lease!Next]_<<idle, Unread, Leased>>
<1> DEFINE Goal == LeaseInv' /\ [Lease!Next]_<<idle, Unread, Leased>>
<1> SUFFICES ASSUME Types, GoneInv, LeaseInv, [Next]_vars PROVE Goal
  OBVIOUS
<1>t. /\ inbox \in Seq(Peers) /\ idle \in [Peers -> 0..Long]
      /\ sessions \in [Peers -> 0..Long \cup {NoSession}]
      /\ queue \in Seq(IoTasks) /\ kind \in Kinds
  BY DEF Types, TypeOK, TasksOK
<1>u. Long \in Nat /\ NoSession \notin 0..Long /\ session_timeout_ms \in Nat
  BY ScanIsPositive, UdpAssumption DEF NoSession
<1>d. /\ Unread = {inbox[i] : i \in DOMAIN inbox}
      /\ Leased = {p \in Peers : sessions[p] # NoSession}
  BY DEF Unread, Leased
<1>0. ASSUME UNCHANGED <<inbox, sessions, idle>> PROVE Goal
  BY <1>0 DEF LeaseInv, Unread, Leased
<1>1. ASSUME Destroy, UNCHANGED <<inbox, idle>> PROVE Goal
  <2>1. \A p \in Peers : sessions'[p] = NoSession
    BY <1>1 DEF Destroy
  <2>2. LeaseInv'
    BY <2>1 DEF LeaseInv
  <2>3. Leased' = {} /\ Unread' = Unread /\ UNCHANGED idle
    BY <1>1, <2>1 DEF Leased, Unread
  <2>4. Lease!Close
    BY <2>3 DEF Lease!Close, Leased, Unread
  <2> QED
    BY <2>2, <2>4 DEF Lease!Next
<1>2. CASE DisableTask
  <2>1. CASE UNCHANGED inbox
    BY <1>0, <1>2, <2>1 DEF DisableTask
  <2>2. CASE inbox' # inbox
    <3>1. inbox' = <<>> /\ Head(queue).op = "unregister" /\ queue # <<>>
      BY <1>2, <2>2 DEF DisableTask, Running
    <3>2. owner = "gone"
      BY <1>t, <3>1, QueueTail DEF GoneInv
    <3>3. \A p \in Peers : sessions'[p] = NoSession
      BY <1>2, <3>2 DEF GoneInv, DisableTask
    <3>4. LeaseInv'
      BY <3>3 DEF LeaseInv
    <3>5. Unread' = {} /\ Leased' = Leased /\ UNCHANGED idle
      BY <1>2, <3>1 DEF DisableTask, Unread, Leased
    <3>6. Lease!Close
      BY <3>5 DEF Lease!Close, Leased, Unread
    <3> QED
      BY <3>4, <3>6 DEF Lease!Next
  <2> QED
    BY <2>1, <2>2
<1>3. CASE Read
  <2>0. Head(inbox) \in Peers
    BY <1>3, <1>t DEF Read
  <2>p. PICK p \in Peers : p = Head(inbox)
    BY <2>0
  <2>1. inbox # <<>> /\ inbox' = Tail(inbox) /\ p \in Peers
    BY <1>3, <1>t DEF Read
  <2>2. p \in Unread /\ (Unread' = Unread \/ Unread' = Unread \ {p})
    BY <1>t, <2>p, <2>1, UnreadTail
  <2>3. CASE kind = "server" /\ Wanted(p) # None
    <3>1. sessions' = [sessions EXCEPT ![p] = 0] /\ UNCHANGED idle
      BY <1>3, <2>p, <2>3 DEF Read, Stamped
    <3>2. Leased' = Leased \cup {p}
      BY <1>t, <1>u, <2>1, <3>1 DEF Leased
    <3>3. Lease!Handle(p)
      BY <2>2, <3>1, <3>2 DEF Lease!Handle, Leased, Unread
    <3>4. LeaseInv'
      BY <1>t, <1>u, <2>1, <2>2, <3>1 DEF LeaseInv
    <3> QED
      BY <3>3, <3>4 DEF Lease!Next
  <2>4. CASE ~(kind = "server" /\ Wanted(p) # None)
    <3>1. idle' = [idle EXCEPT ![p] = Long] /\ UNCHANGED sessions
      BY <1>3, <2>p, <2>4 DEF Read
    <3>2. Leased' = Leased
      BY <3>1 DEF Leased
    <3>3. Lease!Drop(p)
      BY <2>2, <3>1, <3>2 DEF Lease!Drop, Leased, Unread
    <3>4. LeaseInv'
      BY <1>t, <1>u, <2>1, <2>2, <3>1 DEF LeaseInv
    <3> QED
      BY <3>3, <3>4 DEF Lease!Next
  <2> QED
    BY <2>3, <2>4
<1>4. CASE ScanSessions
  <2>s. PICK S \in SUBSET Leased :
          S = {p \in Leased : sessions[p] > session_timeout_ms}
    OBVIOUS
  <2>1. /\ UNCHANGED <<inbox, idle>>
        /\ sessions' = [p \in Peers |->
                          IF sessions[p] # NoSession
                               /\ sessions[p] > session_timeout_ms
                            THEN NoSession ELSE sessions[p]]
    BY <1>4 DEF ScanSessions, Expired
  <2>2. Unread' = Unread /\ Leased' = Leased \ S
    BY <2>1, <2>s DEF Unread, Leased
  <2>3. \A p \in S : p \in Unread \/ idle[p] > session_timeout_ms
    BY <1>t, <1>u, <2>s DEF LeaseInv, Leased
  <2>5. LeaseInv'
    BY <2>1, <2>2 DEF LeaseInv
  <2>6. Lease!Expire(S)
    BY <2>1, <2>2, <2>3 DEF Lease!Expire, Leased, Unread
  <2> QED
    BY <2>5, <2>6 DEF Lease!Next, Leased
<1>5. ASSUME NEW p \in Peers, NEW to \in Groups \cup {None}, Arrive(p, to)
      PROVE  Goal
  <2>1. /\ inbox' = Append(inbox, p) /\ UNCHANGED sessions
        /\ idle' = [idle EXCEPT ![p] = 0]
    BY <1>5 DEF Arrive
  <2>2. Unread' = Unread \cup {p} /\ Leased' = Leased
    BY <1>t, <2>1, UnreadAppend DEF Leased
  <2>3. Lease!Arrive(p)
    BY <2>1, <2>2 DEF Lease!Arrive, Leased, Unread
  <2>4. LeaseInv'
    BY <1>t, <2>1, <2>2 DEF LeaseInv
  <2> QED
    BY <2>3, <2>4 DEF Lease!Next
<1>6. CASE Tick
  <2>1. /\ UNCHANGED inbox /\ idle' = [p \in Peers |-> Older(idle[p])]
        /\ sessions' = [p \in Peers |-> IF sessions[p] = NoSession
                                          THEN NoSession
                                          ELSE Older(sessions[p])]
    BY <1>6 DEF Tick
  <2>2. \A p \in Peers : sessions'[p] = NoSession <=> sessions[p] = NoSession
    BY <1>t, <1>u, <2>1 DEF Older, NoSession
  <2>3. Unread' = Unread /\ Leased' = Leased
    BY <2>1, <2>2 DEF Unread, Leased
  <2>4. Lease!Tick
    BY <2>1, <2>3 DEF Lease!Tick, Older, Leased, Unread
  <2>5. \A m, n \in 0..Long : m <= n => Older(m) <= Older(n)
    BY <1>u DEF Older
  <2>6. LeaseInv'
    BY <1>t, <2>1, <2>2, <2>3, <2>5 DEF LeaseInv
  <2> QED
    BY <2>4, <2>6 DEF Lease!Next
<1>7. CASE Release
  BY <1>0, <1>1, <1>7 DEF Release, kernel
<1>8. CASE Leave
  BY <1>0, <1>1, <1>8 DEF Leave, kernel
<1>9. ASSUME NEW t \in Callers, Calls(t) \/ CallFlag(t) \/ CallPosts(t)
      PROVE  Goal
  BY <1>0, <1>9 DEF Calls, CallFlag, CallPosts, Flag, kernel
<1>10. CASE \/ \E cb \in {"new", "read", "error"} : SetCb(cb)
            \/ \E g \in Groups : Group(g)
            \/ PostSend \/ RunHeavy \/ EnableTask \/ SendTask
            \/ \E ch \in Channels : Event(ch)
            \/ ReadEnds \/ Error
            \/ \E e \in NetErrors : SocketError(e)
  BY <1>0, <1>10
     DEF SetCb, Group, PostSend, RunHeavy, EnableTask, SendTask, Event,
         ReadEnds, Error, SocketError, kernel
<1>11. CASE UNCHANGED vars
  BY <1>0, <1>11 DEF vars, kernel
<1> QED
  BY <1>2, <1>3, <1>4, <1>5, <1>6, <1>7, <1>8, <1>9, <1>10, <1>11
     DEF Next, AppStep, IoStep, Deliver, Skip

\* UdpServer keeps the sessions of its peers as SessionLease promises, for any
\* number of peers and calling threads and for any timeout and scan interval.
THEOREM SessionsAreKept == Spec => SessionsAreLeased
<1> DEFINE I == Types /\ GoneInv /\ LeaseInv
<1>1. Init => I
  <2>1. Init => GoneInv
    BY DEF Init, GoneInv, Task
  <2>2. Init => LeaseInv
    BY DEF Init, LeaseInv
  <2> QED
    BY <2>1, <2>2, InitTypes
<1>2. I /\ [Next]_vars => I' /\ [Lease!Next]_<<idle, Unread, Leased>>
  BY TypesInductive, GoneInductive, LeaseStep
<1>3. [Lease!Next]_<<idle, Unread, Leased>> => [Lease!Next]_(Lease!vars)
  BY DEF Lease!vars, Unread, Leased
<1>4. Init => Lease!Init
  BY DEF Init, Lease!Init
<1> QED
  BY <1>1, <1>2, <1>3, <1>4, PTL DEF Spec, SessionsAreLeased, Lease!Spec

-------------------------------------------------------------------------------
\* An event that is taken from the ready list is handled to its end, and what
\* comes in between is signalled again.
LEMMA ReadyInductive == Types /\ ReadyInv /\ [Next]_vars => ReadyInv'
<1> SUFFICES ASSUME Types, ReadyInv, [Next]_vars PROVE ReadyInv'
  OBVIOUS
<1>t. /\ timer \in [left : 0..Scan, repeat : 0..Scan, due : BOOLEAN]
      /\ pc \in Seq(Phases) /\ watched \subseteq Parts
  BY DEF Types, TypeOK, TasksOK
<1> USE DEF ReadyInv, At
<1>0. ASSUME UNCHANGED <<watched, ready, inbox, timer, pc, cut>>,
             owner = "gone" => owner' = "gone"
      PROVE  ReadyInv'
  BY <1>0
<1>1. ASSUME Destroy PROVE ReadyInv'
  BY <1>1 DEF Destroy
<1>2. CASE Release
  BY <1>0, <1>1, <1>2 DEF Release, kernel
<1>3. CASE EnableTask
  BY <1>3 DEF EnableTask, Running, Level, kernel
<1>4. CASE DisableTask
  BY <1>4 DEF DisableTask, Running, make_timer_channel
<1>5. ASSUME NEW ch \in Channels, Event(ch) PROVE ReadyInv'
  <2>1. CASE ch = "timer"
    BY <1>5, <2>1 DEF Event, Level, kernel
  <2>2. CASE ch = "dgram"
    <3>1. owner # "gone" /\ inbox # <<>> => pc' # <<>> /\ Head(pc') = "read"
      <4> SUFFICES ASSUME owner # "gone", inbox # <<>>
                   PROVE  pc' # <<>> /\ Head(pc') = "read"
        OBVIOUS
      <4>1. \/ pc' = <<"read">> \o <<>> \o <<"leave">>
            \/ pc' = <<"read">> \o <<"error">> \o <<"leave">>
        BY <1>5, <2>2 DEF Event, Level
      <4> QED
        BY <4>1
    <3> QED
      BY <1>5, <2>2, <3>1 DEF Event, kernel
  <2> QED
    BY <2>1, <2>2 DEF Channels
<1>6. CASE Read
  BY <1>6 DEF Read, app, ReadLoop
<1>7. CASE ReadEnds
  BY <1>7 DEF ReadEnds
<1>8. CASE Error
  BY <1>8 DEF Error
<1>9. CASE ScanSessions
  BY <1>9, <1>t DEF ScanSessions
<1>10. CASE Leave
  <2>1. CASE owner = "released"
    BY <1>1, <1>10, <2>1 DEF Leave
  <2>2. CASE owner # "released"
    BY <1>10, <2>2 DEF Leave, kernel
  <2> QED
    BY <2>1, <2>2
<1>11. ASSUME NEW p \in Peers, NEW to \in Groups \cup {None}, Arrive(p, to)
       PROVE  ReadyInv'
  BY <1>11 DEF Arrive, Signal
<1>12. ASSUME NEW e \in NetErrors, SocketError(e) PROVE ReadyInv'
  BY <1>12 DEF SocketError, Signal
<1>13. CASE Tick
  <2>1. timer.left # 1 => timer'.due = timer.due
    BY <1>13, <1>t DEF Tick
  <2>2. timer.left = 1 /\ "timer" \in watched => "timer" \in ready'
    BY <1>13 DEF Tick, Signal
  <2>3. ready \subseteq ready' /\ UNCHANGED <<owner, watched, inbox, pc, cut>>
    BY <1>13 DEF Tick, Signal
  <2> QED
    BY <2>1, <2>2, <2>3
<1>14. ASSUME NEW t \in Callers, Calls(t) \/ CallFlag(t) \/ CallPosts(t)
       PROVE  ReadyInv'
  BY <1>0, <1>14 DEF Calls, CallFlag, CallPosts, Flag, kernel
<1>15. CASE \/ \E cb \in {"new", "read", "error"} : SetCb(cb)
            \/ \E g \in Groups : Group(g)
            \/ PostSend \/ RunHeavy \/ SendTask
  BY <1>0, <1>15 DEF SetCb, Group, PostSend, RunHeavy, SendTask, kernel
<1>16. CASE UNCHANGED vars
  BY <1>0, <1>16 DEF vars, kernel
<1> QED
  BY <1>2, <1>3, <1>4, <1>5, <1>6, <1>7, <1>8, <1>9, <1>10, <1>11, <1>12,
     <1>13, <1>14, <1>15, <1>16
     DEF Next, AppStep, IoStep, Deliver, Skip

\* Between two scans a session ages by no more than the interval.
LEMMA ScanInductive == Types /\ GoneInv /\ ScanInv /\ [Next]_vars => ScanInv'
<1> SUFFICES ASSUME Types, GoneInv, ScanInv, [Next]_vars PROVE ScanInv'
  OBVIOUS
<1>t. /\ timer \in [left : 0..Scan, repeat : 0..Scan, due : BOOLEAN]
      /\ sessions \in [Peers -> 0..Long \cup {NoSession}]
      /\ queue \in Seq(IoTasks) /\ inbox \in Seq(Peers)
  BY DEF Types, TypeOK, TasksOK
<1>u. /\ Scan \in Nat /\ Scan > 0 /\ session_timeout_ms \in Nat
      /\ Long \in Nat /\ NoSession = -1
  BY ScanIsPositive, UdpAssumption DEF NoSession
<1> USE DEF ScanInv
<1>0. ASSUME UNCHANGED <<kind, timer, sessions>>, owner = "gone" => owner' = "gone"
      PROVE  ScanInv'
  BY <1>0
<1>1. ASSUME Destroy PROVE ScanInv'
  BY <1>1 DEF Destroy
<1>2. CASE Release
  BY <1>0, <1>1, <1>2 DEF Release, app, kernel
<1>3. CASE Leave
  <2>1. CASE owner = "released"
    BY <1>1, <1>3, <2>1 DEF Leave
  <2>2. CASE owner # "released"
    BY <1>0, <1>3, <2>2 DEF Leave, app, kernel
  <2> QED
    BY <2>1, <2>2
<1>4. CASE DisableTask
  <2>1. CASE Head(queue).op = "unregister"
    <3>1. owner = "gone"
      BY <1>4, <1>t, <2>1, QueueTail DEF DisableTask, Running, GoneInv
    <3> QED
      BY <1>4, <3>1 DEF DisableTask
  <2>2. CASE Head(queue).op # "unregister"
    BY <1>0, <1>4, <2>2 DEF DisableTask, app
  <2> QED
    BY <2>1, <2>2
<1>5. CASE Read
  <2>1. \A p \in Peers : sessions'[p] = sessions[p] \/ sessions'[p] = 0
    BY <1>5, <1>t DEF Read, Stamped
  <2>2. UNCHANGED <<kind, owner, timer>>
    BY <1>5 DEF Read, app
  <2> QED
    BY <1>t, <1>u, <2>1, <2>2
<1>6. CASE ScanSessions
  <2>1. /\ UNCHANGED <<kind, owner>>
        /\ timer'.left = timer.left /\ timer'.repeat = timer.repeat
    BY <1>6, <1>t DEF ScanSessions, app
  <2>2. \A p \in Peers : sessions'[p] = NoSession
                         \/ sessions'[p] \in 0..session_timeout_ms
    BY <1>6, <1>t, <1>u DEF ScanSessions, Expired
  <2> QED
    BY <1>t, <1>u, <2>1, <2>2
<1>7. CASE Tick
  <2>1. UNCHANGED <<kind, owner>>
    BY <1>7 DEF Tick, app
  <2>2. \A p \in Peers : sessions'[p] <= sessions[p] + 1
    BY <1>7, <1>t, <1>u DEF Tick, Older
  <2>3. \A p \in Peers : sessions'[p] \in Int /\ sessions[p] \in Int
    BY <1>7, <1>t, <1>u DEF Tick, Older
  <2>4. CASE timer.left = 1
    BY <1>7, <1>t, <1>u, <2>1, <2>4 DEF Tick
  <2>5. CASE timer.left # 1 /\ timer.left > 0
    <3>1. /\ timer'.left = timer.left - 1 /\ timer'.repeat = timer.repeat
          /\ timer'.due = timer.due
      BY <1>7, <1>t, <2>5 DEF Tick
    <3> QED
      BY <1>t, <1>u, <2>1, <2>2, <2>3, <2>5, <3>1
  <2>6. CASE ~(timer.left > 0)
    BY <2>1, <2>6
  <2> QED
    BY <2>4, <2>5, <2>6
<1>8. ASSUME NEW t \in Callers, Calls(t) \/ CallFlag(t) \/ CallPosts(t)
      PROVE  ScanInv'
  BY <1>0, <1>8 DEF Calls, CallFlag, CallPosts, Flag, kernel
<1>9. CASE \/ \E cb \in {"new", "read", "error"} : SetCb(cb)
           \/ \E g \in Groups : Group(g)
           \/ PostSend \/ RunHeavy \/ EnableTask \/ SendTask
           \/ \E ch \in Channels : Event(ch)
           \/ ReadEnds \/ Error
           \/ \E p \in Peers, to \in Groups \cup {None} : Arrive(p, to)
           \/ \E e \in NetErrors : SocketError(e)
  BY <1>0, <1>9
     DEF SetCb, Group, PostSend, RunHeavy, EnableTask, SendTask, Event,
         ReadEnds, Error, Arrive, SocketError, app, kernel
<1>10. CASE UNCHANGED vars
  BY <1>0, <1>10 DEF vars, app, kernel
<1> QED
  BY <1>2, <1>3, <1>4, <1>5, <1>6, <1>7, <1>8, <1>9, <1>10
     DEF Next, AppStep, IoStep, Deliver, Skip

-------------------------------------------------------------------------------
\* A task that is added, or run, changes what becomes of a channel only if it is
\* about that channel.
LEMMA EnabledAppend ==
  ASSUME NEW ch, NEW task \in IoTasks, queue \in Seq(IoTasks),
         queue' = Append(queue, task), watched' = watched
  PROVE  /\ Enabled(ch) /\ ~Disables(task, ch) => Enabled(ch)'
         /\ task = Task("enable", ch) => Enabled(ch)'
<1>1. ASSUME Enabled(ch), ~Disables(task, ch) PROVE Enabled(ch)'
  <2>1. CASE ch \in watched /\ \A i \in DOMAIN queue : ~Disables(queue[i], ch)
    <3>1. \A i \in DOMAIN queue' : ~Disables(queue'[i], ch)
      BY <1>1, <2>1, QueueAppend
    <3> QED
      BY <2>1, <3>1 DEF Enabled, Disables
  <2>2. ASSUME NEW i \in DOMAIN queue, queue[i] = Task("enable", ch),
               \A j \in DOMAIN queue : j > i => ~Disables(queue[j], ch)
        PROVE  Enabled(ch)'
    <3>1. i \in DOMAIN queue' /\ queue'[i] = Task("enable", ch)
      BY <2>2, QueueAppend
    <3>2. \A j \in DOMAIN queue' : j > i => ~Disables(queue'[j], ch)
      BY <1>1, <2>2, QueueAppend
    <3> QED
      BY <3>1, <3>2 DEF Enabled, Disables
  <2> QED
    BY <1>1, <2>1, <2>2 DEF Enabled
<1>2. ASSUME task = Task("enable", ch) PROVE Enabled(ch)'
  <2>1. PICK i \in DOMAIN queue' : i = Len(queue) + 1
    BY QueueAppend
  <2>2. queue'[i] = Task("enable", ch)
    BY <1>2, <2>1, QueueAppend
  <2>3. \A j \in DOMAIN queue' : ~(j > i)
    BY <2>1
  <2> QED
    BY <2>2, <2>3 DEF Enabled
<1> QED
  BY <1>1, <1>2

LEMMA EnabledTail ==
  ASSUME NEW ch, queue \in Seq(IoTasks), queue # <<>>, queue' = Tail(queue),
         ~Disables(Head(queue), ch) /\ ch \in watched => ch \in watched',
         Head(queue) = Task("enable", ch) => ch \in watched',
         Enabled(ch)
  PROVE  Enabled(ch)'
<1>0. /\ 1 \in DOMAIN queue /\ queue[1] = Head(queue)
      /\ \A i \in DOMAIN queue' : i + 1 \in DOMAIN queue
                                 /\ queue'[i] = queue[i + 1] /\ i + 1 > 1
  BY QueueTail
<1>1. CASE ch \in watched /\ \A i \in DOMAIN queue : ~Disables(queue[i], ch)
  <2>1. ch \in watched' /\ \A i \in DOMAIN queue' : ~Disables(queue'[i], ch)
    BY <1>0, <1>1
  <2> QED
    BY <2>1 DEF Enabled, Disables
<1>2. ASSUME NEW i \in DOMAIN queue, queue[i] = Task("enable", ch),
             \A j \in DOMAIN queue : j > i => ~Disables(queue[j], ch)
      PROVE  Enabled(ch)'
  <2>1. CASE i = 1
    <3>1. ch \in watched' /\ \A j \in DOMAIN queue' : ~Disables(queue'[j], ch)
      BY <1>0, <1>2, <2>1
    <3> QED
      BY <3>1 DEF Enabled, Disables
  <2>2. CASE i # 1
    <3>1. PICK k \in DOMAIN queue' : k = i - 1
      BY <2>2, QueueTail
    <3>2. queue'[k] = Task("enable", ch)
      BY <1>0, <1>2, <3>1
    <3>3. \A j \in DOMAIN queue' : j > k => ~Disables(queue'[j], ch)
      <4> SUFFICES ASSUME NEW j \in DOMAIN queue', j > k
                   PROVE  ~Disables(queue'[j], ch)
        OBVIOUS
      <4>1. j + 1 \in DOMAIN queue /\ j + 1 > i /\ queue'[j] = queue[j + 1]
        BY <1>0, <3>1
      <4> QED
        BY <1>2, <4>1
    <3> QED
      BY <3>2, <3>3 DEF Enabled, Disables
  <2> QED
    BY <2>1, <2>2
<1> QED
  BY <1>1, <1>2 DEF Enabled

\* One thread calls start() and stop(): the flag says what becomes of the channel
\* when the posted tasks have run.
LEMMA WatchInductive ==
  ASSUME NEW t, Callers = {t}
  PROVE  Types /\ GoneInv /\ WatchInv(t) /\ [Next]_vars => WatchInv(t)'
<1> SUFFICES ASSUME Types, GoneInv, WatchInv(t), [Next]_vars PROVE WatchInv(t)'
  OBVIOUS
<1>t. /\ queue \in Seq(IoTasks) /\ call \in [Callers -> Shapes] /\ t \in Callers
      /\ started \in [Channels -> BOOLEAN] /\ call[t] \in Shapes
  BY DEF Types, TypeOK, TasksOK
<1>0. ASSUME UNCHANGED <<queue, call, started, watched>>,
             owner = "gone" => owner' = "gone"
      PROVE  WatchInv(t)'
  BY <1>0 DEF WatchInv, Posting, Enabled, Disables
<1>1. ASSUME Destroy, call[t] = <<>> PROVE WatchInv(t)'
  BY <1>1 DEF Destroy, WatchInv, Posting
\* Calls and CallFlag: nothing is being posted before the step.
<1>2. ASSUME NEW c, Flag(t, c),
             \A ch : ~Posting(t, "enable", ch) /\ ~Posting(t, "disable", ch),
             c # <<>>, Head(c).op \in {"set", "clear"}, Head(c).ch \in Channels,
             Tail(c) # <<>>,
             Head(Tail(c)) = Task(IF Head(c).op = "set" THEN "enable"
                                                        ELSE "disable",
                                  Head(c).ch),
             Tail(Tail(c)) # <<>> =>
               Head(Tail(Tail(c))).op \in {"set", "clear"}
      PROVE  WatchInv(t)'
  <2> DEFINE step == Head(c)
  <2>0. /\ started' = [started EXCEPT ![step.ch] = (step.op = "set")]
        /\ \/ step.op = "set" /\ started[step.ch] /\ call'[t] = Tail(Tail(c))
           \/ ~(step.op = "set" /\ started[step.ch]) /\ call'[t] = Tail(c)
        /\ UNCHANGED <<owner, queue, watched>>
    BY <1>2, <1>t DEF Flag
  <2>1. \A ch : Enabled(ch)' <=> Enabled(ch)
    BY <2>0 DEF Enabled, Disables
  <2>2. \A ch \in Channels : owner # "gone" /\ started[ch] => Enabled(ch)
    BY <1>2 DEF WatchInv
  <2>3. CASE step.op = "set" /\ started[step.ch]
    <3>0. call'[t] # <<>> => Head(call'[t]).op # "disable"
      BY <1>2, <2>0, <2>3
    <3>1. \A ch : ~Posting(t, "disable", ch)'
      BY <3>0 DEF Posting, Task
    <3>2. \A ch \in Channels : started'[ch] = started[ch]
      BY <1>2, <1>t, <2>0, <2>3
    <3> QED
      BY <2>0, <2>1, <2>2, <3>1, <3>2 DEF WatchInv
  <2>4. CASE step.op = "set" /\ ~started[step.ch]
    <3>0. call'[t] # <<>> /\ Head(call'[t]) = Task("enable", step.ch)
      BY <1>2, <2>0, <2>4
    <3>1. /\ Posting(t, "enable", step.ch)'
          /\ \A ch : ~Posting(t, "disable", ch)'
      <4> HIDE DEF step
      <4> QED
        BY <3>0 DEF Posting, Task
    <3>2. \A ch \in Channels : ch # step.ch => started'[ch] = started[ch]
      BY <1>t, <2>0
    <3> QED
      BY <2>0, <2>1, <2>2, <3>1, <3>2 DEF WatchInv
  <2>5. CASE step.op = "clear"
    <3>1. \A ch : Posting(t, "disable", ch)' => ch = step.ch
      BY <1>2, <2>0, <2>5 DEF Posting, Task
    <3>2. \A ch \in Channels : /\ ch # step.ch => started'[ch] = started[ch]
                               /\ ch = step.ch => ~started'[ch]
      BY <1>t, <2>0, <2>5
    <3> QED
      BY <2>0, <2>1, <2>2, <3>1, <3>2 DEF WatchInv
  <2> QED
    BY <1>2, <2>3, <2>4, <2>5
<1>3. CASE Calls(t)
  <2>1. \A ch : ~Posting(t, "enable", ch) /\ ~Posting(t, "disable", ch)
    BY <1>3 DEF Calls, Posting
  <2>2. ASSUME NEW c, BeginsOn(c), Flag(t, c) PROVE WatchInv(t)'
    <3>1. /\ c # <<>> /\ Head(c).op \in {"set", "clear"}
          /\ Head(c).ch = "dgram" /\ Head(c).ch \in Channels /\ Tail(c) # <<>>
          /\ Head(Tail(c)) = Task(IF Head(c).op = "set" THEN "enable"
                                                        ELSE "disable",
                                  Head(c).ch)
          /\ Tail(Tail(c)) # <<>> =>
               Head(Tail(Tail(c))).op \in {"set", "clear"}
      BY <2>2 DEF BeginsOn, Channels
    <3> QED
      BY <1>2, <2>1, <2>2, <3>1
  <2> QED
    BY <1>3, <2>2, CallBegins DEF Calls
<1>4. CASE CallFlag(t)
  <2>1. call[t] # <<>> /\ Head(call[t]).op \in {"set", "clear"}
    BY <1>4 DEF CallFlag, Flag
  <2>2. \A ch : ~Posting(t, "enable", ch) /\ ~Posting(t, "disable", ch)
    BY <2>1 DEF Posting, Task
  <2>3. StepsOn(call[t])
    BY <1>t, <2>1, ShapeSteps
  <2>4. Head(call[t]).ch \in Channels
    BY <2>3 DEF StepsOn, Parts, Channels
  <2>5. PICK c : c = call[t]
    OBVIOUS
  <2>6. /\ Tail(c) # <<>> /\ Tail(Tail(c)) = <<>>
        /\ Head(Tail(c)) = Task(IF Head(c).op = "set" THEN "enable"
                                                      ELSE "disable",
                                Head(c).ch)
    BY <2>1, <2>3, <2>5 DEF StepsOn
  <2> QED
    BY <1>2, <1>4, <2>1, <2>2, <2>4, <2>5, <2>6 DEF CallFlag
<1>5. CASE CallPosts(t)
  <2>1. PICK task \in IoTasks : task = Head(call[t])
    <3>1. StepsOn(call[t])
      BY <1>5, <1>t, ShapeSteps DEF CallPosts
    <3>2. Head(call[t]) \in IoTasks
      BY <1>5, <1>t, <3>1 DEF CallPosts, StepsOn, Shapes, Rests, Task, IoTasks
    <3> QED
      BY <3>2
  <2>2. /\ call[t] # <<>> /\ task.op \in {"enable", "disable"}
        /\ queue' = Append(queue, task) /\ call'[t] = Tail(call[t])
        /\ UNCHANGED <<owner, started, watched>>
    BY <1>5, <1>t, <2>1 DEF CallPosts
  <2>3. \A ch : ~Posting(t, "enable", ch)' /\ ~Posting(t, "disable", ch)'
    <3>1. StepsOn(call[t])
      BY <1>t, <2>2, ShapeSteps
    <3>2. Tail(call[t]) # <<>> => Head(Tail(call[t])).op \in {"set", "clear"}
      BY <2>1, <2>2, <3>1 DEF StepsOn
    <3> QED
      BY <2>2, <3>2 DEF Posting, Task
  <2>4. ASSUME NEW ch \in Channels, owner # "gone", started[ch]
        PROVE  Enabled(ch)'
    <3>1. CASE Posting(t, "enable", ch)
      <4>1. task = Task("enable", ch)
        BY <2>1, <3>1 DEF Posting
      <4> QED
        BY <1>t, <2>2, <4>1, EnabledAppend
    <3>2. CASE ~Posting(t, "enable", ch)
      <4>1. Enabled(ch) /\ ~Posting(t, "disable", ch)
        BY <2>4, <3>2 DEF WatchInv
      <4>2. ~Disables(task, ch)
        <5> SUFFICES ASSUME Disables(task, ch) PROVE FALSE
          OBVIOUS
        <5>1. task.op = "disable" /\ task.ch = ch
          BY <2>2 DEF Disables
        <5>2. task = Task("disable", ch)
          BY <5>1 DEF Task, IoTasks
        <5> QED
          BY <2>1, <2>2, <4>1, <5>2 DEF Posting
      <4> QED
        BY <1>t, <2>2, <4>1, <4>2, EnabledAppend
    <3> QED
      BY <3>1, <3>2
  <2> QED
    BY <2>2, <2>3, <2>4 DEF WatchInv
<1>6. CASE PostSend
  <2>1. PICK task \in IoTasks : task = Task("send", "dgram")
    BY DEF Task, Parts, IoTasks
  <2>2. \A ch : ~Disables(task, ch)
    BY <2>1 DEF Disables, Task
  <2>3. queue' = Append(queue, task) /\ UNCHANGED <<owner, watched, started, call>>
    BY <1>6, <2>1 DEF PostSend, app
  <2>4. \A ch : Enabled(ch) => Enabled(ch)'
    BY <1>t, <2>2, <2>3, EnabledAppend
  <2> QED
    BY <2>3, <2>4 DEF WatchInv, Posting
<1>7. CASE Release
  BY <1>0, <1>1, <1>7, <1>t DEF Release, app
<1>8. CASE Leave
  <2>1. CASE owner = "released"
    BY <1>1, <1>8, <1>t, <2>1 DEF Leave, GoneInv
  <2>2. CASE owner # "released"
    BY <1>0, <1>8, <2>2 DEF Leave, app
  <2> QED
    BY <2>1, <2>2
<1>9. CASE EnableTask \/ DisableTask \/ SendTask
  <2>1. queue # <<>> /\ queue' = Tail(queue) /\ UNCHANGED <<owner, started, call>>
    BY <1>9 DEF EnableTask, DisableTask, SendTask, Running, app
  <2>2. ASSUME NEW ch \in Channels
        PROVE  /\ ~Disables(Head(queue), ch) /\ ch \in watched => ch \in watched'
               /\ Head(queue) = Task("enable", ch) => ch \in watched'
    BY <1>9 DEF EnableTask, DisableTask, SendTask, Running, Ch, Disables, Task
  <2>3. \A ch \in Channels : Enabled(ch) => Enabled(ch)'
    BY <1>t, <2>1, <2>2, EnabledTail
  <2> QED
    BY <2>1, <2>3 DEF WatchInv, Posting
<1>10. CASE \/ \E cb \in {"new", "read", "error"} : SetCb(cb)
            \/ \E g \in Groups : Group(g)
            \/ RunHeavy \/ \E ch \in Channels : Event(ch)
            \/ Read \/ ReadEnds \/ Error \/ ScanSessions \/ Tick
            \/ \E p \in Peers, to \in Groups \cup {None} : Arrive(p, to)
            \/ \E e \in NetErrors : SocketError(e)
  BY <1>0, <1>10
     DEF SetCb, Group, RunHeavy, Event, Read, ReadEnds, Error, ScanSessions,
         Tick, Arrive, SocketError, app, kernel
<1>11. CASE UNCHANGED vars
  BY <1>0, <1>11 DEF vars, app
<1> QED
  BY <1>3, <1>4, <1>5, <1>6, <1>7, <1>8, <1>9, <1>10, <1>11
     DEF Next, AppStep, IoStep, Deliver, Skip

-------------------------------------------------------------------------------
WatchedIInv(t) ==
  Types /\ GoneInv /\ ReadyInv /\ ScanInv /\ WatchInv(t)

LEMMA WatchedInvariant ==
  ASSUME NEW t, Callers = {t} PROVE Spec => []WatchedIInv(t)
<1>1. Init => WatchedIInv(t)
  <2> SUFFICES ASSUME Init PROVE WatchedIInv(t)
    OBVIOUS
  <2>1. Types
    BY InitTypes
  <2>2. GoneInv
    BY DEF Init, GoneInv, Task
  <2>3. ReadyInv
    BY DEF Init, ReadyInv
  <2>4. ScanInv
    BY ScanIsPositive, UdpAssumption
       DEF Init, ScanInv, make_timer_channel, NoSession
  <2>5. WatchInv(t)
    <3>1. call[t] = <<>>
      BY DEF Init
    <3>2. ASSUME NEW ch \in Channels, started[ch] PROVE Enabled(ch)
      <4>1. CASE kind = "server"
        <5>1. queue = <<Task("enable", "dgram")>> \o <<Task("enable", "timer")>>
          BY <4>1 DEF Init
        <5>2. /\ DOMAIN queue = 1..2 /\ queue[1] = Task("enable", "dgram")
              /\ queue[2] = Task("enable", "timer")
          BY <5>1
        <5>3. \A j \in DOMAIN queue : ~Disables(queue[j], ch)
          BY <5>2 DEF Disables, Task
        <5>4. \E i \in DOMAIN queue : queue[i] = Task("enable", ch)
          BY <5>2 DEF Channels
        <5> QED
          BY <5>3, <5>4 DEF Enabled
      <4>2. CASE kind # "server"
        <5>1. queue = <<Task("enable", "dgram")>> \o <<>> /\ ch = "dgram"
          BY <3>2, <4>2 DEF Init, Parts
        <5>2. DOMAIN queue = 1..1 /\ queue[1] = Task("enable", ch)
          BY <5>1
        <5>3. \A j \in DOMAIN queue : ~Disables(queue[j], ch)
          BY <5>2 DEF Disables, Task
        <5> QED
          BY <5>2, <5>3 DEF Enabled
      <4> QED
        BY <4>1, <4>2
    <3> QED
      BY <3>1, <3>2 DEF WatchInv, Posting
  <2> QED
    BY <2>1, <2>2, <2>3, <2>4, <2>5 DEF WatchedIInv
<1>2. WatchedIInv(t) /\ [Next]_vars => WatchedIInv(t)'
  BY TypesInductive, GoneInductive, ReadyInductive, ScanInductive,
     WatchInductive DEF WatchedIInv
<1> QED
  BY <1>1, <1>2, PTL DEF Spec

\* When all is quiet, the channels of a started object are watched.
LEMMA QuietIsWatched ==
  ASSUME NEW t, Callers = {t}, WatchedIInv(t), Quiet,
         NEW ch \in Channels, started[ch]
  PROVE  ch \in watched /\ owner # "gone" /\ pc = <<>>
<1>1. owner # "gone" /\ call[t] = <<>> /\ queue = <<>> /\ pc = <<>>
  BY DEF WatchedIInv, GoneInv, Quiet
<1>2. Enabled(ch)
  BY <1>1 DEF WatchedIInv, WatchInv, Posting
<1> QED
  BY <1>1, <1>2 DEF Enabled

\* DgramSocket leaves no datagram behind: when one thread calls start() and
\* stop(), whatever their order and their races with the io thread, a datagram
\* in the socket of a started object is going to be read.
THEOREM NoDatagramIsForgotten ==
  ASSUME NEW t, Callers = {t} PROVE Spec => []DatagramsAreRead
<1>1. WatchedIInv(t) => DatagramsAreRead
  <2> SUFFICES ASSUME WatchedIInv(t), Quiet, started["dgram"], inbox # <<>>, ~cut
               PROVE  "dgram" \in ready
    BY DEF DatagramsAreRead
  <2>1. "dgram" \in watched /\ owner # "gone" /\ pc = <<>>
    BY QuietIsWatched DEF Channels
  <2> QED
    BY <2>1 DEF WatchedIInv, ReadyInv, At
<1> QED
  BY <1>1, WatchedInvariant, PTL

\* UdpServer's sessions do not linger: for any timeout and scan divisor, one that
\* is older than the timeout and one scan interval has its scan coming.
THEOREM NoSessionLingers ==
  ASSUME NEW t, Callers = {t} PROVE Spec => []LingerBounded
<1>1. WatchedIInv(t) => LingerBounded
  <2> SUFFICES ASSUME WatchedIInv(t), Quiet, started["timer"],
                      NEW p \in Peers,
                      sessions[p] > session_timeout_ms + Scan
               PROVE  "timer" \in ready
    BY DEF LingerBounded
  <2>1. "timer" \in watched /\ owner # "gone" /\ pc = <<>>
    BY QuietIsWatched DEF Channels
  <2>2. /\ timer \in [left : 0..Scan, repeat : 0..Scan, due : BOOLEAN]
        /\ sessions \in [Peers -> 0..Long \cup {NoSession}]
    BY DEF WatchedIInv, Types, TypeOK, TasksOK
  <2>3. kind = "server"
    BY ScanIsPositive, UdpAssumption DEF WatchedIInv, GoneInv, NoSession
  <2>4. timer.due
    BY <2>1, <2>2, <2>3, ScanIsPositive, UdpAssumption
       DEF WatchedIInv, ScanInv, NoSession
  <2> QED
    BY <2>1, <2>4 DEF WatchedIInv, ReadyInv, At
<1> QED
  BY <1>1, WatchedInvariant, PTL
===============================================================================

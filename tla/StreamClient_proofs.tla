-------------------------- MODULE StreamClient_proofs --------------------------
(***************************************************************************)
(* Proofs about StreamClient, for any messages, errors, bounds and room in *)
(* the kernel.  What holds only for some calls of the application is       *)
(* proved for the two ways to use a client of StreamClientInvariants.  The *)
(* order of the units needs neither; nor does the peer's stream, until the *)
(* connection breaks.                                                      *)
(***************************************************************************)
EXTENDS StreamClientInvariants, FiniteSetTheorems, FunctionTheorems, SequenceTheorems, TLAPS


----------------------------------------
\* Stacks of steps.

\* The stack of a thread whose first step was replaced by steps.
LEMMA Stacked ==
  ASSUME NEW s \in Seq(Labels), s # <<>>, NEW steps \in Seq(Labels)
  PROVE  /\ s[1] = Head(s) /\ Tail(s) \in Seq(Labels)
         /\ steps \o Tail(s) \in Seq(Labels)
         /\ Len(steps \o Tail(s)) = Len(steps) + Len(s) - 1
         /\ \A i \in 1..Len(steps) : (steps \o Tail(s))[i] = steps[i]
         /\ \A i \in 2..Len(s) : (steps \o Tail(s))[Len(steps) + i - 1] = s[i]
<1>1. /\ Tail(s) \in Seq(Labels) /\ Len(Tail(s)) = Len(s) - 1 /\ Len(s) \in Nat
      /\ \A i \in 1..(Len(s) - 1) : Tail(s)[i] = s[i + 1]
      /\ s[1] = Head(s)
  OBVIOUS
<1>2. /\ steps \o Tail(s) \in Seq(Labels)
      /\ Len(steps \o Tail(s)) = Len(steps) + Len(s) - 1
      /\ \A i \in 1..(Len(steps) + Len(s) - 1) :
           (steps \o Tail(s))[i] = IF i <= Len(steps) THEN steps[i]
                                    ELSE Tail(s)[i - Len(steps)]
  BY <1>1, ConcatProperties
<1>3. ASSUME NEW i \in 2..Len(s)
      PROVE  (steps \o Tail(s))[Len(steps) + i - 1] = s[i]
 <2>1. /\ Len(steps) + i - 1 \in 1..(Len(steps) + Len(s) - 1)
       /\ Len(steps) + i - 1 > Len(steps)
       /\ (Len(steps) + i - 1) - Len(steps) = i - 1
       /\ i - 1 \in 1..(Len(s) - 1) /\ (i - 1) + 1 = i
   BY <1>1, <1>3
 <2> QED BY <1>1, <1>2, <2>1
<1> QED BY <1>1, <1>2, <1>3

\* The few steps that an action puts on a stack.
LEMMA FewSteps ==
  /\ << >> \in Seq(Labels) /\ Len(<< >>) = 0
  /\ \A a \in Labels : /\ <<a>> \in Seq(Labels) /\ Len(<<a>>) = 1
                       /\ <<a>> # << >> /\ <<a>>[1] = a
                       /\ \A l : Has(<<a>>, l) <=> l = a
  /\ \A a, b \in Labels :
       /\ <<a, b>> \in Seq(Labels) /\ Len(<<a, b>>) = 2 /\ <<a, b>> # << >>
       /\ <<a, b>>[1] = a /\ <<a, b>>[2] = b
       /\ \A l : Has(<<a, b>>, l) <=> l \in {a, b}
  /\ \A a, b, c \in Labels :
       /\ <<a, b, c>> \in Seq(Labels) /\ Len(<<a, b, c>>) = 3
       /\ <<a, b, c>> # << >> /\ <<a, b, c>>[1] = a
       /\ <<a, b, c>>[2] = b /\ <<a, b, c>>[3] = c
       /\ \A l : Has(<<a, b, c>>, l) <=> l \in {a, b, c}
<1>1. \A a \in Labels : DOMAIN <<a>> = {1} /\ <<a>> \in Seq(Labels) OBVIOUS
<1>2. \A a, b \in Labels : DOMAIN <<a, b>> = {1, 2} /\ <<a, b>> \in Seq(Labels)
  OBVIOUS
<1>3. \A a, b, c \in Labels : DOMAIN <<a, b, c>> = {1, 2, 3}
                               /\ <<a, b, c>> \in Seq(Labels)
  OBVIOUS
<1>4. << >> \in Seq(Labels) /\ Len(<< >>) = 0 OBVIOUS
<1>5. ASSUME NEW a \in Labels
      PROVE  /\ Len(<<a>>) = 1 /\ <<a>> # << >> /\ <<a>>[1] = a
             /\ \A l : Has(<<a>>, l) <=> l = a
  BY <1>1 DEF Has
<1>6. ASSUME NEW a \in Labels, NEW b \in Labels
      PROVE  /\ Len(<<a, b>>) = 2 /\ <<a, b>> # << >>
             /\ <<a, b>>[1] = a /\ <<a, b>>[2] = b
             /\ \A l : Has(<<a, b>>, l) <=> l \in {a, b}
  BY <1>2 DEF Has
<1>7. ASSUME NEW a \in Labels, NEW b \in Labels, NEW c \in Labels
      PROVE  /\ Len(<<a, b, c>>) = 3 /\ <<a, b, c>> # << >>
             /\ <<a, b, c>>[1] = a /\ <<a, b, c>>[2] = b /\ <<a, b, c>>[3] = c
             /\ \A l : Has(<<a, b, c>>, l) <=> l \in {a, b, c}
  BY <1>3 DEF Has
<1> QED BY <1>1, <1>2, <1>3, <1>4, <1>5, <1>6, <1>7

\* What is on the stack afterwards: the new steps, and what was below the first.
LEMMA StackHas ==
  ASSUME NEW s \in Seq(Labels), s # <<>>, NEW steps \in Seq(Labels), NEW l
  PROVE  /\ Has(steps \o Tail(s), l) => Has(steps, l) \/ Has(s, l)
         /\ Has(steps, l) \/ (Has(s, l) /\ Head(s) # l) => Has(steps \o Tail(s), l)
<1> DEFINE r == steps \o Tail(s)
<1>1. /\ s[1] = Head(s) /\ r \in Seq(Labels) /\ Len(r) = Len(steps) + Len(s) - 1
      /\ \A i \in 1..Len(steps) : r[i] = steps[i]
      /\ \A i \in 2..Len(s) : r[Len(steps) + i - 1] = s[i]
  BY Stacked
<1> HIDE DEF r
<1>2. /\ DOMAIN r = 1..Len(r) /\ DOMAIN s = 1..Len(s) /\ Len(s) \in Nat
      /\ DOMAIN steps = 1..Len(steps) /\ Len(steps) \in Nat /\ Len(s) > 0
  BY <1>1
<1>3. ASSUME Has(r, l) PROVE Has(steps, l) \/ Has(s, l)
 <2>1. PICK i \in 1..Len(r) : r[i] = l BY <1>2, <1>3 DEF Has
 <2>2. CASE i <= Len(steps)
  <3>1. i \in DOMAIN steps /\ steps[i] = l BY <1>1, <1>2, <2>1, <2>2
  <3> QED BY <3>1 DEF Has
 <2>3. CASE i > Len(steps)
  <3>1. \E k \in 2..Len(s) : Len(steps) + k - 1 = i
   <4>1. Len(r) = Len(steps) + Len(s) - 1 BY <1>1
   <4>2. i - Len(steps) + 1 \in 2..Len(s) BY <1>2, <2>3, <4>1
   <4>3. Len(steps) + (i - Len(steps) + 1) - 1 = i BY <1>2
   <4> QED BY <4>2, <4>3
  <3>2. PICK k \in 2..Len(s) : Len(steps) + k - 1 = i BY <3>1
  <3>3. r[Len(steps) + k - 1] = s[k] BY <1>1
  <3>4. k \in DOMAIN s /\ s[k] = l BY <1>2, <2>1, <3>2, <3>3
  <3> QED BY <3>4 DEF Has
 <2> QED BY <1>2, <2>1, <2>2, <2>3
<1>4. ASSUME Has(steps, l) PROVE Has(r, l)
 <2>1. PICK i \in 1..Len(steps) : steps[i] = l BY <1>2, <1>4 DEF Has
 <2> QED BY <1>1, <1>2, <2>1 DEF Has
<1>5. ASSUME Has(s, l), Head(s) # l PROVE Has(r, l)
 <2>1. PICK i \in 1..Len(s) : s[i] = l BY <1>2, <1>5 DEF Has
 <2>2. i \in 2..Len(s) /\ Len(steps) + i - 1 \in 1..Len(r)
   BY <1>1, <1>2, <1>5, <2>1
 <2> QED BY <1>1, <1>2, <2>1, <2>2 DEF Has
<1> QED BY <1>3, <1>4, <1>5 DEF r

\* What a step of a thread does to the stacks.
LEMMA GotoIs ==
  ASSUME pc \in [Threads -> Seq(Labels)], NEW t \in Threads, pc[t] # <<>>,
         NEW steps \in Seq(Labels), Goto(t, steps)
  PROVE  /\ pc' \in [Threads -> Seq(Labels)]
         /\ pc'[t] = steps \o Tail(pc[t])
         /\ Len(pc'[t]) = Len(steps) + Len(pc[t]) - 1
         /\ steps # <<>> => pc'[t] # <<>> /\ Head(pc'[t]) = steps[1]
         /\ \A u \in Threads : u # t => pc'[u] = pc[u]
         /\ \A l : In(t, l)' => Has(steps, l) \/ In(t, l)
         /\ \A l : Has(steps, l) \/ (In(t, l) /\ Head(pc[t]) # l) => In(t, l)'
<1> DEFINE s == pc[t]
<1>1. s \in Seq(Labels) /\ s # <<>> OBVIOUS
<1>2. pc' = [pc EXCEPT ![t] = steps \o Tail(s)] BY DEF Goto
<1> HIDE DEF s
<1>3. /\ steps \o Tail(s) \in Seq(Labels)
      /\ Len(steps \o Tail(s)) = Len(steps) + Len(s) - 1
      /\ \A i \in 1..Len(steps) : (steps \o Tail(s))[i] = steps[i]
  BY <1>1, Stacked
<1>4. /\ pc' \in [Threads -> Seq(Labels)] /\ pc'[t] = steps \o Tail(s)
      /\ \A u \in Threads : u # t => pc'[u] = pc[u]
  BY <1>2, <1>3
<1>5. steps # <<>> => pc'[t] # <<>> /\ Head(pc'[t]) = steps[1]
 <2> SUFFICES ASSUME steps # <<>>
              PROVE  pc'[t] # <<>> /\ Head(pc'[t]) = steps[1]
   OBVIOUS
 <2>1. Len(steps) \in Nat /\ Len(steps) > 0 /\ Len(s) \in Nat /\ Len(s) > 0
   BY <1>1
 <2>2. pc'[t] \in Seq(Labels) /\ Len(pc'[t]) > 0 /\ pc'[t][1] = steps[1]
   BY <1>3, <1>4, <2>1
 <2> QED BY <2>2
<1>6. \A l : In(t, l)' => Has(steps, l) \/ Has(s, l)
  BY <1>1, <1>4, StackHas DEF In
<1>7. \A l : Has(steps, l) \/ (Has(s, l) /\ Head(s) # l) => In(t, l)'
  BY <1>1, <1>4, StackHas DEF In
<1> QED BY <1>3, <1>4, <1>5, <1>6, <1>7 DEF s, In

LEMMA UpdateLabels ==
  /\ DOMAIN Updates = {"update", "updateW", "updateRE", "updateRWE"}
  /\ DOMAIN Stores = {"store", "storeW", "storeRE", "storeRWE"}
  /\ UpdateSteps \subseteq Labels
  /\ \A l \in DOMAIN Updates : Updates[l] \in TypeSets
  /\ \A l \in DOMAIN Stores : Stores[l] \in TypeSets
  /\ \A types \in TypeSets :
       /\ types \in SUBSET EventTypes
       /\ types \cup {"W"} \in TypeSets /\ types \ {"W"} \in TypeSets
       /\ \E l \in DOMAIN Updates : Updates[l] = types
       /\ \E l \in DOMAIN Stores : Stores[l] = types
<1>1. /\ DOMAIN Updates = {"update", "updateW", "updateRE", "updateRWE"}
      /\ Updates["update"] = {} /\ Updates["updateW"] = {"W"}
      /\ Updates["updateRE"] = {"R", "E"} /\ Updates["updateRWE"] = EventTypes
  BY DEF Updates
<1>2. /\ DOMAIN Stores = {"store", "storeW", "storeRE", "storeRWE"}
      /\ Stores["store"] = {} /\ Stores["storeW"] = {"W"}
      /\ Stores["storeRE"] = {"R", "E"} /\ Stores["storeRWE"] = EventTypes
  BY DEF Stores
<1>3. UpdateSteps \subseteq Labels BY DEF UpdateSteps, Labels
<1>4. \A types \in TypeSets : /\ types \in SUBSET EventTypes
                              /\ types \cup {"W"} \in TypeSets
                              /\ types \ {"W"} \in TypeSets
  BY DEF TypeSets, EventTypes
<1>5. /\ \A l \in DOMAIN Updates : Updates[l] \in TypeSets
      /\ \A types \in TypeSets : \E l \in DOMAIN Updates : Updates[l] = types
  BY <1>1 DEF TypeSets
<1>6. /\ \A l \in DOMAIN Stores : Stores[l] \in TypeSets
      /\ \A types \in TypeSets : \E l \in DOMAIN Stores : Stores[l] = types
  BY <1>2 DEF TypeSets
<1> QED BY <1>1, <1>2, <1>3, <1>4, <1>5, <1>6

LEMMA UpdateStepsAre ==
  UpdateSteps = {"update", "updateW", "updateRE", "updateRWE", "store", "storeW", "storeRE",
                 "storeRWE"}
  BY UpdateLabels DEF UpdateSteps

LEMMA UpdateIs ==
  ASSUME NEW types \in TypeSets, NEW steps, UpdateEvent(types, steps)
  PROVE  \E l \in DOMAIN Updates :
           Updates[l] = types /\ pc' = [pc EXCEPT !["io"] = <<l>> \o steps]
<1>1. PICK l : /\ l = CHOOSE k \in DOMAIN Updates : Updates[k] = types
               /\ pc' = [pc EXCEPT !["io"] = <<l>> \o steps]
  BY DEF UpdateEvent
<1>2. l \in DOMAIN Updates /\ Updates[l] = types BY <1>1, UpdateLabels
<1> QED BY <1>1, <1>2

LEMMA PostIs ==
  ASSUME PostUpdate
  PROVE  \E l \in DOMAIN Updates, k \in DOMAIN Stores :
           /\ At("io", l) /\ Stores[k] = Updates[l]
           /\ Post(<<Update(Updates[l])>>) /\ Goto("io", <<k>>)
<1>1. PICK l \in DOMAIN Updates :
        /\ At("io", l) /\ Post(<<Update(Updates[l])>>)
        /\ Goto("io", <<CHOOSE k \in DOMAIN Stores : Stores[k] = Updates[l]>>)
  BY DEF PostUpdate
<1>2. PICK k : k = CHOOSE x \in DOMAIN Stores : Stores[x] = Updates[l] OBVIOUS
<1>3. k \in DOMAIN Stores /\ Stores[k] = Updates[l] BY <1>2, UpdateLabels
<1> QED BY <1>1, <1>2, <1>3

\* A step that puts nothing on the stack.
LEMMA StackPopped ==
  ASSUME NEW s \in Seq(Labels), s # <<>>
  PROVE  << >> \o Tail(s) = Tail(s)
  OBVIOUS

\* The stack of the io thread between its tasks and events, when it starts
\* with a callback.
LEMMA BeginIs ==
  ASSUME pc \in [Threads -> Seq(Labels)], NEW t \in Threads,
         NEW steps \in Seq(Labels), pc' = [pc EXCEPT ![t] = steps]
  PROVE  /\ pc' \in [Threads -> Seq(Labels)] /\ pc'[t] = steps
         /\ \A u \in Threads : u # t => pc'[u] = pc[u]
         /\ \A l : In(t, l)' <=> Has(steps, l)
  BY DEF In

----------------------------------------
\* Tasks that wait.

\* What runs is a task.
LEMMA HeadTask ==
  ASSUME exe \in Seq(Tasks), exe # <<>>
  PROVE  /\ Head(exe) \in Tasks /\ Tail(exe) \in Seq(Tasks)
         /\ Head(exe) = exe[1]
         /\ Head(exe).op = "enable" =>
              Head(exe).cb \in {"connect", "stream"}
         /\ Head(exe).op \in {"enable", "update"} =>
              Head(exe).types \in SUBSET EventTypes
         /\ Head(exe).op = "send" => Head(exe).msg \in Messages
<1>1. Head(exe) \in Tasks /\ Tail(exe) \in Seq(Tasks) /\ Head(exe) = exe[1]
  OBVIOUS
<1> QED BY <1>1 DEF Tasks

\* What is posted are tasks.
LEMMA PostType ==
  ASSUME queue \in Seq(Tasks), NEW tasks \in Seq(Tasks), Post(tasks)
  PROVE  queue' \in Seq(Tasks)
  BY DEF Post

LEMMA NewTasks ==
  /\ \A types \in SUBSET EventTypes :
       /\ \A c \in {"connect", "stream"} : <<Enable(c, types)>> \in Seq(Tasks)
       /\ <<Update(types)>> \in Seq(Tasks)
  /\ \A m \in Messages : <<Send(m)>> \in Seq(Tasks)
  /\ \A op \in {"disable", "enable timer", "disable timer", "arm"} :
       <<Plain(op)>> \in Seq(Tasks)
  /\ <<Plain("disable"), Plain("disable timer")>> \in Seq(Tasks)
<1>1. \A types \in SUBSET EventTypes : \A c \in {"connect", "stream"} :
        Enable(c, types) \in Tasks
  BY DEF Tasks, Enable
<1>2. \A types \in SUBSET EventTypes : Update(types) \in Tasks
  BY DEF Tasks, Update
<1>3. \A m \in Messages : Send(m) \in Tasks BY DEF Tasks, Send
<1>4. \A op \in {"disable", "enable timer", "disable timer", "arm"} :
        Plain(op) \in Tasks
  BY DEF Tasks, Plain
<1>5. \A x \in Tasks : <<x>> \in Seq(Tasks) OBVIOUS
<1>6. \A x, y \in Tasks : <<x, y>> \in Seq(Tasks) OBVIOUS
<1> QED BY <1>1, <1>2, <1>3, <1>4, <1>5, <1>6

----------------------------------------
\* Types, whatever the application calls.

LEMMA Bounds == MaxCalls \in Nat /\ MaxPeer \in Nat /\ Room \in Nat /\ Room > 0
<1>1. MaxCalls \in Nat /\ MaxPeer \in Nat /\ Room \in Nat \ {0}
  BY ClientAssumption
<1> QED BY <1>1

\* The steps that follow a step are steps.
LEMMA StepSequences ==
  /\ << >> \in Seq(Labels) /\ <<"syscall">> \in Seq(Labels)
  /\ <<"connected", "start">> \in Seq(Labels)
  /\ InProgress \in Seq(Labels) /\ <<"refuse", "disconnected">> \in Seq(Labels)
  /\ <<"fail", "disconnected">> \in Seq(Labels) /\ <<"test">> \in Seq(Labels)
  /\ <<"watch RE">> \in Seq(Labels) /\ <<"watch RWE">> \in Seq(Labels)
  /\ <<"stop post">> \in Seq(Labels) /\ <<"stop">> \in Seq(Labels)
  /\ <<"stop", "callback">> \in Seq(Labels) /\ <<"cas">> \in Seq(Labels)
  /\ <<"insert">> \in Seq(Labels) /\ Failure \in Seq(Labels)
  /\ Success \in Seq(Labels) /\ <<"unwatch timer">> \in Seq(Labels)
  /\ <<"refuse">> \in Seq(Labels) /\ <<"start">> \in Seq(Labels)
  /\ <<"set">> \in Seq(Labels) /\ \A l \in UpdateSteps : <<l>> \in Seq(Labels)
<1>1. \A l \in {"cas", "syscall", "connected", "disconnected", "watch sock",
                "watch timer", "arm", "unwatch timer", "start", "set", "test",
                "watch RE", "watch RWE", "stop", "stop post", "fail", "refuse",
                "callback", "insert"} : l \in Labels
  BY DEF Labels
<1>2. /\ \A a \in Labels : <<a>> \in Seq(Labels)
      /\ \A a, b \in Labels : <<a, b>> \in Seq(Labels)
      /\ \A a, b, c \in Labels : <<a, b, c>> \in Seq(Labels)
  BY FewSteps
<1>3. InProgress \in Seq(Labels) /\ Failure \in Seq(Labels) /\ Success \in Seq(Labels)
  BY <1>1, <1>2 DEF InProgress, Failure, Success
<1>4. /\ <<"connected", "start">> \in Seq(Labels)
      /\ <<"refuse", "disconnected">> \in Seq(Labels)
      /\ <<"fail", "disconnected">> \in Seq(Labels)
      /\ <<"stop", "callback">> \in Seq(Labels)
  BY <1>1, <1>2
<1>5. \A l \in {"syscall", "test", "watch RE", "watch RWE", "stop post", "stop",
                "cas", "insert", "unwatch timer", "refuse", "start", "set"} : <<l>> \in Seq(Labels)
  BY <1>1, <1>2
<1>6. << >> \in Seq(Labels) OBVIOUS
<1>7. \A l \in UpdateSteps : <<l>> \in Seq(Labels) BY <1>2, UpdateLabels
<1> QED BY <1>3, <1>4, <1>5, <1>6, <1>7

\* What a thread puts on its stack when it has posted an update.
LEMMA StoreSteps ==
  /\ \A l \in DOMAIN Stores : <<l>> \in Seq(Labels)
  /\ {"storeW", "storeRE", "storeRWE"} \subseteq DOMAIN Stores
  BY StepSequences, UpdateLabels DEF UpdateSteps

\* A step of a thread replaces the first step of its stack.
LEMMA ThreadGoes ==
  ASSUME NEW t \in Threads, ThreadStep(t)
  PROVE  pc[t] # <<>> /\ \E steps \in Seq(Labels) : Goto(t, steps)
<1>1. CASE ConnectIgnored(t) BY StepSequences, <1>1 DEF ConnectIgnored, At
<1>2. CASE ConnectBegins(t) BY StepSequences, <1>2 DEF ConnectBegins, At
<1>3. CASE Syscall(t) BY StepSequences, <1>3 DEF Syscall, At
<1>4. CASE SetConnected(t) BY StepSequences, <1>4 DEF SetConnected, At
<1>5. CASE SetDisconnected(t) BY StepSequences, <1>5 DEF SetDisconnected, At
<1>6. CASE WatchSock(t) BY StoreSteps, <1>6 DEF WatchSock, At
<1>7. CASE PostTimer(t) BY StepSequences, <1>7 DEF PostTimer, At
<1>8. CASE Start(t) BY StepSequences, <1>8 DEF Start, At
<1>9. CASE StartTest(t) BY StepSequences, <1>9 DEF StartTest, At
<1>10. CASE StartPost(t) BY StoreSteps, <1>10 DEF StartPost, At
<1>11. CASE Stop(t) BY StepSequences, <1>11 DEF Stop, At
<1>12. CASE StopPost(t) BY StepSequences, <1>12 DEF StopPost, At
<1>13. CASE OnError(t) BY StepSequences, <1>13 DEF OnError, At
<1>14. CASE Callback(t) BY StepSequences, <1>14 DEF Callback, At
<1>15. CASE StoreTypes(t) BY StepSequences, <1>15 DEF StoreTypes, At
<1>16. CASE SetStarted(t) BY StepSequences, <1>16 DEF SetStarted, At
<1> QED
  BY <1>1, <1>2, <1>3, <1>4, <1>5, <1>6, <1>7, <1>8, <1>9, <1>10, <1>11, <1>12, <1>13, <1>14,
     <1>15, <1>16
     DEF ThreadStep

LEMMA ThreadTypes ==
  ASSUME Types, NEW t \in Threads, ThreadStep(t)
  PROVE  Types'
<1>1. pc' \in [Threads -> Seq(Labels)]
  BY ThreadGoes, GotoIs DEF Types, LoopTypes
<1>2. queue' \in Seq(Tasks)
 <2>1. queue' = queue \/ \E tasks \in Seq(Tasks) : Post(tasks)
  <3>1. {"W"} \in SUBSET EventTypes /\ {"R", "E"} \in SUBSET EventTypes
        /\ {"R", "W", "E"} \in SUBSET EventTypes
    BY DEF EventTypes
  <3>2. CASE ConnectIgnored(t) BY <3>2 DEF ConnectIgnored
  <3>3. CASE ConnectBegins(t) BY <3>3 DEF ConnectBegins
  <3>4. CASE Syscall(t) BY <3>4 DEF Syscall
  <3>5. CASE SetConnected(t) BY <3>5 DEF SetConnected
  <3>6. CASE SetDisconnected(t) BY <3>6 DEF SetDisconnected
  <3>7. CASE WatchSock(t) BY NewTasks, <3>1, <3>7 DEF WatchSock
  <3>8. CASE PostTimer(t) BY NewTasks, <3>1, <3>8 DEF PostTimer
  <3>9. CASE Start(t) BY <3>9 DEF Start
  <3>10. CASE StartTest(t) BY <3>10 DEF StartTest
  <3>11. CASE StartPost(t) BY NewTasks, <3>1, <3>11 DEF StartPost
  <3>12. CASE Stop(t) BY <3>12 DEF Stop
  <3>13. CASE StopPost(t) BY NewTasks, <3>1, <3>13 DEF StopPost
  <3>14. CASE OnError(t) BY <3>14 DEF OnError
  <3>15. CASE Callback(t) BY <3>15 DEF Callback
  <3>16. CASE StoreTypes(t) BY <3>16 DEF StoreTypes
  <3>17. CASE SetStarted(t) BY <3>17 DEF SetStarted
  <3> QED
    BY <3>2, <3>3, <3>4, <3>5, <3>6, <3>7, <3>8, <3>9, <3>10, <3>11, <3>12, <3>13, <3>14,
       <3>15, <3>16, <3>17
       DEF ThreadStep
 <2> QED BY <2>1, PostType DEF Types, LoopTypes
<1> USE DEF Types, ClientTypes, LoopTypes, KernelTypes, GhostTypes, client,
            entry, kernel, ghosts
<1>3. CASE ConnectIgnored(t) BY <1>1, <1>2, <1>3 DEF ConnectIgnored
<1>4. CASE ConnectBegins(t) BY <1>1, <1>2, <1>4 DEF ConnectBegins
<1>5. CASE Syscall(t) BY <1>1, <1>2, <1>5 DEF Syscall, SkStates, Errors
<1>6. CASE SetConnected(t) BY <1>1, <1>2, <1>6 DEF SetConnected
<1>7. CASE SetDisconnected(t) BY <1>1, <1>2, <1>7 DEF SetDisconnected
<1>r. ASSUME Overlaps PROVE raced' \in BOOLEAN BY <1>r DEF Overlaps
<1>8. CASE WatchSock(t)
 <2>1. /\ raced' \in BOOLEAN
       /\ UNCHANGED <<client, exe, evs, entry, ready, kernel, calls, taken, sent,
                      lost, peer, frames, outcome, timed>>
   BY <1>r, <1>8 DEF WatchSock
 <2> QED BY <1>1, <1>2, <2>1
<1>9. CASE PostTimer(t)
 <2>1. UNCHANGED <<client, exe, evs, entry, ready, kernel, ghosts>>
   BY <1>9 DEF PostTimer
 <2> QED BY <1>1, <1>2, <2>1
<1>10. CASE Start(t) BY <1>1, <1>2, <1>10 DEF Start
<1>11. CASE StartTest(t)
 <2>1. UNCHANGED <<client, queue, exe, evs, entry, ready, kernel, ghosts>>
   BY <1>11 DEF StartTest
 <2> QED BY <1>1, <2>1
<1>12. CASE StartPost(t)
 <2>1. /\ raced' \in BOOLEAN
       /\ UNCHANGED <<client, exe, evs, entry, ready, kernel, calls, taken, sent,
                      lost, peer, frames, outcome, timed>>
   BY <1>r, <1>12 DEF StartPost
 <2> QED BY <1>1, <1>2, <2>1
<1>13. CASE Stop(t)
 <2>1. /\ started' \in BOOLEAN
       /\ UNCHANGED <<connected, event_types, send_buf, recv_buf, queue, exe, evs,
                      entry, ready, kernel, ghosts>>
   BY <1>13 DEF Stop
 <2> QED BY <1>1, <2>1
<1>14. CASE StopPost(t)
 <2>1. UNCHANGED <<client, exe, evs, entry, ready, kernel, ghosts>>
   BY <1>14 DEF StopPost
 <2> QED BY <1>1, <1>2, <2>1
<1>15. CASE OnError(t) BY <1>1, <1>2, <1>15 DEF OnError
<1>16. CASE Callback(t)
 <2>1. calls' \in 0..MaxCalls BY Bounds, <1>16 DEF Callback
 <2>2. /\ outcome' \in {"closed", "error"}
       /\ UNCHANGED <<client, exe, evs, entry, ready, kernel, taken, sent, lost,
                      peer, frames, timed, raced>>
   BY <1>16 DEF Callback
 <2> QED BY <1>1, <1>2, <2>1, <2>2
<1>17. CASE StoreTypes(t)
 <2>1. /\ event_types' \in {{}, {"W"}, {"R", "E"}, EventTypes}
       /\ UNCHANGED <<connected, started, send_buf, recv_buf, queue, exe, evs, entry,
                      ready, kernel, ghosts>>
   BY <1>17, UpdateLabels DEF StoreTypes, TypeSets
 <2> QED BY <1>1, <2>1
<1>18. CASE SetStarted(t) BY <1>1, <1>2, <1>18 DEF SetStarted
<1> QED
  BY <1>3, <1>4, <1>5, <1>6, <1>7, <1>8, <1>9, <1>10, <1>11, <1>12, <1>13, <1>14, <1>15, <1>16,
     <1>17, <1>18
     DEF ThreadStep

\* send(2): the kernel takes a prefix.
LEMMA SendTakes ==
  ASSUME Types, NEW data \in Seq(Messages)
  PROVE  /\ Accepted(data) \in 0..room /\ Accepted(data) \in 0..Len(data)
         /\ Rest(data) \in Seq(Messages)
         /\ SubSeq(data, 1, Accepted(data)) \in Seq(Messages)
         /\ SubSeq(data, 1, Accepted(data)) \o Rest(data) = data
<1>1. PICK n, a \in Nat : n = room /\ a = Len(data)
 <2>1. room \in Nat BY Bounds DEF Types, KernelTypes
 <2>2. Len(data) \in Nat OBVIOUS
 <2> QED BY <2>1, <2>2
<1>2. PICK k \in Nat : k = Accepted(data) /\ k <= n /\ k <= a
  BY <1>1 DEF Accepted
<1>3. PICK l, r : l = SubSeq(data, 1, k) /\ r = SubSeq(data, k + 1, a) OBVIOUS
<1>4. /\ l \in Seq(Messages) /\ r \in Seq(Messages)
      /\ Len(l) = k /\ Len(r) = a - k
  BY <1>1, <1>2, <1>3
<1>5. l \o r = data
 <2>1. PICK w : w = l \o r OBVIOUS
 <2>2. w \in Seq(Messages) /\ Len(w) = a
  <3>1. w \in Seq(Messages) /\ Len(w) = Len(l) + Len(r) BY <1>4, <2>1
  <3> QED BY <1>2, <1>4, <3>1
 <2>3. ASSUME NEW i \in 1..a PROVE w[i] = data[i]
  <3>1. CASE i <= k BY <1>1, <1>2, <1>3, <1>4, <2>1, <3>1
  <3>2. CASE i > k
   <4>1. PICK j \in 1..(a - k) : j = i - k BY <1>2, <3>2
   <4>2. w[i] = r[j] BY <1>4, <2>1, <3>2, <4>1
   <4>3. r[j] = data[k + j] /\ k + j = i BY SMTT(30), <1>1, <1>2, <1>3, <4>1
   <4> QED BY <4>2, <4>3
  <3> QED BY <1>2, <3>1, <3>2
 <2> QED BY <1>1, <2>1, <2>2, <2>3, SeqEqual
<1>6. Rest(data) = r /\ SubSeq(data, 1, Accepted(data)) = l
  BY <1>1, <1>2, <1>3 DEF Rest
<1>7. Accepted(data) \in 0..room /\ Accepted(data) \in 0..Len(data)
  BY <1>1, <1>2
<1> QED BY <1>4, <1>5, <1>6, <1>7

\* The parts of the tasks that run.
LEMMA UnitsType ==
  \A m \in Messages : Units(m) \in Seq(Messages) /\ Len(Units(m)) = 2
  BY DEF Units

\* A send task that sends: the stack afterwards.
LEMMA SendGoes ==
  ASSUME Types, SendTaskSends
  PROVE  /\ raced' \in BOOLEAN /\ pc["io"] = << >>
         /\ \/ pc' = [pc EXCEPT !["io"] = << >>] /\ UNCHANGED raced
            \/ \E l \in DOMAIN Updates :
                 /\ Updates[l] = event_types \cup {"W"} /\ send_buf' # << >>
                 /\ pc' = [pc EXCEPT !["io"] = <<l>>] /\ Overlaps
<1>1. event_types \cup {"W"} \in TypeSets
  BY UpdateLabels DEF Types, ClientTypes, TypeSets
<1>2. \A l : <<l>> \o << >> = <<l>> OBVIOUS
<1>3. \/ NoUpdate(<< >>)
      \/ UpdateEvent(event_types \cup {"W"}, << >>) /\ send_buf' # << >>
  BY DEF SendTaskSends, AwaitWritable, Transmit
<1>4. CASE NoUpdate(<< >>)
  BY <1>4 DEF NoUpdate, SendTaskSends, Running, Types, GhostTypes
<1>5. CASE UpdateEvent(event_types \cup {"W"}, << >>) /\ send_buf' # << >>
 <2>1. PICK l \in DOMAIN Updates :
         /\ Updates[l] = event_types \cup {"W"}
         /\ pc' = [pc EXCEPT !["io"] = <<l>> \o << >>]
   BY <1>1, <1>5, UpdateIs
 <2>2. raced' \in BOOLEAN /\ pc["io"] = << >> /\ Overlaps
   BY <1>5 DEF UpdateEvent, Overlaps, SendTaskSends, Running
 <2> QED BY <1>2, <1>5, <2>1, <2>2
<1> QED BY <1>3, <1>4, <1>5

\* The write phase: the stack afterwards.
LEMMA WriteGoes ==
  ASSUME Types, Write
  PROVE  /\ raced' \in BOOLEAN /\ At("io", "write")
         /\ \/ Goto("io", << >>) /\ UNCHANGED raced
            \/ Disconnected /\ ~Sending /\ UNCHANGED <<raced, send_buf>>
            \/ \E l \in DOMAIN Updates :
                 /\ Updates[l] = event_types \ {"W"} /\ send_buf' = << >>
                 /\ Goto("io", <<l>>) /\ Overlaps
<1>1. event_types \ {"W"} \in TypeSets
  BY UpdateLabels DEF Types, ClientTypes, TypeSets
<1>2. PICK r \in Seq(Labels) : r = Tail(pc["io"])
 <2>1. PICK s \in Seq(Labels) : s = pc["io"] /\ s # << >>
   BY DEF Write, At, Types, LoopTypes, Threads
 <2>2. Tail(s) \in Seq(Labels) BY ONLY <2>1
 <2> QED BY <2>1, <2>2
<1>3. << >> \o r = r OBVIOUS
<1>4. \/ NoUpdate(r)
      \/ Disconnected /\ ~Sending /\ UNCHANGED <<raced, send_buf>>
      \/ UpdateEvent(event_types \ {"W"}, r) /\ send_buf' = << >>
  BY <1>2 DEF Write, Drained, Transmit
<1>5. CASE NoUpdate(r)
  BY <1>2, <1>3, <1>5 DEF NoUpdate, Write, Goto, Types, GhostTypes
<1>6. CASE Disconnected /\ ~Sending /\ UNCHANGED <<raced, send_buf>>
  BY <1>6 DEF Write, Types, GhostTypes
<1>7. CASE UpdateEvent(event_types \ {"W"}, r) /\ send_buf' = << >>
 <2>1. PICK l \in DOMAIN Updates :
         /\ Updates[l] = event_types \ {"W"}
         /\ pc' = [pc EXCEPT !["io"] = <<l>> \o r]
   BY <1>1, <1>7, UpdateIs
 <2>2. Goto("io", <<l>>) BY <1>2, <2>1 DEF Goto
 <2>3. raced' \in BOOLEAN /\ At("io", "write") /\ Overlaps
   BY <1>7 DEF UpdateEvent, Overlaps, Write
 <2> QED BY <1>7, <2>1, <2>2, <2>3
<1> QED BY <1>4, <1>5, <1>6, <1>7

LEMMA Transmits ==
  ASSUME Types, NEW data \in Seq(Messages), Transmit(data)
  PROVE  /\ sent' \in Seq(Messages) /\ room' \in 0..Room
         /\ send_buf' \in Seq(Messages)
<1>1. PICK n, k \in Nat : n = room /\ k = Accepted(data) /\ k <= n /\ n <= Room
 <2>1. room \in Nat /\ room <= Room BY Bounds DEF Types, KernelTypes
 <2>2. Accepted(data) \in 0..room BY SendTakes
 <2> QED BY <2>1, <2>2
<1>2. room' \in 0..Room BY <1>1, Bounds DEF Transmit
<1>3. SubSeq(data, 1, Accepted(data)) \in Seq(Messages) /\ Rest(data) \in Seq(Messages)
  BY SendTakes
<1> QED BY <1>2, <1>3 DEF Transmit, Types, GhostTypes

LEMMA TaskTypes ==
  ASSUME Types, InsertInv, RunTask
  PROVE  Types'
<1> USE DEF Types, ClientTypes, LoopTypes, KernelTypes, GhostTypes, client,
            entry, kernel, ghosts
<1>1. ASSUME NEW op, Running(op)
      PROVE  /\ exe # <<>> /\ Head(exe).op = op /\ Tail(exe) \in Seq(Tasks)
             /\ op = "enable" => Head(exe).cb \in {"connect", "stream"}
             /\ op \in {"enable", "update"} =>
                  Head(exe).types \in SUBSET EventTypes
             /\ op = "send" => Head(exe).msg \in Messages
  BY <1>1, HeadTask DEF Running
<1>2. CASE EnableTask
 <2>1. /\ Tail(exe) \in Seq(Tasks) /\ Head(exe).types \in SUBSET EventTypes
       /\ Running("enable") => Head(exe).cb \in {"connect", "stream"}
   BY <1>1, <1>2 DEF EnableTask
 <2>2. /\ mask' \in {{"E"}, Head(exe).types} /\ ready' \in {ready, ready \cup {"sock"}}
       /\ exe' = Tail(exe)
       /\ UNCHANGED <<client, pc, queue, evs, timer_on, kernel, ghosts>>
   BY <1>2, SMTT(30) DEF EnableTask, Watch
 <2>3. cb' \in {"none", "connect", "stream"} BY <1>2, <2>1 DEF EnableTask
 <2>4. mask' \in SUBSET EventTypes BY <2>1, <2>2 DEF EventTypes
 <2> QED BY <2>1, <2>2, <2>3, <2>4
<1>3. CASE DisableTask BY <1>1, <1>3 DEF DisableTask
<1>4. CASE EnableTimerTask \/ DisableTimerTask
 <2>1. /\ exe' \in Seq(Tasks) /\ timer_on' \in BOOLEAN
       /\ ready' \in {ready, ready \cup {"timer"}, ready \ {"timer"}}
       /\ UNCHANGED <<client, pc, queue, evs, cb, mask, kernel, ghosts>>
   BY <1>1, <1>4 DEF EnableTimerTask, DisableTimerTask
 <2> QED BY <2>1
<1>6. CASE ArmTask BY <1>1, <1>6, SMTT(30) DEF ArmTask
<1>7. CASE SendTaskQueues
 <2>1. pc' \in [Threads -> Seq(Labels)]
   BY <1>7, BeginIs, StepSequences DEF SendTaskQueues, Threads
 <2> QED BY <1>7, <2>1 DEF SendTaskQueues
<1>8. CASE Insert
 <2>1. exe # <<>> /\ Head(exe).op = "send"
  <3>1. In("io", "insert") BY <1>8, SMTT(30) DEF Insert, At, In, Has, Threads
  <3> QED BY <3>1 DEF InsertInv
 <2>2. Head(exe).msg \in Messages /\ Tail(exe) \in Seq(Tasks) BY <2>1, HeadTask
 <2>3. pc' \in [Threads -> Seq(Labels)]
   BY <1>8, GotoIs, StepSequences DEF Insert, Threads, At
 <2>4. PICK u \in Seq(Messages) : u = Units(Head(exe).msg) BY <2>2, UnitsType
 <2>5. send_buf' = send_buf \o u /\ taken' = taken \o u /\ exe' = Tail(exe)
       /\ UNCHANGED <<connected, started, event_types, recv_buf, queue, evs,
                      entry, ready, kernel, calls, sent, lost, peer, frames,
                      outcome, timed, raced>>
   BY <1>8, <2>4 DEF Insert
 <2> QED BY <2>2, <2>3, <2>5, SMTT(30)
<1>9. CASE SendTaskSends
 <2>1. Head(exe).msg \in Messages /\ Tail(exe) \in Seq(Tasks)
   BY <1>1, <1>9 DEF SendTaskSends
 <2>2. PICK u \in Seq(Messages) : u = Units(Head(exe).msg) BY <2>1, UnitsType
 <2>3. taken' \in Seq(Messages) BY <1>9, <2>2 DEF SendTaskSends
 <2>4. /\ exe' = Tail(exe)
       /\ UNCHANGED <<connected, started, event_types, recv_buf, queue, evs, entry,
                      ready, sk, inbox, timer, calls, peer, frames, outcome, timed>>
   BY <1>9 DEF SendTaskSends
 <2>5. /\ sent' \in Seq(Messages) /\ room' \in 0..Room
       /\ send_buf' \in Seq(Messages) /\ lost' \in BOOLEAN /\ err' \in Errors
  <3>1. CASE Sending /\ Transmit(u) /\ UNCHANGED <<lost, err>>
    BY <3>1, Transmits
  <3>2. CASE lost' = TRUE /\ err' = "none" /\ UNCHANGED <<sent, room, send_buf>>
    BY <3>2 DEF Errors
  <3> QED BY <1>9, <2>2, <3>1, <3>2 DEF SendTaskSends
 <2>6. pc' \in [Threads -> Seq(Labels)] /\ raced' \in BOOLEAN
  <3>1. \A l \in DOMAIN Updates : <<l>> \in Seq(Labels)
    BY StepSequences DEF UpdateSteps
  <3> QED BY <1>9, <3>1, SendGoes, BeginIs, StepSequences DEF Threads
 <2> QED BY <2>1, <2>3, <2>4, <2>5, <2>6, SMTT(30)
<1> QED BY <1>2, <1>3, <1>4, <1>6, <1>7, <1>8, <1>9 DEF RunTask

\* epoll_wait gives every event that it finds once.
LEMMA OrdersOf ==
  ASSUME NEW S, IsFiniteSet(S), NEW s \in Orders(S)
  PROVE  /\ s \in Seq(S)
         /\ \A x \in S : \E i \in DOMAIN s : s[i] = x
<1> DEFINE n == Cardinality(S)
<1>1. n \in Nat BY FS_CardinalityType
<1>2. s \in [1..n -> S] /\ \A i, j \in 1..n : s[i] = s[j] => i = j BY DEF Orders
<1> HIDE DEF n
<1>3. s \in Seq(S) /\ DOMAIN s = 1..n BY <1>1, <1>2
<1>4. s \in Injection(1..n, S) BY <1>2, Fun_IsInj
<1>5. Cardinality(1..n) = n BY <1>1, FS_Interval
<1>6. s \in Surjection(1..n, S) BY <1>4, <1>5, FS_Injection DEF n
<1>7. \A x \in S : \E i \in 1..n : s[i] = x BY <1>6 DEF Surjection
<1> QED BY <1>3, <1>7

LEMMA LevelIs ==
  ASSUME Types
  PROVE  \A types \in SUBSET EventTypes : Level(types) \in SUBSET EventTypes
  BY DEF Level, EventTypes

LEMMA Fetched ==
  ASSUME Types, epoll_wait
  PROVE  /\ evs' \in Seq(Events) /\ ready' = {}
         /\ "sock" \in ready /\ (Level(mask) # {} \/ HangUp) =>
              \E i \in DOMAIN evs' : evs'[i] = SockEvent
         /\ \A i \in DOMAIN evs' :
              \/ evs'[i] = TimerEvent /\ timer = "expired"
              \/ evs'[i] = WakeEvent
              \/ evs'[i] = SockEvent /\ "sock" \in ready
<1> DEFINE a == IF "sock" \in ready /\ (Level(mask) # {} \/ HangUp)
                  THEN {SockEvent} ELSE {}
           b == IF "timer" \in ready /\ timer = "expired" THEN {TimerEvent} ELSE {}
           c == IF queue # <<>> THEN {WakeEvent} ELSE {}
           found == a \cup b \cup c
<1>1. evs' \in Orders(found) /\ ready' = {}
  BY DEF epoll_wait, SockEvent, TimerEvent, WakeEvent
<1>2. SockEvent \in Events /\ TimerEvent \in Events /\ WakeEvent \in Events
  BY LevelIs DEF Types, LoopTypes, Events, SockEvent, TimerEvent, WakeEvent, EventTypes
<1>3. IsFiniteSet(found)
 <2>1. IsFiniteSet({SockEvent, TimerEvent, WakeEvent})
  <3>1. IsFiniteSet({SockEvent}) /\ IsFiniteSet({TimerEvent}) /\ IsFiniteSet({WakeEvent})
    BY FS_Singleton
  <3>2. IsFiniteSet({SockEvent} \cup {TimerEvent}) BY <3>1, FS_Union
  <3>3. IsFiniteSet(({SockEvent} \cup {TimerEvent}) \cup {WakeEvent})
    BY <3>1, <3>2, FS_Union
  <3>4. ({SockEvent} \cup {TimerEvent}) \cup {WakeEvent} = {SockEvent, TimerEvent, WakeEvent}
    OBVIOUS
  <3> QED BY <3>3, <3>4
 <2>2. found \subseteq {SockEvent, TimerEvent, WakeEvent} OBVIOUS
 <2> QED BY <2>1, <2>2, FS_Subset
<1>4. evs' \in Seq(found) /\ \A x \in found : \E i \in DOMAIN evs' : evs'[i] = x
  BY <1>1, <1>3, OrdersOf, SMTT(30)
<1>5. found \subseteq Events BY <1>2
<1>6. evs' \in Seq(Events) BY <1>4, <1>5
<1>7. \A i \in DOMAIN evs' : evs'[i] \in found BY <1>4
<1>8. "sock" \in ready /\ (Level(mask) # {} \/ HangUp) => SockEvent \in found
  OBVIOUS
<1>9. \A x \in found : \/ x = TimerEvent /\ timer = "expired"
                       \/ x = WakeEvent
                       \/ x = SockEvent /\ "sock" \in ready
  OBVIOUS
<1> QED BY <1>1, <1>4, <1>6, <1>7, <1>8, <1>9

\* The next event of a batch.
LEMMA NextEvent ==
  ASSUME Types, NEW src, Event(src)
  PROVE  /\ Head(evs) \in Events /\ Head(evs).types \in SUBSET EventTypes
         /\ Head(evs) = evs[1] /\ Head(evs).src = src
         /\ evs' \in Seq(Events) /\ pc["io"] = <<>> /\ exe = <<>>
         /\ Len(evs') = Len(evs) - 1 /\ Len(evs) \in Nat
         /\ \A i \in 1..(Len(evs) - 1) : evs'[i] = evs[i + 1]
<1>1. /\ evs \in Seq(Events) /\ evs # <<>> /\ evs' = Tail(evs)
      /\ Head(evs).src = src /\ pc["io"] = <<>> /\ exe = <<>>
  BY DEF Event, Types, LoopTypes
<1>2. Head(evs) \in Events BY <1>1
<1> QED BY <1>1, <1>2 DEF Events

\* A stack with a step below it.
LEMMA Extended ==
  ASSUME NEW s \in Seq(Labels), NEW l \in Labels
  PROVE  LET q == s \o <<l>>
         IN /\ q \in Seq(Labels) /\ Len(q) = Len(s) + 1 /\ q[Len(q)] = l
            /\ \A i \in 1..Len(s) : q[i] = s[i]
            /\ \A x : Has(q, x) <=> Has(s, x) \/ x = l
            /\ Shaped(s) /\ (s = <<>> \/ s[Len(s)] \in Before(l)) => Shaped(q)
<1>n. PICK n \in Nat : n = Len(s) OBVIOUS
<1>1. PICK q : q = s \o <<l>> /\ n = Len(s) BY <1>n
<1>2. /\ q \in Seq(Labels) /\ Len(q) = n + 1 /\ q[n + 1] = l
      /\ \A i \in 1..n : q[i] = s[i]
  BY <1>1
<1>3. DOMAIN q = 1..(n + 1) /\ DOMAIN s = 1..n BY <1>1, <1>2
<1>4. ASSUME NEW x PROVE Has(q, x) <=> Has(s, x) \/ x = l
 <2>1. \A i \in 1..(n + 1) : i \in 1..n \/ i = n + 1 OBVIOUS
 <2>2. 1..n \subseteq 1..(n + 1) /\ n + 1 \in 1..(n + 1) OBVIOUS
 <2> QED BY <1>2, <1>3, <2>1, <2>2 DEF Has
<1>5. ASSUME Shaped(s), s = <<>> \/ s[Len(s)] \in Before(l)
      PROVE  Shaped(q)
 <2> SUFFICES ASSUME NEW i \in 1..(n + 1), i > 1 PROVE q[i - 1] \in Before(q[i])
   BY <1>3 DEF Shaped
 <2>1. CASE i = n + 1
  <3>1. n \in 1..n /\ s # <<>> /\ i - 1 = n BY <1>1, <2>1
  <3> QED BY <1>1, <1>2, <1>5, <2>1, <3>1
 <2>2. CASE i # n + 1
  <3>1. i \in 1..n /\ i - 1 \in 1..n BY <2>2
  <3> QED BY <1>2, <1>3, <1>5, <3>1 DEF Shaped
 <2> QED BY <2>1, <2>2
<1> QED BY <1>1, <1>2, <1>4, <1>5

LEMMA PhasesAre ==
  ASSUME NEW types
  PROVE  LET p == Phases(types)
         IN /\ p \in Seq(Labels) /\ Len(p) > 0 /\ p[Len(p)] = "split" /\ Shaped(p)
            /\ "R" \in types => Has(p, "read")
            /\ "W" \in types => Has(p, "write")
            /\ \A l : Has(p, l) => l \in {"read", "write", "error", "split"}
<1> DEFINE OK(s, labels) ==
             /\ s \in Seq(Labels) /\ Shaped(s)
             /\ s = <<>> \/ s[Len(s)] \in labels
             /\ \A l : Has(s, l) => l \in labels
             /\ "R" \in types => Has(s, "read")
<1>0. {"read", "write", "error", "split"} \subseteq Labels BY DEF Labels
<1>1. PICK a : a = IF "R" \in types THEN <<"read">> ELSE <<>> OBVIOUS
<1>2. OK(a, {"read"})
 <2>1. CASE "R" \in types
  <3>1. a = <<"read">> /\ a \in Seq(Labels) /\ Len(a) = 1 /\ a[1] = "read"
    BY <1>0, <1>1, <2>1
  <3>2. \A l : Has(a, l) <=> l = "read" BY <3>1 DEF Has
  <3>3. Shaped(a) BY <3>1 DEF Shaped
  <3> QED BY <3>1, <3>2, <3>3
 <2>2. CASE "R" \notin types
  <3>1. a = <<>> BY <1>1, <2>2
  <3> QED BY <2>2, <3>1 DEF Has, Shaped
 <2> QED BY <2>1, <2>2
<1>3. PICK b : b = a \o (IF "W" \in types THEN <<"write">> ELSE <<>>) OBVIOUS
<1>4. OK(b, {"read", "write"}) /\ ("W" \in types => Has(b, "write"))
 <2>1. CASE "W" \in types
  <3>1. b = a \o <<"write">> /\ (a = <<>> \/ a[Len(a)] \in Before("write"))
    BY <1>2, <1>3, <2>1 DEF Before
  <3> QED BY <1>0, <1>2, <3>1, Extended
 <2>2. CASE "W" \notin types
  <3>1. b = a BY <1>2, <1>3, <2>2
  <3> QED BY <1>2, <2>2, <3>1
 <2> QED BY <2>1, <2>2
<1>5. PICK c : c = b \o (IF "E" \in types THEN <<"error">> ELSE <<>>) OBVIOUS
<1>6. OK(c, {"read", "write", "error"}) /\ ("W" \in types => Has(c, "write"))
 <2>1. CASE "E" \in types
  <3>1. c = b \o <<"error">> /\ (b = <<>> \/ b[Len(b)] \in Before("error"))
    BY <1>4, <1>5, <2>1 DEF Before
  <3> QED BY <1>0, <1>4, <3>1, Extended
 <2>2. CASE "E" \notin types
  <3>1. c = b BY <1>4, <1>5, <2>2
  <3> QED BY <1>4, <2>2, <3>1
 <2> QED BY <2>1, <2>2
<1>7. PICK p : p = c \o <<"split">> /\ p = Phases(types)
  BY <1>1, <1>3, <1>5 DEF Phases
<1>8. c = <<>> \/ c[Len(c)] \in Before("split") BY <1>6 DEF Before
<1>9. /\ p \in Seq(Labels) /\ Len(p) = Len(c) + 1 /\ p[Len(p)] = "split"
      /\ \A x : Has(p, x) <=> Has(c, x) \/ x = "split"
      /\ Shaped(p)
  BY <1>0, <1>6, <1>7, <1>8, Extended
<1>10. Len(c) \in Nat BY <1>6
<1>11. /\ "R" \in types => Has(p, "read")
       /\ "W" \in types => Has(p, "write")
  BY <1>6, <1>9
<1>12. \A l : Has(p, l) => l \in {"read", "write", "error", "split"}
  BY <1>6, <1>9
<1>13. Len(p) > 0 BY <1>9, <1>10
<1> QED BY <1>7, <1>9, <1>11, <1>12, <1>13

\* What is below the first step, with "closed" at the end.
LEMMA DisconnectedIs ==
  ASSUME pc \in [Threads -> Seq(Labels)], pc["io"] # <<>>, Disconnected
  PROVE  /\ pc' \in [Threads -> Seq(Labels)] /\ pc'["app"] = pc["app"]
         /\ \/ pc'["io"] = Tail(pc["io"])
            \/ pc'["io"] = Tail(pc["io"]) \o <<"closed">>
         /\ In("io", "closed")'
         /\ \A l : In("io", l)' => l = "closed" \/ In("io", l)
         /\ \A l : In("io", l) /\ Head(pc["io"]) # l => In("io", l)'
<1>1. PICK s \in Seq(Labels) : s = pc["io"] /\ s # <<>> BY DEF Threads
<1>2. PICK r \in Seq(Labels) : r = Tail(s)
 <2>1. Tail(s) \in Seq(Labels) BY ONLY s \in Seq(Labels), <1>1
 <2> QED BY <2>1
<1>3. pc' = [pc EXCEPT !["io"] = IF Has(r, "closed") THEN r ELSE r \o <<"closed">>]
  BY <1>1, <1>2 DEF Disconnected, Has
<1>4. \A l : /\ Has(r, l) => Has(s, l)
             /\ Has(s, l) /\ Head(s) # l => Has(r, l)
 <2>1. << >> \in Seq(Labels) /\ << >> \o Tail(s) = r /\ \A l : ~Has(<< >>, l)
   BY <1>1, <1>2, StackPopped DEF Has
 <2> QED BY <1>1, <2>1, StackHas
<1>5. "closed" \in Labels BY DEF Labels
<1>6. CASE Has(r, "closed")
 <2>1. pc' = [pc EXCEPT !["io"] = r] BY <1>3, <1>6
 <2> QED BY <1>1, <1>2, <1>4, <1>6, <2>1 DEF In, Threads
<1>7. CASE ~Has(r, "closed")
 <2>1. PICK q : q = r \o <<"closed">> /\ pc' = [pc EXCEPT !["io"] = q]
   BY <1>3, <1>7
 <2>2. q \in Seq(Labels) /\ \A x : Has(q, x) <=> Has(r, x) \/ x = "closed"
   BY <1>2, <1>5, <2>1, Extended
 <2> QED BY <1>1, <1>2, <1>4, <2>1, <2>2 DEF In, Threads
<1> QED BY <1>6, <1>7

\* The frames in a buffer, and what is left in it.
LEMMA SplitParts ==
  ASSUME NEW S, NEW buf \in Seq(S)
  PROVE  /\ SubSeq(buf, 1, Whole(buf)) \in Seq(S)
         /\ Unsplit(buf) \in Seq(S)
         /\ SubSeq(buf, 1, Whole(buf)) \o Unsplit(buf) = buf
         /\ Whole(buf) \in Nat /\ Whole(buf) % 2 = 0
         /\ Len(SubSeq(buf, 1, Whole(buf))) = Whole(buf)
         /\ Len(Unsplit(buf)) < 2 /\ Len(Unsplit(buf)) = Len(buf) - Whole(buf)
<1>1. PICK a \in Nat : a = Len(buf) OBVIOUS
<1>2. PICK k \in Nat : k = Whole(buf) /\ k <= a /\ a - k < 2 /\ k % 2 = 0
  BY <1>1 DEF Whole
<1>3. PICK l, r : l = SubSeq(buf, 1, k) /\ r = SubSeq(buf, k + 1, a) OBVIOUS
<1>4. /\ l \in Seq(S) /\ r \in Seq(S)
      /\ Len(l) = k /\ Len(r) = a - k
  BY <1>1, <1>2, <1>3
<1>5. l \o r = buf
 <2>1. PICK w : w = l \o r OBVIOUS
 <2>2. w \in Seq(S) /\ Len(w) = a
  <3>1. w \in Seq(S) /\ Len(w) = Len(l) + Len(r) BY <1>4, <2>1
  <3> QED BY <1>2, <1>4, <3>1
 <2>3. ASSUME NEW i \in 1..a PROVE w[i] = buf[i]
  <3>1. CASE i <= k BY <1>1, <1>2, <1>3, <1>4, <2>1, <3>1
  <3>2. CASE i > k
   <4>1. PICK j \in 1..(a - k) : j = i - k BY <1>2, <3>2
   <4>2. w[i] = r[j] BY <1>4, <2>1, <3>2, <4>1
   <4>3. r[j] = buf[k + j] /\ k + j = i BY SMTT(30), <1>1, <1>2, <1>3, <4>1
   <4> QED BY <4>2, <4>3
  <3> QED BY <1>2, <3>1, <3>2
 <2> QED BY <1>1, <2>1, <2>2, <2>3, SeqEqual
<1>6. Unsplit(buf) = r /\ SubSeq(buf, 1, Whole(buf)) = l
  BY <1>1, <1>2, <1>3 DEF Unsplit
<1> QED BY <1>1, <1>2, <1>4, <1>5, <1>6

LEMMA WriteTypes ==
  ASSUME Types, Write
  PROVE  Types'
<1>1. pc["io"] # <<>> /\ pc \in [Threads -> Seq(Labels)] /\ "io" \in Threads
  BY DEF Write, At, Types, LoopTypes, Threads
<1>2. pc' \in [Threads -> Seq(Labels)] /\ raced' \in BOOLEAN
 <2>1. \A l \in DOMAIN Updates : <<l>> \in Seq(Labels)
   BY StepSequences DEF UpdateSteps
 <2> QED BY <1>1, <2>1, WriteGoes, GotoIs, DisconnectedIs, StepSequences
<1>3. /\ sent' \in Seq(Messages) /\ room' \in 0..Room
      /\ send_buf' \in Seq(Messages) /\ recv_buf' \in Seq(1..MaxPeer)
      /\ err' \in Errors
 <2>1. CASE Transmit(send_buf) /\ UNCHANGED <<recv_buf, err>>
  <3>1. send_buf \in Seq(Messages) BY DEF Types, ClientTypes
  <3> QED BY <2>1, <3>1, Transmits DEF Types, ClientTypes, KernelTypes
 <2>2. CASE UNCHANGED <<sent, room, send_buf, recv_buf, err>>
   BY <2>2 DEF Types, ClientTypes, KernelTypes, GhostTypes, LoopTypes
 <2>3. CASE recv_buf' = <<>> /\ err' = "none" /\ UNCHANGED <<sent, room, send_buf>>
   BY <2>3 DEF Types, ClientTypes, KernelTypes, GhostTypes, LoopTypes, Errors
 <2> QED BY <2>1, <2>2, <2>3 DEF Write
<1>4. UNCHANGED <<connected, started, event_types, queue, exe, evs, entry, ready, sk,
                  inbox, timer, calls, taken, lost, peer, frames, outcome, timed>>
  BY DEF Write
<1> QED
  BY <1>2, <1>3, <1>4, SMTT(30) DEF entry, Types, ClientTypes, LoopTypes, KernelTypes, GhostTypes

LEMMA PostTypes ==
  ASSUME Types, PostUpdate
  PROVE  Types'
<1>1. PICK l \in DOMAIN Updates, k \in DOMAIN Stores :
        /\ At("io", l) /\ Stores[k] = Updates[l]
        /\ Post(<<Update(Updates[l])>>) /\ Goto("io", <<k>>)
  BY PostIs
<1>2. queue' \in Seq(Tasks)
 <2>1. Updates[l] \in SUBSET EventTypes BY UpdateLabels
 <2> QED BY <1>1, <2>1, NewTasks, PostType DEF Types, LoopTypes
<1>3. pc' \in [Threads -> Seq(Labels)]
  BY <1>1, StoreSteps, GotoIs DEF At, Types, LoopTypes, Threads
<1>4. UNCHANGED <<client, exe, evs, entry, ready, kernel, ghosts>>
  BY DEF PostUpdate
<1> QED
  BY <1>2, <1>3, <1>4 DEF client, entry, kernel, ghosts, Types, ClientTypes, LoopTypes,
     KernelTypes, GhostTypes

LEMMA EventsAreTyped ==
  ASSUME Types,
         \/ epoll_wait \/ TakeTasks \/ NoHandler \/ SocketCb \/ TimerCb
         \/ StreamCb \/ Read \/ Error \/ Split \/ Closed
  PROVE  Types'
<1> USE DEF Types, ClientTypes, LoopTypes, KernelTypes, GhostTypes, client,
            entry, kernel, ghosts
<1>1. CASE epoll_wait
 <2>1. evs' \in Seq(Events) /\ ready' = {} BY <1>1, Fetched
 <2> QED BY <1>1, <2>1 DEF epoll_wait
<1>2. CASE TakeTasks BY <1>2, NextEvent, SMTT(30) DEF TakeTasks
<1>3. CASE NoHandler
 <2>1. evs' \in Seq(Events) BY <1>3, NextEvent DEF NoHandler
 <2> QED BY <1>3, <2>1 DEF NoHandler
<1>4. CASE SocketCb
 <2>1. evs' \in Seq(Events) BY <1>4, NextEvent DEF SocketCb
 <2>2. Attempt \in Seq(Labels) BY StepSequences DEF Attempt
 <2>3. pc' \in [Threads -> Seq(Labels)]
   BY <1>4, <2>2, BeginIs DEF SocketCb, Threads
 <2> QED BY <1>4, <2>1, <2>3 DEF SocketCb, Errors
<1>5. CASE TimerCb
 <2>1. evs' \in Seq(Events) BY <1>5, NextEvent DEF TimerCb
 <2>2. pc' \in [Threads -> Seq(Labels)]
   BY <1>5, StepSequences, BeginIs DEF TimerCb, Threads
 <2>3. /\ timer' = "off"
       /\ UNCHANGED <<client, queue, exe, entry, ready, sk, err, room, inbox, ghosts>>
   BY <1>5 DEF TimerCb
 <2> QED BY <2>1, <2>2, <2>3
<1>6. CASE StreamCb
 <2>1. evs' \in Seq(Events) BY <1>6, NextEvent DEF StreamCb
 <2>2. pc' = [pc EXCEPT !["io"] = Phases(Head(evs).types)]
   BY <1>6 DEF StreamCb, Phases
 <2>3. pc' \in [Threads -> Seq(Labels)] BY <2>2, PhasesAre, BeginIs DEF Threads
 <2> QED BY <1>6, <2>1, <2>3 DEF StreamCb
<1>i. pc \in [Threads -> Seq(Labels)] /\ "io" \in Threads BY DEF Threads
<1>7. CASE Read
 <2>1. pc["io"] # <<>> /\ (Goto("io", <<>>) \/ Disconnected)
   BY <1>7 DEF Read, At
 <2>2. pc' \in [Threads -> Seq(Labels)]
   BY <1>i, <2>1, GotoIs, DisconnectedIs, StepSequences
 <2>3. inbox' \in Seq(1..MaxPeer) /\ recv_buf' \in Seq(1..MaxPeer) /\ err' \in Errors
  <3>1. inbox' = <<>> /\ recv_buf' \in {recv_buf \o inbox, <<>>} /\ err' = "none"
    BY <1>7 DEF Read
  <3>2. recv_buf \o inbox \in Seq(1..MaxPeer) /\ <<>> \in Seq(1..MaxPeer)
    OBVIOUS
  <3> QED BY <3>1, <3>2 DEF Errors
 <2>4. UNCHANGED <<connected, started, event_types, send_buf, queue, exe, evs,
                   entry, ready, sk, room, timer, ghosts>>
   BY <1>7 DEF Read
 <2> QED BY <2>2, <2>3, <2>4
<1>8. CASE Error
 <2>1. pc["io"] # <<>> /\ (Goto("io", <<>>) \/ Goto("io", <<"refuse">>))
   BY <1>8 DEF Error, At
 <2>2. pc' \in [Threads -> Seq(Labels)] BY <1>i, <2>1, GotoIs, StepSequences
 <2>3. /\ recv_buf' \in {recv_buf, <<>>} /\ send_buf' \in {send_buf, <<>>}
       /\ lost' \in BOOLEAN /\ err' = "none"
       /\ UNCHANGED <<connected, started, event_types, queue, exe, evs, entry,
                      ready, sk, room, inbox, timer, calls, taken, sent, peer,
                      frames, outcome, timed, raced>>
   BY <1>8 DEF Error
 <2>4. recv_buf' \in Seq(1..MaxPeer) /\ send_buf' \in Seq(Messages) /\ err' \in Errors
  <3>1. <<>> \in Seq(1..MaxPeer) /\ <<>> \in Seq(Messages) OBVIOUS
  <3>2. err' \in Errors BY <2>3 DEF Errors
  <3> QED BY <2>3, <3>1, <3>2
 <2> QED BY <2>2, <2>3, <2>4
<1>9. CASE Split
 <2>1. pc["io"] # <<>> /\ Goto("io", <<>>) BY <1>9 DEF Split, At
 <2>2. pc' \in [Threads -> Seq(Labels)] BY <1>i, <2>1, GotoIs, StepSequences
 <2>3. frames' \in Seq(1..MaxPeer) /\ recv_buf' \in Seq(1..MaxPeer)
  <3>1. /\ SubSeq(recv_buf, 1, Whole(recv_buf)) \in Seq(1..MaxPeer)
        /\ Unsplit(recv_buf) \in Seq(1..MaxPeer)
    BY SplitParts
  <3>2. /\ frames' = frames \o SubSeq(recv_buf, 1, Whole(recv_buf))
        /\ recv_buf' = Unsplit(recv_buf)
    BY <1>9 DEF Split
  <3> QED BY <3>1, <3>2
 <2> QED BY <1>9, <2>2, <2>3, SMTT(30) DEF Split
<1>10. CASE Closed
 <2>1. pc["io"] # <<>> /\ Goto("io", <<"stop", "callback">>)
   BY <1>10 DEF Closed, At
 <2>2. pc' \in [Threads -> Seq(Labels)] BY <1>i, <2>1, GotoIs, StepSequences
 <2>3. /\ recv_buf' = <<>> /\ send_buf' = <<>> /\ lost' \in BOOLEAN
       /\ UNCHANGED <<connected, started, event_types, queue, exe, evs, entry,
                      ready, kernel, calls, taken, sent, peer, frames, outcome,
                      timed, raced>>
   BY <1>10 DEF Closed
 <2> QED BY <2>2, <2>3
<1> QED BY <1>1, <1>2, <1>3, <1>4, <1>5, <1>6, <1>7, <1>8, <1>9, <1>10

LEMMA NetTypes ==
  ASSUME Types,
         \/ ConnectEnds \/ PeerSends \/ PeerCloses \/ Drain \/ Expire
         \/ \E e \in NetErrors : Breaks(e)
  PROVE  Types'
<1> USE DEF Types, ClientTypes, LoopTypes, KernelTypes, GhostTypes, client,
            entry, kernel, ghosts, Quietly, Signal
<1>1. CASE ConnectEnds BY <1>1 DEF ConnectEnds, SkStates, Errors
<1>2. CASE PeerSends
 <2>1. peer' \in 0..MaxPeer /\ peer' \in 1..MaxPeer
   BY <1>2, Bounds DEF PeerSends
 <2>2. inbox' \in Seq(1..MaxPeer) BY <1>2, <2>1 DEF PeerSends
 <2> QED BY <1>2, <2>1, <2>2 DEF PeerSends
<1>3. CASE PeerCloses BY <1>3 DEF PeerCloses, SkStates
<1>4. CASE Drain
 <2>1. room' \in 0..Room BY <1>4, Bounds DEF Drain
 <2> QED BY <1>4, <2>1 DEF Drain
<1>5. CASE Expire BY <1>5 DEF Expire
<1>6. ASSUME NEW e \in NetErrors, Breaks(e) PROVE Types'
  BY <1>6 DEF Breaks, SkStates, Errors
<1> QED BY <1>1, <1>2, <1>3, <1>4, <1>5, <1>6

LEMMA AppTypes ==
  ASSUME Types,
         \/ AppConnect \/ AppStop \/ AppStart \/ \E m \in Messages : PostSend(m)
  PROVE  Types'
<1> USE DEF Types, ClientTypes, LoopTypes, KernelTypes, GhostTypes, client,
            entry, kernel, ghosts
<1>1. ASSUME NEW steps \in Seq(Labels), UserCall(steps) PROVE Types'
 <2>1. calls' \in 0..MaxCalls BY <1>1, Bounds DEF UserCall
 <2>2. pc' \in [Threads -> Seq(Labels)] BY <1>1, BeginIs DEF UserCall, Threads
 <2> QED BY <1>1, <2>1, <2>2 DEF UserCall
<1>2. ASSUME NEW m \in Messages, PostSend(m) PROVE Types'
 <2>1. queue' \in Seq(Tasks) BY <1>2, NewTasks, PostType DEF PostSend
 <2>2. UNCHANGED <<client, pc, exe, evs, entry, ready, kernel, ghosts>>
   BY <1>2 DEF PostSend
 <2> QED BY <2>1, <2>2
<1> QED BY <1>1, <1>2, StepSequences DEF AppConnect, AppStop, AppStart

LEMMA TypesInductive ==
  ASSUME Types, InsertInv, [Next]_vars
  PROVE  Types'
<1>1. CASE UNCHANGED vars
  BY <1>1 DEF vars, client, entry, kernel, ghosts, Types, ClientTypes, LoopTypes,
              KernelTypes, GhostTypes
<1>2. "io" \in Threads /\ "app" \in Threads BY DEF Threads
<1>3. CASE Next
  BY <1>2, <1>3, ThreadTypes, TaskTypes, WriteTypes, PostTypes, EventsAreTyped,
     NetTypes, AppTypes DEF Next, IoStep
<1> QED BY <1>1, <1>3

----------------------------------------
\* The order of the units, whatever the application calls.

\* The steps of the sequences that an action puts on a stack.
LEMMA WhatHas ==
  /\ \A l : ~Has(<< >>, l)
  /\ \A k \in {"syscall", "set", "test", "cas", "watch RE", "watch RWE", "stop post",
              "stop", "refuse", "unwatch timer", "start", "insert"} \cup UpdateSteps :
       \A l : Has(<<k>>, l) <=> l = k
  /\ \A l : Has(<<"connected", "start">>, l) <=> l \in {"connected", "start"}
  /\ \A l : Has(<<"refuse", "disconnected">>, l) <=> l \in {"refuse", "disconnected"}
  /\ \A l : Has(<<"fail", "disconnected">>, l) <=> l \in {"fail", "disconnected"}
  /\ \A l : Has(<<"stop", "callback">>, l) <=> l \in {"stop", "callback"}
  /\ \A l : Has(InProgress, l) <=> l \in {"watch sock", "watch timer", "arm"}
  /\ \A l : Has(Failure, l) <=> l \in {"disconnected", "unwatch timer", "refuse"}
  /\ \A l : Has(Success, l) <=> l \in {"connected", "unwatch timer", "start"}
<1>1. \A l \in {"cas", "syscall", "connected", "disconnected", "watch sock",
                "watch timer", "arm", "unwatch timer", "start", "set", "test",
                "watch RE", "watch RWE", "stop", "stop post", "fail", "refuse",
                "callback", "insert"} : l \in Labels
  BY DEF Labels
<1>2. \A l : ~Has(<< >>, l) BY DEF Has
<1>3. \A a \in Labels : \A l : Has(<<a>>, l) <=> l = a BY FewSteps
<1>4. \A a, b \in Labels : \A l : Has(<<a, b>>, l) <=> l \in {a, b} BY FewSteps
<1>5. \A a, b, c \in Labels : \A l : Has(<<a, b, c>>, l) <=> l \in {a, b, c}
  BY FewSteps
<1>6. \A k \in {"syscall", "set", "test", "cas", "watch RE", "watch RWE", "stop post",
                "stop", "refuse", "unwatch timer", "start", "insert"} \cup UpdateSteps :
        \A l : Has(<<k>>, l) <=> l = k
 <2>1. {"syscall", "set", "test", "cas", "watch RE", "watch RWE", "stop post", "stop",
        "refuse", "unwatch timer", "start", "insert"} \cup UpdateSteps \subseteq Labels
   BY UpdateLabels DEF Labels
 <2> QED BY ONLY <1>3, <2>1
<1>7. \A l : Has(<<"connected", "start">>, l) <=> l \in {"connected", "start"}
  BY <1>1, <1>4
<1>8. \A l : Has(<<"refuse", "disconnected">>, l) <=> l \in {"refuse", "disconnected"}
  BY <1>1, <1>4
<1>9. \A l : Has(<<"fail", "disconnected">>, l) <=> l \in {"fail", "disconnected"}
  BY <1>1, <1>4
<1>10. \A l : Has(<<"stop", "callback">>, l) <=> l \in {"stop", "callback"}
  BY <1>1, <1>4
<1>11. \A l : Has(InProgress, l) <=> l \in {"watch sock", "watch timer", "arm"}
  BY <1>1, <1>5 DEF InProgress
<1>12. \A l : Has(Failure, l) <=> l \in {"disconnected", "unwatch timer", "refuse"}
  BY <1>1, <1>5 DEF Failure
<1>13. \A l : Has(Success, l) <=> l \in {"connected", "unwatch timer", "start"}
  BY <1>1, <1>5 DEF Success
<1> QED BY <1>2, <1>6, <1>7, <1>8, <1>9, <1>10, <1>11, <1>12, <1>13

LEMMA CallsHaveNone ==
  /\ \A l \in OwnSteps : ~Has(<< >>, l)
  /\ \A l \in OwnSteps : ~Has(<<"syscall">>, l)
  /\ \A l \in OwnSteps : ~Has(<<"set">>, l)
  /\ \A l \in OwnSteps : ~Has(<<"test">>, l)
  /\ \A l \in OwnSteps : ~Has(<<"connected", "start">>, l)
  /\ \A l \in OwnSteps : ~Has(<<"cas">>, l)
  /\ \A l \in OwnSteps : ~Has(InProgress, l)
  /\ \A l \in OwnSteps : ~Has(<<"refuse", "disconnected">>, l)
  /\ \A l \in OwnSteps : ~Has(<<"fail", "disconnected">>, l)
  /\ \A l \in OwnSteps : ~Has(<<"watch RE">>, l)
  /\ \A l \in OwnSteps : ~Has(<<"watch RWE">>, l)
  /\ \A l \in OwnSteps : ~Has(<<"stop post">>, l)
  /\ \A l \in OwnSteps : ~Has(<<"stop">>, l)
  /\ \A l \in OwnSteps : ~Has(<<"stop", "callback">>, l)
  /\ \A k \in DOMAIN Stores : \A l \in OwnSteps : ~Has(<<k>>, l)
<1>1. \A l \in OwnSteps : l \in {"insert", "read", "write", "error", "split", "closed",
                              "update", "updateW", "updateRE", "updateRWE"}
  BY UpdateLabels DEF OwnSteps
<1>2. \A k \in DOMAIN Stores :
        /\ k \in {"store", "storeW", "storeRE", "storeRWE"}
        /\ \A l : Has(<<k>>, l) <=> l = k
  BY WhatHas, UpdateLabels DEF UpdateSteps
<1>3. \A k \in DOMAIN Stores : \A l \in OwnSteps : ~Has(<<k>>, l) BY <1>1, <1>2
<1> QED BY <1>1, <1>3, WhatHas

LEMMA CallGoes ==
  ASSUME NEW t \in Threads, ThreadStep(t)
  PROVE  \E steps \in Seq(Labels) : Goto(t, steps) /\ \A l \in OwnSteps : ~Has(steps, l)
<1>1. CASE ConnectIgnored(t)
  BY StepSequences, CallsHaveNone, <1>1 DEF ConnectIgnored
<1>2. CASE ConnectBegins(t)
  BY StepSequences, CallsHaveNone, <1>2 DEF ConnectBegins
<1>3. CASE Syscall(t) BY StepSequences, CallsHaveNone, <1>3 DEF Syscall
<1>4. CASE SetConnected(t)
  BY StepSequences, CallsHaveNone, <1>4 DEF SetConnected
<1>5. CASE SetDisconnected(t)
  BY StepSequences, CallsHaveNone, <1>5 DEF SetDisconnected
<1>6. CASE WatchSock(t) BY StoreSteps, CallsHaveNone, <1>6 DEF WatchSock
<1>7. CASE PostTimer(t) BY StepSequences, CallsHaveNone, <1>7 DEF PostTimer
<1>8. CASE Start(t) BY StepSequences, CallsHaveNone, <1>8 DEF Start
<1>9. CASE StartTest(t) BY StepSequences, CallsHaveNone, <1>9 DEF StartTest
<1>10. CASE StartPost(t) BY StoreSteps, CallsHaveNone, <1>10 DEF StartPost
<1>11. CASE Stop(t) BY StepSequences, CallsHaveNone, <1>11 DEF Stop
<1>12. CASE StopPost(t) BY StepSequences, CallsHaveNone, <1>12 DEF StopPost
<1>13. CASE OnError(t) BY StepSequences, CallsHaveNone, <1>13 DEF OnError
<1>14. CASE Callback(t) BY StepSequences, CallsHaveNone, <1>14 DEF Callback
<1>15. CASE StoreTypes(t) BY StepSequences, CallsHaveNone, <1>15 DEF StoreTypes
<1>16. CASE SetStarted(t) BY StepSequences, CallsHaveNone, <1>16 DEF SetStarted
<1> QED
  BY <1>1, <1>2, <1>3, <1>4, <1>5, <1>6, <1>7, <1>8, <1>9, <1>10, <1>11, <1>12, <1>13, <1>14,
     <1>15, <1>16
     DEF ThreadStep

LEMMA CallSteps ==
  ASSUME Types, NEW t \in Threads, ThreadStep(t)
  PROVE  /\ pc[t] # <<>> /\ Head(pc[t]) \notin OwnSteps
         /\ \A u \in Threads : u # t => pc'[u] = pc[u]
         /\ \A l \in OwnSteps : In(t, l)' <=> In(t, l)
<1>1. \E steps \in Seq(Labels) : Goto(t, steps) /\ \A l \in OwnSteps : ~Has(steps, l)
  BY CallGoes
<1>0. \A l \in OwnSteps : l \in {"insert", "read", "write", "error", "split", "closed",
                              "update", "updateW", "updateRE", "updateRWE"}
  BY UpdateLabels DEF OwnSteps
<1>2. pc[t] # <<>> /\ Head(pc[t]) \notin OwnSteps
 <2>1. CASE ConnectIgnored(t) \/ ConnectBegins(t) \/ Syscall(t) \/ SetConnected(t)
   BY <1>0, <2>1 DEF ConnectIgnored, ConnectBegins, Syscall, SetConnected, At
 <2>2. CASE SetDisconnected(t) \/ WatchSock(t) \/ PostTimer(t) \/ Start(t)
   BY <1>0, <2>2 DEF SetDisconnected, WatchSock, PostTimer, Start, At
 <2>3. CASE SetStarted(t) \/ StartTest(t) \/ StartPost(t) \/ Stop(t)
   BY <1>0, <2>3 DEF SetStarted, StartTest, StartPost, Stop, At
 <2>4. CASE StopPost(t) \/ OnError(t) \/ Callback(t)
   BY <1>0, <2>4 DEF StopPost, OnError, Callback, At
 <2>5. CASE StoreTypes(t)
  <3>1. \A k \in DOMAIN Stores : k \in {"store", "storeW", "storeRE", "storeRWE"}
    BY UpdateLabels
  <3> QED BY <1>0, <2>5, <3>1 DEF StoreTypes, At
 <2> QED BY <2>1, <2>2, <2>3, <2>4, <2>5 DEF ThreadStep
<1>3. PICK steps \in Seq(Labels) : Goto(t, steps) /\ \A l \in OwnSteps : ~Has(steps, l)
  BY <1>1
<1>4. pc \in [Threads -> Seq(Labels)] BY DEF Types, LoopTypes
<1> QED BY <1>2, <1>3, <1>4, GotoIs

\* Between tasks and events there is no step of the io thread.
LEMMA Idle ==
  ASSUME pc["io"] = <<>>
  PROVE  \A l : ~In("io", l)
  BY DEF In, Has

LEMMA HeadIn ==
  ASSUME Types, NEW t \in Threads, NEW l, At(t, l)
  PROVE  In(t, l)
<1>1. PICK s \in Seq(Labels) : s = pc[t] /\ s # <<>> /\ Head(s) = l
  BY DEF At, Types, LoopTypes
<1>2. 1 \in DOMAIN s /\ s[1] = l BY <1>1
<1> QED BY <1>1, <1>2 DEF In, Has

\* What the steps of a call leave alone.
LEMMA CallFrame ==
  ASSUME NEW t \in Threads, ThreadStep(t)
  PROVE  UNCHANGED <<send_buf, recv_buf, exe, evs, entry, ready, room, inbox,
                     timer, taken, sent, lost, peer, frames>>
<1> USE DEF client, entry, kernel, ghosts
<1>1. CASE ConnectIgnored(t) \/ ConnectBegins(t) \/ Syscall(t) \/ SetConnected(t)
  BY <1>1 DEF ConnectIgnored, ConnectBegins, Syscall, SetConnected
<1>2. CASE SetDisconnected(t) \/ WatchSock(t) \/ PostTimer(t) \/ Start(t)
  BY <1>2 DEF SetDisconnected, WatchSock, PostTimer, Start
<1>3. CASE SetStarted(t) \/ StartTest(t) \/ StartPost(t) \/ Stop(t)
  BY <1>3 DEF SetStarted, StartTest, StartPost, Stop
<1>4. CASE StoreTypes(t) \/ StopPost(t) \/ OnError(t) \/ Callback(t)
  BY <1>4 DEF StoreTypes, StopPost, OnError, Callback
<1> QED BY <1>1, <1>2, <1>3, <1>4 DEF ThreadStep

LEMMA InsertInductive ==
  ASSUME Types, InsertInv, [Next]_vars
  PROVE  InsertInv'
<1> USE DEF client, entry, kernel, ghosts
<1>1. ASSUME pc'["io"] = pc["io"], UNCHANGED exe PROVE InsertInv'
  BY <1>1 DEF InsertInv, In
<1>2. ASSUME ~In("io", "insert")' PROVE InsertInv' BY <1>2 DEF InsertInv
<1>3. ASSUME In("io", "insert")
      PROVE  pc["io"] = <<"insert">> /\ pc["io"] # <<>> /\ Head(pc["io"]) = "insert"
 <2>1. pc["io"] = <<"insert">> BY <1>3 DEF InsertInv
 <2> QED BY <2>1
<1>4. "io" \in Threads /\ "app" \in Threads BY DEF Threads
<1>5. ASSUME NEW t \in Threads, ThreadStep(t) PROVE InsertInv'
 <2>1. UNCHANGED exe BY <1>5, CallFrame
 <2>2. CASE t = "app"
  <3>1. pc'["io"] = pc["io"] BY <1>4, <1>5, <2>2, CallSteps
  <3> QED BY <1>1, <2>1, <3>1
 <2>3. CASE t = "io"
  <3>1. "insert" \in OwnSteps BY DEF OwnSteps
  <3>2. Head(pc["io"]) # "insert" /\ (In("io", "insert")' <=> In("io", "insert"))
    BY <1>5, <2>3, <3>1, CallSteps
  <3> QED BY <1>2, <1>3, <3>2
 <2> QED BY <2>2, <2>3 DEF Threads
<1>6. CASE AppConnect \/ AppStop \/ AppStart
 <2>1. UNCHANGED exe /\ \E steps \in Seq(Labels) : pc' = [pc EXCEPT !["app"] = steps]
   BY <1>6, StepSequences DEF AppConnect, AppStop, AppStart, UserCall
 <2>2. pc'["io"] = pc["io"] BY <1>4, <2>1, BeginIs DEF Types, LoopTypes
 <2> QED BY <1>1, <2>1, <2>2
<1>7. ASSUME NEW m \in Messages, PostSend(m) PROVE InsertInv'
  BY <1>1, <1>7 DEF PostSend
<1>8. CASE ConnectEnds \/ PeerSends \/ PeerCloses \/ Drain \/ Expire
           \/ \E e \in NetErrors : Breaks(e)
  BY <1>1, <1>8 DEF ConnectEnds, PeerSends, PeerCloses, Drain, Expire, Breaks, Quietly
<1>9. ASSUME pc' = pc, pc["io"] = <<>> PROVE InsertInv'
  BY <1>2, <1>9 DEF In, Has
<1>10. CASE epoll_wait \/ TakeTasks \/ NoHandler
  BY <1>9, <1>10 DEF epoll_wait, TakeTasks, NoHandler, Event
<1>11. CASE EnableTask \/ DisableTask \/ EnableTimerTask \/ DisableTimerTask
            \/ ArmTask
  BY <1>9, <1>11 DEF EnableTask, DisableTask, EnableTimerTask, DisableTimerTask,
       ArmTask, Running
<1>12. CASE SendTaskQueues
  BY <1>4, <1>12 DEF SendTaskQueues, Running, InsertInv, Types, LoopTypes
<1>13. ASSUME pc["io"] # <<>>, \E steps \in Seq(Labels) :
                Goto("io", steps) /\ ~Has(steps, "insert"),
              In("io", "insert") => pc["io"] = <<"insert">>
       PROVE  InsertInv'
 <2>1. PICK steps \in Seq(Labels) : Goto("io", steps) /\ ~Has(steps, "insert")
   BY <1>13
 <2>2. pc \in [Threads -> Seq(Labels)] BY DEF Types, LoopTypes
 <2>3. CASE ~In("io", "insert") BY <1>2, <1>4, <1>13, <2>1, <2>2, <2>3, GotoIs
 <2>4. CASE In("io", "insert")
  <3>1. pc["io"] = <<"insert">> /\ pc'["io"] = steps \o Tail(pc["io"])
    BY <1>4, <1>13, <2>1, <2>2, <2>4, GotoIs
  <3>2. Tail(<<"insert">>) = <<>> OBVIOUS
  <3>3. steps \o <<>> = steps OBVIOUS
  <3> QED BY <1>2, <2>1, <3>1, <3>2, <3>3 DEF In
 <2> QED BY <2>3, <2>4
<1>14. /\ ~Has(<< >>, "insert") /\ ~Has(<<"refuse">>, "insert")
       /\ ~Has(<<"stop", "callback">>, "insert") /\ ~Has(Failure, "insert")
       /\ ~Has(Success, "insert") /\ ~Has(<<"unwatch timer">>, "insert")
       /\ \A l \in UpdateSteps : ~Has(<<l>>, "insert") /\ <<l>> \in Seq(Labels)
 <2>1. \A l \in UpdateSteps : l # "insert" BY UpdateLabels DEF UpdateSteps
 <2> QED BY <2>1, WhatHas, StepSequences
<1>15. CASE Insert \/ Split \/ Closed \/ Error
 <2>1. pc["io"] # <<>> /\ \E steps \in Seq(Labels) :
                            Goto("io", steps) /\ ~Has(steps, "insert")
   BY <1>14, <1>15, StepSequences DEF Insert, Split, Closed, Error, At
 <2> QED BY <1>3, <1>13, <2>1
<1>16. CASE Read \/ Write
 <2>1. /\ pc["io"] # <<>> /\ Head(pc["io"]) # "insert"
       /\ \/ Goto("io", << >>) \/ Disconnected
          \/ \E l \in UpdateSteps : Goto("io", <<l>>)
   BY <1>16, WriteGoes DEF Read, Write, At, UpdateSteps
 <2>2. ~In("io", "insert") BY <1>3, <2>1
 <2>3. CASE Goto("io", << >>) \/ \E l \in UpdateSteps : Goto("io", <<l>>)
   BY <1>13, <1>14, <2>1, <2>2, <2>3, StepSequences
 <2>4. CASE Disconnected
   BY <1>2, <2>1, <2>2, <2>4, DisconnectedIs DEF Types, LoopTypes
 <2> QED BY <2>1, <2>3, <2>4
<1>17. ASSUME NEW steps \in Seq(Labels), ~Has(steps, "insert"),
              pc' = [pc EXCEPT !["io"] = steps]
       PROVE  InsertInv'
  BY <1>2, <1>4, <1>17, BeginIs DEF Types, LoopTypes
<1>18. CASE SocketCb BY <1>14, <1>17, <1>18, StepSequences DEF SocketCb, Attempt
<1>19. CASE TimerCb BY <1>14, <1>17, <1>19, StepSequences DEF TimerCb
<1>20. CASE StreamCb
 <2>1. pc' = [pc EXCEPT !["io"] = Phases(Head(evs).types)]
   BY <1>20 DEF StreamCb, Phases
 <2>2. Phases(Head(evs).types) \in Seq(Labels) /\ ~Has(Phases(Head(evs).types), "insert")
   BY PhasesAre
 <2> QED BY <1>17, <2>1, <2>2
<1>22. CASE SendTaskSends
  BY <1>14, <1>17, <1>22, SendGoes, StepSequences DEF UpdateSteps
<1>23. CASE PostUpdate
 <2>1. PICK l \in UpdateSteps, k \in UpdateSteps : At("io", l) /\ Goto("io", <<k>>)
   BY <1>23, PostIs DEF UpdateSteps
 <2>2. pc["io"] # << >> /\ Head(pc["io"]) # "insert"
   BY <1>14, <2>1, UpdateLabels DEF At, UpdateSteps
 <2> QED BY <1>3, <1>13, <1>14, <2>1, <2>2
<1>21. CASE UNCHANGED vars BY <1>1, <1>21 DEF vars
<1> QED
  BY <1>4, <1>5, <1>6, <1>7, <1>8, <1>10, <1>11, <1>12, <1>15, <1>16, <1>18, <1>19,
     <1>20, <1>21, <1>22, <1>23 DEF Next, IoStep, RunTask

LEMMA ErrorsInductive ==
  ASSUME Types, ErrorInv, [Next]_vars
  PROVE  ErrorInv'
<1> USE DEF client, entry, kernel, ghosts, ErrorInv
<1>1. CASE UNCHANGED <<sk, err>> BY <1>1
<1>2. CASE err' = "none" BY <1>2
<1>3. ASSUME NEW t \in Threads, ThreadStep(t) PROVE ErrorInv'
 <2>1. CASE Syscall(t) BY <2>1 DEF Syscall
 <2>2. CASE ~Syscall(t)
  <3>1. UNCHANGED <<sk, err>>
    BY <1>3, <2>2 DEF ThreadStep, ConnectIgnored, ConnectBegins, SetConnected,
         SetDisconnected, WatchSock, PostTimer, Start, StartTest, StartPost, Stop,
         StopPost, OnError, Callback, SetStarted, StoreTypes
  <3> QED BY <1>1, <3>1
 <2> QED BY <2>1, <2>2
<1>4. CASE RunTask
  BY <1>1, <1>2, <1>4 DEF RunTask, EnableTask, DisableTask, EnableTimerTask,
       DisableTimerTask, ArmTask, SendTaskQueues, Insert, SendTaskSends
<1>5. CASE epoll_wait \/ TakeTasks \/ NoHandler \/ SocketCb \/ TimerCb \/ StreamCb
  BY <1>1, <1>2, <1>5 DEF epoll_wait, TakeTasks, NoHandler, SocketCb, TimerCb, StreamCb
<1>6. CASE Read \/ Write \/ Error \/ Split \/ Closed
  BY <1>1, <1>2, <1>6 DEF Read, Write, Error, Split, Closed
<1>7. CASE AppConnect \/ AppStop \/ AppStart \/ \E m \in Messages : PostSend(m)
  BY <1>1, <1>7 DEF AppConnect, AppStop, AppStart, UserCall, PostSend
<1>8. CASE ConnectEnds \/ PeerSends \/ PeerCloses \/ Drain \/ Expire
  BY <1>8 DEF ConnectEnds, PeerSends, PeerCloses, Drain, Expire
<1>9. ASSUME NEW e \in NetErrors, Breaks(e) PROVE ErrorInv'
 <2>1. e # "refused" BY ClientAssumption
 <2> QED BY <1>9, <2>1 DEF Breaks
<1>10. CASE UNCHANGED vars \/ PostUpdate BY <1>1, <1>10 DEF vars, PostUpdate
<1> QED
  BY <1>3, <1>4, <1>5, <1>6, <1>7, <1>8, <1>9, <1>10 DEF Next, IoStep, Threads

\* A stack whose first step was replaced: the steps of an update stay in front.
LEMMA StackFronted ==
  ASSUME NEW s \in Seq(Labels), s # << >>, Fronted(s), NEW steps \in Seq(Labels),
         Fronted(steps)
  PROVE  /\ Fronted(steps \o Tail(s))
         /\ \A l \in UpdateSteps : Has(steps \o Tail(s), l) => Has(steps, l)
<1>1. PICK q : q = steps \o Tail(s) OBVIOUS
<1>2. PICK n, k \in Nat : n = Len(s) /\ k = Len(steps) OBVIOUS
<1>3. /\ q \in Seq(Labels) /\ Len(q) = k + n - 1
      /\ \A i \in 1..k : q[i] = steps[i]
      /\ \A i \in 2..n : q[k + i - 1] = s[i]
  BY <1>1, <1>2, Stacked
<1>4. n > 0 /\ DOMAIN s = 1..n /\ DOMAIN steps = 1..k /\ DOMAIN q = 1..(k + n - 1)
  BY <1>2, <1>3
<1>5. ASSUME NEW j \in DOMAIN q, q[j] \in UpdateSteps
      PROVE  j \in DOMAIN steps /\ steps[j] = q[j]
 <2>1. CASE j <= k BY <1>3, <1>4, <2>1
 <2>2. CASE j > k
  <3>1. PICK i \in 2..n : i = j - k + 1 BY <1>4, <2>2
  <3>2. k + i - 1 = j /\ i \in DOMAIN s /\ i # 1 BY <1>4, <2>2, <3>1
  <3>3. s[i] = q[j] BY <1>3, <3>2
  <3> QED BY <1>5, <3>2, <3>3 DEF Fronted
 <2> QED BY <1>4, <2>1, <2>2
<1> QED BY <1>1, <1>5 DEF Fronted, Has

\* The sequences that an action puts on a stack have an update in front, if at all.
LEMMA FrontedSteps ==
  /\ \A l \in Labels : Fronted(<<l>>)
  /\ \A s \in Seq(Labels) : (\A l \in UpdateSteps : ~Has(s, l)) => Fronted(s)
<1>1. \A l \in Labels : DOMAIN <<l>> = {1} OBVIOUS
<1> QED BY <1>1 DEF Fronted, Has

LEMMA UpdateKept ==
  ASSUME Types, UpdateInv, NEW t \in Threads, NEW q \in Seq(Labels), pc'[t] = q, Fronted(q),
         \A u \in Threads : u # t => pc'[u] = pc[u], raced => raced',
         (\A l \in UpdateSteps : ~Has(q, l)) \/ Overlaps \/ Updating(t),
         \A l \in DOMAIN Updates : Has(q, l) =>
           t = "io" /\ ("W" \in Updates[l] <=> send_buf' # << >>),
         t = "app" => send_buf' = send_buf
  PROVE  UpdateInv'
<1>1. "app" \in Threads /\ "io" \in Threads /\ t \in {"app", "io"}
  BY DEF Threads
<1>2. \A u \in Threads : Fronted(pc'[u]) BY DEF UpdateInv
<1>3. ASSUME q # << >> PROVE Has(q, Head(q))
 <2>1. 1 \in DOMAIN q /\ q[1] = Head(q) BY <1>3
 <2> QED BY <2>1 DEF Has
<1>4. ASSUME NEW l \in DOMAIN Updates
      PROVE  /\ ~In("app", l)'
             /\ At("io", l)' => ("W" \in Updates[l] <=> send_buf' # << >>)
 <2>1. CASE t = "app"
  <3>1. pc'["io"] = pc["io"] /\ send_buf' = send_buf /\ ~Has(q, l) BY <1>1, <2>1
  <3> QED BY <1>1, <2>1, <3>1 DEF UpdateInv, In, At
 <2>2. CASE t = "io"
  <3>1. pc'["app"] = pc["app"] BY <1>1, <2>2
  <3> QED BY <1>1, <1>3, <2>2, <3>1 DEF UpdateInv, In, At
 <2> QED BY <1>1, <2>1, <2>2
<1>5. Updating("app")' /\ Updating("io")' => raced'
 <2> SUFFICES ASSUME Updating("app")', Updating("io")', ~raced PROVE raced'
   OBVIOUS
 <2>1. Updating(t)' /\ \A u \in Threads : u # t => Updating(u)
  <3>1. \A u \in Threads : Updating(u)' BY DEF Threads
  <3>2. ASSUME NEW u \in Threads, u # t PROVE Updating(u)
    BY <3>1, <3>2 DEF Updating
  <3> QED BY <3>1, <3>2
 <2>2. \E u \in Threads : u # t BY <1>1
 <2>3. CASE \A l \in UpdateSteps : ~Has(q, l)
   BY <1>3, <2>1, <2>3 DEF Updating, UpdateSteps
 <2>4. CASE Overlaps BY <2>1, <2>2, <2>4 DEF Overlaps
 <2>5. CASE Updating(t) BY <1>1, <2>1, <2>5 DEF UpdateInv
 <2> QED BY <2>3, <2>4, <2>5
<1> QED BY <1>2, <1>4, <1>5 DEF UpdateInv

\* Without a step of an update.
LEMMA UpdateNone ==
  ASSUME Types, UpdateInv, NEW t \in Threads, NEW q \in Seq(Labels), pc'[t] = q,
         \A l \in UpdateSteps : ~Has(q, l),
         \A u \in Threads : u # t => pc'[u] = pc[u], raced' = raced,
         t = "app" => send_buf' = send_buf
  PROVE  UpdateInv'
<1>1. Fronted(q) BY FrontedSteps
<1>2. \A l \in DOMAIN Updates : ~Has(q, l) BY DEF UpdateSteps
<1> QED BY <1>1, <1>2, UpdateKept

\* Behind another step there is none.
LEMMA NoneIn ==
  ASSUME Types, UpdateInv, NEW t \in Threads, pc[t] # << >>, Head(pc[t]) \notin UpdateSteps
  PROVE  \A l \in UpdateSteps : ~In(t, l)
<1>1. pc[t] \in Seq(Labels) /\ Fronted(pc[t]) BY DEF Types, LoopTypes, UpdateInv
<1>2. Head(pc[t]) = pc[t][1] BY <1>1
<1> QED BY <1>1, <1>2 DEF Fronted, In, Has

\* A thread goes on without an update, or with the store of one.
LEMMA UpdateGoesOn ==
  ASSUME Types, UpdateInv, NEW t \in Threads, pc[t] # << >>, NEW steps \in Seq(Labels),
         Goto(t, steps), Fronted(steps), raced => raced',
         (\A l \in UpdateSteps : ~Has(steps, l)) \/ Overlaps \/ Updating(t),
         \A l \in DOMAIN Updates : Has(steps, l) =>
           t = "io" /\ ("W" \in Updates[l] <=> send_buf' # << >>),
         t = "app" => send_buf' = send_buf
  PROVE  UpdateInv'
<1>1. pc[t] \in Seq(Labels) /\ Fronted(pc[t]) /\ pc \in [Threads -> Seq(Labels)]
  BY DEF Types, LoopTypes, UpdateInv
<1>2. /\ pc'[t] = steps \o Tail(pc[t])
      /\ \A u \in Threads : u # t => pc'[u] = pc[u]
  BY <1>1, GotoIs
<1>3. PICK q \in Seq(Labels) : q = steps \o Tail(pc[t]) BY <1>1, Stacked
<1>4. Fronted(q) /\ \A l \in UpdateSteps : Has(q, l) => Has(steps, l)
  BY <1>1, <1>3, StackFronted
<1>5. /\ (\A l \in UpdateSteps : ~Has(q, l)) \/ Overlaps \/ Updating(t)
      /\ \A l \in DOMAIN Updates : Has(q, l) =>
           t = "io" /\ ("W" \in Updates[l] <=> send_buf' # << >>)
  BY <1>4 DEF UpdateSteps
<1> QED BY <1>2, <1>3, <1>4, <1>5, UpdateKept

LEMMA ThreadFronted ==
  ASSUME NEW t \in Threads, ThreadStep(t)
  PROVE  /\ raced => raced'
         /\ \E steps \in Seq(Labels) :
              /\ Goto(t, steps) /\ Fronted(steps)
              /\ \A l \in DOMAIN Updates : ~Has(steps, l)
              /\ \/ \A l \in UpdateSteps : ~Has(steps, l)
                 \/ Overlaps /\ (WatchSock(t) \/ StartPost(t))
<1> DEFINE Steps == {<< >>, <<"syscall">>, InProgress, <<"connected", "start">>,
                     <<"refuse", "disconnected">>, <<"fail", "disconnected">>, <<"set">>,
                     <<"test">>, <<"watch RE">>, <<"watch RWE">>, <<"stop post">>,
                     <<"stop">>, <<"stop", "callback">>, <<"cas">>}
<1>1. ASSUME NEW s \in Steps
      PROVE  s \in Seq(Labels) /\ Fronted(s) /\ \A l \in UpdateSteps : ~Has(s, l)
 <2>1. s \in Seq(Labels) BY StepSequences
 <2>2. \A l \in UpdateSteps : l \in {"update", "updateW", "updateRE", "updateRWE",
                                   "store", "storeW", "storeRE", "storeRWE"}
   BY UpdateLabels DEF UpdateSteps
 <2>3. \A l \in UpdateSteps : ~Has(s, l)
  <3>1. CASE \E k \in {"syscall", "set", "test", "watch RE", "watch RWE", "stop post",
                        "stop", "cas"} : s = <<k>>
   <4>1. PICK k \in {"syscall", "set", "test", "watch RE", "watch RWE", "stop post",
                      "stop", "cas"} : s = <<k>>
     BY <3>1
   <4>2. \A l : Has(s, l) <=> l = k BY <4>1, WhatHas
   <4> QED BY <2>2, <4>2
  <3>2. CASE s = << >> BY <3>2, WhatHas
  <3>3. CASE s = InProgress
   <4>1. \A l : Has(s, l) <=> l \in {"watch sock", "watch timer", "arm"}
     BY <3>3, WhatHas
   <4> QED BY <2>2, <4>1
  <3>4. CASE s = <<"connected", "start">>
   <4>1. \A l : Has(s, l) <=> l \in {"connected", "start"} BY <3>4, WhatHas
   <4> QED BY <2>2, <4>1
  <3>5. CASE s = <<"stop", "callback">>
   <4>1. \A l : Has(s, l) <=> l \in {"stop", "callback"} BY <3>5, WhatHas
   <4> QED BY <2>2, <4>1
  <3>6. CASE s = <<"refuse", "disconnected">>
   <4>1. \A l : Has(s, l) <=> l \in {"refuse", "disconnected"} BY <3>6, WhatHas
   <4> QED BY <2>2, <4>1
  <3>7. CASE s = <<"fail", "disconnected">>
   <4>1. \A l : Has(s, l) <=> l \in {"fail", "disconnected"} BY <3>7, WhatHas
   <4> QED BY <2>2, <4>1
  <3> QED BY <3>1, <3>2, <3>3, <3>4, <3>5, <3>6, <3>7
 <2> QED BY <2>1, <2>3, FrontedSteps
<1>2. CASE UNCHANGED raced /\ \E s \in Steps : Goto(t, s)
 <2>1. PICK s \in Steps : Goto(t, s) BY <1>2
 <2>2. s \in Seq(Labels) /\ Fronted(s) /\ \A l \in UpdateSteps : ~Has(s, l)
   BY <1>1
 <2> QED BY <1>2, <2>1, <2>2 DEF UpdateSteps
<1> HIDE DEF Steps
<1>3. << >> \in Steps /\ <<"syscall">> \in Steps /\ InProgress \in Steps
      /\ <<"connected", "start">> \in Steps /\ <<"refuse", "disconnected">> \in Steps
      /\ <<"fail", "disconnected">> \in Steps /\ <<"set">> \in Steps /\ <<"test">> \in Steps
      /\ <<"watch RE">> \in Steps /\ <<"watch RWE">> \in Steps /\ <<"stop post">> \in Steps
      /\ <<"stop">> \in Steps /\ <<"stop", "callback">> \in Steps /\ <<"cas">> \in Steps
  BY DEF Steps
<1>4. CASE ConnectIgnored(t) \/ ConnectBegins(t) \/ Syscall(t) \/ SetConnected(t)
  BY <1>2, <1>3, <1>4 DEF ghosts, ConnectIgnored, ConnectBegins, Syscall, SetConnected
<1>5. CASE SetDisconnected(t) \/ PostTimer(t) \/ Start(t) \/ SetStarted(t)
  BY <1>2, <1>3, <1>5 DEF ghosts, SetDisconnected, PostTimer, Start, SetStarted
<1>6. CASE StartTest(t) \/ Stop(t) \/ StopPost(t) \/ OnError(t) \/ Callback(t)
  BY <1>2, <1>3, <1>6 DEF ghosts, StartTest, Stop, StopPost, OnError, Callback
<1>7. CASE StoreTypes(t) BY <1>2, <1>3, <1>7 DEF ghosts, StoreTypes
<1>8. CASE WatchSock(t) \/ StartPost(t)
 <2>1. PICK k \in DOMAIN Stores : Goto(t, <<k>>) /\ Overlaps
   BY <1>8, StoreSteps DEF WatchSock, StartPost
 <2>2. /\ <<k>> \in Seq(Labels) /\ Fronted(<<k>>) /\ (raced => raced')
       /\ \A l : Has(<<k>>, l) <=> l = k
   BY <2>1, UpdateLabels, StoreSteps, FrontedSteps, WhatHas DEF UpdateSteps, Overlaps
 <2>3. k \notin DOMAIN Updates BY UpdateLabels
 <2> QED BY <1>8, <2>1, <2>2, <2>3
<1> QED BY <1>4, <1>5, <1>6, <1>7, <1>8 DEF ThreadStep

LEMMA UpdatesInductive ==
  ASSUME Types, UpdateInv, [Next]_vars
  PROVE  UpdateInv'
<1> USE DEF client, entry, kernel, ghosts
<1>1. CASE UNCHANGED <<pc, raced, send_buf>>
  BY <1>1 DEF UpdateInv, Updating, In, At, Fronted
<1>2. "io" \in Threads /\ "app" \in Threads /\ "app" # "io" /\ pc \in [Threads -> Seq(Labels)]
  BY DEF Threads, Types, LoopTypes
<1>3. ASSUME NEW t \in Threads, ThreadStep(t) PROVE UpdateInv'
 <2>1. pc[t] # << >> /\ send_buf' = send_buf BY <1>3, ThreadGoes, CallFrame
 <2>2. PICK steps \in Seq(Labels) :
         /\ Goto(t, steps) /\ Fronted(steps)
         /\ \A l \in DOMAIN Updates : ~Has(steps, l)
         /\ (\A l \in UpdateSteps : ~Has(steps, l)) \/ Overlaps
   BY <1>3, ThreadFronted
 <2>3. raced => raced' BY <1>3, ThreadFronted
 <2> QED BY <2>1, <2>2, <2>3, UpdateGoesOn
<1>4. \A l \in UpdateSteps : l \in {"update", "updateW", "updateRE", "updateRWE",
                                  "store", "storeW", "storeRE", "storeRWE"}
  BY UpdateLabels DEF UpdateSteps
<1>5. ASSUME NEW t \in Threads, NEW steps \in Seq(Labels), pc' = [pc EXCEPT ![t] = steps],
             \A l \in UpdateSteps : ~Has(steps, l), UNCHANGED raced,
             t = "app" => send_buf' = send_buf
      PROVE  UpdateInv'
  BY <1>2, <1>5, BeginIs, UpdateNone
<1>6. ASSUME NEW steps \in Seq(Labels), pc["io"] # << >>, Goto("io", steps),
             \A l \in UpdateSteps : ~Has(steps, l), UNCHANGED raced
      PROVE  UpdateInv'
 <2>1. Fronted(steps) /\ \A l \in DOMAIN Updates : ~Has(steps, l)
   BY <1>6, FrontedSteps DEF UpdateSteps
 <2> QED BY <1>2, <1>6, <2>1, UpdateGoesOn
<1>7. ASSUME pc["io"] # << >>, Head(pc["io"]) \notin UpdateSteps, Disconnected, UNCHANGED raced
      PROVE  UpdateInv'
 <2>1. /\ pc'["app"] = pc["app"] /\ pc'["io"] \in Seq(Labels)
       /\ \A l : In("io", l)' => l = "closed" \/ In("io", l)
   BY <1>2, <1>7, DisconnectedIs
 <2>2. \A l \in UpdateSteps : ~In("io", l)' BY <1>2, <1>4, <1>7, <2>1, NoneIn
 <2>3. PICK q \in Seq(Labels) : q = pc'["io"] BY <2>1
 <2>4. \A u \in Threads : u # "io" => pc'[u] = pc[u] BY <2>1 DEF Threads
 <2> QED BY <1>2, <1>7, <2>2, <2>3, <2>4, UpdateNone DEF In
<1>8. /\ \A l \in UpdateSteps : ~Has(<< >>, l) /\ ~Has(<<"insert">>, l)
      /\ \A l \in UpdateSteps : ~Has(<<"cas">>, l) /\ ~Has(<<"stop">>, l) /\ ~Has(<<"start">>, l)
      /\ \A l \in UpdateSteps : ~Has(<<"refuse">>, l) /\ ~Has(<<"stop", "callback">>, l)
      /\ \A l \in UpdateSteps : ~Has(Failure, l) /\ ~Has(Success, l)
      /\ \A l \in UpdateSteps : ~Has(<<"unwatch timer">>, l)
  BY <1>4, WhatHas
<1>9. CASE EnableTask \/ DisableTask \/ EnableTimerTask \/ DisableTimerTask \/ ArmTask
  BY <1>1, <1>9 DEF EnableTask, DisableTask, EnableTimerTask, DisableTimerTask, ArmTask
<1>10. CASE SendTaskQueues
  BY <1>2, <1>5, <1>8, <1>10, StepSequences DEF SendTaskQueues
<1>11. CASE Insert \/ Error \/ Split \/ Closed
  BY <1>6, <1>8, <1>11, StepSequences DEF Insert, Error, Split, Closed, At
<1>12. ASSUME NEW l \in DOMAIN Updates
       PROVE  /\ <<l>> \in Seq(Labels) /\ Fronted(<<l>>) /\ l \notin DOMAIN Stores
              /\ \A k : Has(<<l>>, k) <=> k = l
  BY UpdateLabels, StepSequences, FrontedSteps, WhatHas DEF UpdateSteps
<1>13. CASE SendTaskSends
 <2>1. CASE pc' = [pc EXCEPT !["io"] = << >>] /\ UNCHANGED raced
   BY <1>2, <1>5, <1>8, <2>1, StepSequences
 <2>2. ASSUME NEW l \in DOMAIN Updates, "W" \in Updates[l], send_buf' # << >>, Overlaps,
              pc' = [pc EXCEPT !["io"] = <<l>>]
       PROVE  UpdateInv'
  <3>1. /\ pc'["io"] = <<l>> /\ \A u \in Threads : u # "io" => pc'[u] = pc[u]
        /\ raced => raced'
    BY <1>2, <1>12, <2>2, BeginIs DEF Overlaps
  <3> QED BY <1>2, <1>12, <2>2, <3>1, UpdateKept
 <2> QED BY <1>13, <2>1, <2>2, SendGoes
<1>14. CASE Write
 <2>1. pc["io"] # << >> /\ Head(pc["io"]) \notin UpdateSteps
   BY <1>4, <1>14 DEF Write, At
 <2>2. CASE UNCHANGED raced /\ (Goto("io", << >>) \/ Disconnected)
   BY <1>6, <1>7, <1>8, <2>1, <2>2, StepSequences
 <2>3. ASSUME NEW l \in DOMAIN Updates, "W" \notin Updates[l], send_buf' = << >>, Overlaps,
              Goto("io", <<l>>)
       PROVE  UpdateInv'
  <3>1. raced => raced' BY <2>3 DEF Overlaps
  <3> QED BY <1>2, <1>12, <2>1, <2>3, <3>1, UpdateGoesOn
 <2> QED BY <1>14, <2>2, <2>3, WriteGoes
<1>15. CASE Read
 <2>1. /\ pc["io"] # << >> /\ Head(pc["io"]) \notin UpdateSteps
       /\ UNCHANGED raced /\ (Goto("io", << >>) \/ Disconnected)
   BY <1>4, <1>15 DEF Read, At
 <2> QED BY <1>6, <1>7, <1>8, <2>1, StepSequences
<1>16. CASE PostUpdate
 <2>1. PICK l \in DOMAIN Updates, k \in DOMAIN Stores : At("io", l) /\ Goto("io", <<k>>)
   BY <1>16, PostIs
 <2>2. /\ <<k>> \in Seq(Labels) /\ Fronted(<<k>>) /\ k \notin DOMAIN Updates
       /\ \A x : Has(<<k>>, x) <=> x = k
   BY UpdateLabels, StepSequences, FrontedSteps, WhatHas DEF UpdateSteps
 <2>3. pc["io"] # << >> /\ Updating("io") BY <2>1 DEF At, Updating
 <2>4. UNCHANGED raced BY <1>16 DEF PostUpdate
 <2> QED BY <1>2, <2>1, <2>2, <2>3, <2>4, UpdateGoesOn
<1>17. CASE SocketCb \/ TimerCb
  BY <1>2, <1>5, <1>8, <1>17, StepSequences DEF SocketCb, TimerCb, Attempt
<1>18. CASE StreamCb
 <2>1. pc' = [pc EXCEPT !["io"] = Phases(Head(evs).types)]
   BY <1>18 DEF StreamCb, Phases
 <2>2. /\ Phases(Head(evs).types) \in Seq(Labels)
       /\ \A l \in UpdateSteps : ~Has(Phases(Head(evs).types), l)
   BY <1>4, PhasesAre
 <2> QED BY <1>2, <1>5, <1>18, <2>1, <2>2 DEF StreamCb
<1>19. CASE AppConnect \/ AppStop \/ AppStart
  BY <1>2, <1>5, <1>8, <1>19, StepSequences DEF AppConnect, AppStop, AppStart, UserCall
<1>20. CASE epoll_wait \/ TakeTasks \/ NoHandler \/ \E m \in Messages : PostSend(m)
  BY <1>1, <1>20 DEF epoll_wait, TakeTasks, NoHandler, PostSend
<1>21. CASE ConnectEnds \/ PeerSends \/ PeerCloses \/ Drain \/ Expire
            \/ \E e \in NetErrors : Breaks(e)
  BY <1>1, <1>21 DEF ConnectEnds, PeerSends, PeerCloses, Drain, Expire, Breaks, Quietly
<1>22. CASE UNCHANGED vars BY <1>1, <1>22 DEF vars
<1> QED
  BY <1>2, <1>3, <1>9, <1>10, <1>11, <1>13, <1>14, <1>15, <1>16, <1>17, <1>18, <1>19,
     <1>20, <1>21, <1>22 DEF Next, IoStep, RunTask

LEMMA BasicsInductive == Basics /\ [Next]_vars => Basics'
  BY TypesInductive, InsertInductive, ErrorsInductive, UpdatesInductive DEF Basics

LEMMA BasicsInit == Init => Basics
<1> SUFFICES ASSUME Init PROVE Basics OBVIOUS
<1>0. /\ <<>> \in Seq(Messages) /\ <<>> \in Seq(1..MaxPeer)
      /\ <<>> \in Seq(Tasks) /\ <<>> \in Seq(Events)
  OBVIOUS
<1>1. ClientTypes BY <1>0 DEF Init, ClientTypes
<1>2. LoopTypes
 <2>1. pc \in [Threads -> Seq(Labels)] BY StepSequences DEF Init
 <2> QED BY <1>0, <2>1 DEF Init, LoopTypes
<1>3. KernelTypes BY Bounds DEF Init, KernelTypes, SkStates, Errors
<1>4. GhostTypes
 <2>1. calls \in 0..MaxCalls /\ peer \in 0..MaxPeer BY Bounds DEF Init
 <2> QED BY <1>0, <2>1 DEF Init, GhostTypes
<1>5. InsertInv BY DEF Init, InsertInv, In, Has, Threads
<1>6. ErrorInv BY DEF Init, ErrorInv
<1>7. UpdateInv BY DEF Init, UpdateInv, Fronted, In, At, Has, Updating, Threads
<1> QED BY <1>1, <1>2, <1>3, <1>4, <1>5, <1>6, <1>7 DEF Basics, Types

LEMMA BasicsAlways == Spec => []Basics
  BY BasicsInit, BasicsInductive, PTL DEF Spec

\* The variables keep their types, for every use of connect(), start() and
\* stop(): whatever two threads make of event_types_, it is one of the four
\* sets update_event is called with.
THEOREM TypesAreKept == Spec => []TypeOK
<1>1. Types => TypeOK
  BY DEF Types, ClientTypes, LoopTypes, KernelTypes, GhostTypes, TypeOK, Errors, Events, TypeSets
<1> QED BY <1>1, BasicsAlways, PTL DEF Basics

LEMMA Associative ==
  ASSUME NEW S, NEW a \in Seq(S), NEW b \in Seq(S), NEW c \in Seq(S)
  PROVE  (a \o b) \o c = a \o (b \o c)
  BY ConcatAssociative

\* The units that the kernel takes are the next ones.
LEMMA TransmitKeepsOrder ==
  ASSUME Types, NEW data \in Seq(Messages), Transmit(data)
  PROVE  sent' \o send_buf' = sent \o data
<1>1. PICK a, b \in Seq(Messages) :
        a = SubSeq(data, 1, Accepted(data)) /\ b = Rest(data) /\ a \o b = data
  BY SendTakes
<1>2. sent' = sent \o a /\ send_buf' = b /\ sent \in Seq(Messages)
  BY <1>1 DEF Transmit, Types, GhostTypes
<1>3. (sent \o a) \o b = sent \o (a \o b) BY <1>2, Associative
<1> QED BY <1>1, <1>2, <1>3

LEMMA SendOrderInductive == Basics /\ SendOrder /\ [Next]_vars => SendOrder'
<1> SUFFICES ASSUME Basics, SendOrder, [Next]_vars PROVE SendOrder' OBVIOUS
<1> USE DEF client, entry, kernel, ghosts
<1>1. CASE UNCHANGED <<lost, sent, send_buf, taken>> BY <1>1 DEF SendOrder
<1>2. Types /\ InsertInv BY DEF Basics
<1>3. /\ send_buf \in Seq(Messages) /\ taken \in Seq(Messages)
      /\ sent \in Seq(Messages) /\ exe \in Seq(Tasks)
  BY <1>2 DEF Types, ClientTypes, GhostTypes, LoopTypes
<1>4. ASSUME NEW t \in Threads, ThreadStep(t) PROVE SendOrder'
  BY <1>1, <1>4, CallFrame
<1>5. CASE EnableTask \/ DisableTask \/ EnableTimerTask \/ DisableTimerTask
           \/ ArmTask \/ SendTaskQueues
  BY <1>1, <1>5 DEF EnableTask, DisableTask, EnableTimerTask, DisableTimerTask,
       ArmTask, SendTaskQueues
<1>6. CASE Insert
 <2>1. exe # <<>> /\ Head(exe).op = "send"
   BY <1>2, <1>6, HeadIn DEF Insert, InsertInv, Threads
 <2>2. Head(exe).msg \in Messages BY <1>3, <2>1, HeadTask
 <2>3. PICK u \in Seq(Messages) : u = Units(Head(exe).msg) BY <2>2, UnitsType
 <2>4. /\ send_buf' = send_buf \o u /\ taken' = taken \o u
       /\ sent' = sent /\ lost' = lost
   BY <1>6, <2>3 DEF Insert
 <2>5. (sent \o send_buf) \o u = sent \o (send_buf \o u) BY <1>3, Associative
 <2> QED BY <2>4, <2>5 DEF SendOrder
<1>7. CASE SendTaskSends
 <2>1. exe # <<>> /\ Head(exe).op = "send" /\ send_buf = <<>>
   BY <1>7 DEF SendTaskSends, Running, MustQueue
 <2>2. Head(exe).msg \in Messages BY <1>3, <2>1, HeadTask
 <2>3. PICK u \in Seq(Messages) : u = Units(Head(exe).msg) BY <2>2, UnitsType
 <2>4. taken' = taken \o u BY <1>7, <2>3 DEF SendTaskSends
 <2>5. CASE lost' = TRUE BY <2>5 DEF SendOrder
 <2>6. CASE Transmit(u) /\ UNCHANGED lost
  <3>1. sent' \o send_buf' = sent \o u BY <1>2, <2>6, TransmitKeepsOrder
  <3>2. sent \o <<>> = sent BY <1>3
  <3> QED BY <2>1, <2>4, <2>6, <3>1, <3>2 DEF SendOrder
 <2> QED BY <1>7, <2>3, <2>5, <2>6 DEF SendTaskSends
<1>14. CASE PostUpdate BY <1>1, <1>14 DEF PostUpdate
<1>8. CASE Write
 <2>1. UNCHANGED <<taken, lost>> BY <1>8 DEF Write
 <2>2. CASE Transmit(send_buf)
  <3>1. sent' \o send_buf' = sent \o send_buf
    BY <1>2, <1>3, <2>2, TransmitKeepsOrder
  <3> QED BY <2>1, <3>1 DEF SendOrder
 <2>3. CASE UNCHANGED <<sent, send_buf>> BY <2>1, <2>3, <1>1
 <2> QED BY <1>8, <2>2, <2>3 DEF Write
<1>9. CASE Error \/ Closed
 <2>1. \/ UNCHANGED <<lost, sent, send_buf, taken>>
       \/ /\ lost' = (lost \/ send_buf # <<>>) /\ send_buf' = <<>>
          /\ UNCHANGED <<sent, taken>>
   BY <1>9 DEF Error, Closed
 <2> QED BY <1>1, <2>1 DEF SendOrder
<1>10. CASE epoll_wait \/ TakeTasks \/ NoHandler \/ SocketCb \/ TimerCb \/ StreamCb
            \/ Read \/ Split
  BY <1>1, <1>10 DEF epoll_wait, TakeTasks, NoHandler, SocketCb, TimerCb, StreamCb,
       Read, Split
<1>11. CASE AppConnect \/ AppStop \/ AppStart \/ \E m \in Messages : PostSend(m)
  BY <1>1, <1>11 DEF AppConnect, AppStop, AppStart, UserCall, PostSend
<1>12. CASE ConnectEnds \/ PeerSends \/ PeerCloses \/ Drain \/ Expire
            \/ \E e \in NetErrors : Breaks(e)
  BY <1>1, <1>12 DEF ConnectEnds, PeerSends, PeerCloses, Drain, Expire, Breaks, Quietly
<1>13. CASE UNCHANGED vars BY <1>1, <1>13 DEF vars
<1> QED
  BY <1>4, <1>5, <1>6, <1>7, <1>8, <1>9, <1>10, <1>11, <1>12, <1>13, <1>14
     DEF Next, IoStep, RunTask, Threads

\* What the application sends reaches the kernel in the order of the send
\* tasks, whole and once, as long as nothing was given up with a connection:
\* for every use of connect(), start() and stop(), on either thread.
THEOREM UnitsAreSentInOrder == Spec => []SendOrder
<1>1. Init => SendOrder
 <2>1. <<>> \o <<>> = <<>> OBVIOUS
 <2> QED BY <2>1 DEF Init, SendOrder
<1> QED BY <1>1, BasicsAlways, SendOrderInductive, PTL DEF Spec

----------------------------------------
\* A task is posted, or run.

\* The last task decides, if it is about the socket.
LEMMA TaskPosted ==
  ASSUME NEW s \in Seq(Tasks), NEW x \in Tasks, NEW q, q = s \o <<x>>,
         NEW c, NEW m, NEW types
  PROVE  /\ x.op \notin CbOps => (StreamAfter(q, c) <=> StreamAfter(s, c))
         /\ IsStream(x) => StreamAfter(q, c)
         /\ x.op \in CbOps /\ ~IsStream(x) => ~StreamAfter(q, c)
         /\ x.op \notin SockOps => (Untouched(q) <=> Untouched(s))
         /\ x.op \notin SockOps => (MaskAfter(q, m, types) <=> MaskAfter(s, m, types))
         /\ x.op \in {"enable", "update"} => MaskAfter(q, m, x.types)
         /\ x.op \in SockOps => ~Untouched(q)
<1>n. PICK n \in Nat : n = Len(s) OBVIOUS
<1>1. /\ q \in Seq(Tasks) /\ Len(q) = n + 1 /\ q[n + 1] = x
      /\ \A i \in 1..n : q[i] = s[i]
  BY <1>n
<1>2. DOMAIN q = 1..(n + 1) /\ DOMAIN s = 1..n BY <1>n, <1>1
<1>3. /\ \A i \in 1..(n + 1) : i \in 1..n \/ i = n + 1
      /\ \A i \in 1..n : i \in 1..(n + 1) /\ n + 1 > i
      /\ n + 1 \in 1..(n + 1) /\ \A i \in 1..(n + 1) : ~(i > n + 1)
  OBVIOUS
<1>4. ASSUME x.op \notin CbOps PROVE StreamAfter(q, c) <=> StreamAfter(s, c)
 <2>1. ~IsStream(x) BY <1>4 DEF IsStream, CbOps
 <2>2. (\A j \in DOMAIN q : q[j].op \notin CbOps)
         <=> (\A j \in DOMAIN s : s[j].op \notin CbOps)
   BY <1>1, <1>2, <1>3, <1>4
 <2>3. \A i \in 1..n : (\A j \in 1..(n + 1) : j > i => q[j].op \notin CbOps)
                         <=> (\A j \in 1..n : j > i => s[j].op \notin CbOps)
   BY <1>1, <1>3, <1>4
 <2>4. ASSUME StreamAfter(q, c) PROVE StreamAfter(s, c)
  <3>1. CASE c = "stream" /\ \A j \in DOMAIN q : q[j].op \notin CbOps
    BY <2>2, <3>1 DEF StreamAfter
  <3>2. ASSUME NEW i \in 1..(n + 1), IsStream(q[i]),
               \A j \in 1..(n + 1) : j > i => q[j].op \notin CbOps
        PROVE  StreamAfter(s, c)
   <4>1. i \in 1..n BY <1>1, <1>3, <2>1, <3>2
   <4>2. IsStream(s[i]) /\ \A j \in 1..n : j > i => s[j].op \notin CbOps
     BY <1>1, <2>3, <3>2, <4>1
   <4> QED BY <1>2, <4>1, <4>2 DEF StreamAfter
  <3> QED BY <1>2, <2>4, <3>1, <3>2 DEF StreamAfter
 <2>5. ASSUME StreamAfter(s, c) PROVE StreamAfter(q, c)
  <3>1. CASE c = "stream" /\ \A j \in DOMAIN s : s[j].op \notin CbOps
    BY <2>2, <3>1 DEF StreamAfter
  <3>2. ASSUME NEW i \in 1..n, IsStream(s[i]),
               \A j \in 1..n : j > i => s[j].op \notin CbOps
        PROVE  StreamAfter(q, c)
   <4>1. IsStream(q[i]) /\ i \in 1..(n + 1)
         /\ \A j \in 1..(n + 1) : j > i => q[j].op \notin CbOps
     BY <1>1, <1>3, <2>3, <3>2
   <4> QED BY <1>2, <4>1 DEF StreamAfter
  <3> QED BY <1>2, <2>5, <3>1, <3>2 DEF StreamAfter
 <2> QED BY <2>4, <2>5
<1>5. ASSUME IsStream(x) PROVE StreamAfter(q, c)
 <2>1. n + 1 \in DOMAIN q /\ IsStream(q[n + 1])
       /\ \A j \in DOMAIN q : j > n + 1 => q[j].op \notin CbOps
   BY <1>1, <1>2, <1>3, <1>5
 <2> QED BY <2>1 DEF StreamAfter
<1>6. ASSUME x.op \in CbOps, ~IsStream(x) PROVE ~StreamAfter(q, c)
 <2>1. \A i \in 1..(n + 1) : IsStream(q[i]) => n + 1 > i BY <1>1, <1>3, <1>6
 <2>2. n + 1 \in DOMAIN q /\ q[n + 1].op \in CbOps BY <1>1, <1>2, <1>3, <1>6
 <2> QED BY <1>2, <2>1, <2>2 DEF StreamAfter
<1>7. ASSUME x.op \notin SockOps PROVE Untouched(q) <=> Untouched(s)
  BY <1>1, <1>2, <1>3, <1>7 DEF Untouched
<1>8. ASSUME x.op \notin SockOps
      PROVE  MaskAfter(q, m, types) <=> MaskAfter(s, m, types)
 <2>1. x.op \notin {"enable", "update"} BY <1>8 DEF SockOps
 <2>3. \A i \in 1..n : (\A j \in 1..(n + 1) : j > i => q[j].op \notin SockOps)
                         <=> (\A j \in 1..n : j > i => s[j].op \notin SockOps)
   BY <1>1, <1>3, <1>8
 <2>4. ASSUME MaskAfter(q, m, types) PROVE MaskAfter(s, m, types)
  <3>1. CASE m = types /\ Untouched(q) BY <1>7, <1>8, <3>1 DEF MaskAfter
  <3>2. ASSUME NEW i \in 1..(n + 1), q[i].op \in {"enable", "update"},
               q[i].types = types,
               \A j \in 1..(n + 1) : j > i => q[j].op \notin SockOps
        PROVE  MaskAfter(s, m, types)
   <4>1. i \in 1..n BY <1>1, <1>3, <2>1, <3>2
   <4>2. s[i].op \in {"enable", "update"} /\ s[i].types = types
         /\ \A j \in 1..n : j > i => s[j].op \notin SockOps
     BY <1>1, <2>3, <3>2, <4>1
   <4> QED BY <1>2, <4>1, <4>2 DEF MaskAfter
  <3> QED BY <1>2, <2>4, <3>1, <3>2 DEF MaskAfter
 <2>5. ASSUME MaskAfter(s, m, types) PROVE MaskAfter(q, m, types)
  <3>1. CASE m = types /\ Untouched(s) BY <1>7, <1>8, <3>1 DEF MaskAfter
  <3>2. ASSUME NEW i \in 1..n, s[i].op \in {"enable", "update"},
               s[i].types = types,
               \A j \in 1..n : j > i => s[j].op \notin SockOps
        PROVE  MaskAfter(q, m, types)
   <4>1. q[i].op \in {"enable", "update"} /\ q[i].types = types
         /\ i \in 1..(n + 1)
         /\ \A j \in 1..(n + 1) : j > i => q[j].op \notin SockOps
     BY <1>1, <1>3, <2>3, <3>2
   <4> QED BY <1>2, <4>1 DEF MaskAfter
  <3> QED BY <1>2, <2>5, <3>1, <3>2 DEF MaskAfter
 <2> QED BY <2>4, <2>5
<1>9. ASSUME x.op \in {"enable", "update"} PROVE MaskAfter(q, m, x.types)
 <2>1. n + 1 \in DOMAIN q /\ q[n + 1].op \in {"enable", "update"}
       /\ q[n + 1].types = x.types
       /\ \A j \in DOMAIN q : j > n + 1 => q[j].op \notin SockOps
   BY <1>1, <1>2, <1>3, <1>9
 <2> QED BY <2>1 DEF MaskAfter
<1>10. ASSUME x.op \in SockOps PROVE ~Untouched(q)
  BY <1>1, <1>2, <1>3, <1>10 DEF Untouched
<1> QED BY <1>4, <1>5, <1>6, <1>7, <1>8, <1>9, <1>10

LEMMA TaskRun ==
  ASSUME NEW s \in Seq(Tasks), s # <<>>, NEW c, NEW m, NEW types
  PROVE  /\ StreamAfter(s, c) <=> StreamAfter(Tail(s), CbRun(s[1], c))
         /\ s[1].op \notin SockOps => (Untouched(Tail(s)) <=> Untouched(s))
         /\ s[1].op \notin SockOps /\ MaskAfter(s, m, types) =>
              MaskAfter(Tail(s), m, types)
         /\ s[1].op = "disable" /\ MaskAfter(s, m, types) =>
              ~Untouched(Tail(s)) /\ \A k : MaskAfter(Tail(s), k, types)
         /\ s[1].op \in {"enable", "update"} /\ MaskAfter(s, m, types) =>
              MaskAfter(Tail(s), s[1].types, types)
         /\ s[1].op = "disable" => ~(StreamAfter(s, c) /\ Untouched(Tail(s)))
<1>n. PICK n \in Nat : n = Len(s) /\ n > 0 OBVIOUS
<1>1. PICK r \in Seq(Tasks) : r = Tail(s)
 <2>1. Tail(s) \in Seq(Tasks) BY HeadTailProperties
 <2> QED BY <2>1
<1>2. Len(r) = n - 1 /\ \A i \in 1..(n - 1) : r[i] = s[i + 1] BY <1>n, <1>1
<1>3. DOMAIN s = 1..n /\ DOMAIN r = 1..(n - 1) BY <1>n, <1>2
<1>4. /\ \A i \in 1..n : i = 1 \/ (i > 1 /\ i - 1 \in 1..(n - 1) /\ (i - 1) + 1 = i)
      /\ \A i \in 1..(n - 1) : i + 1 \in 1..n /\ i + 1 > 1
      /\ 1 \in 1..n
  BY <1>n
\* The tasks after the first, in either numbering.
<1>5. \A i \in 1..n : i > 1 => r[i - 1] = s[i] BY <1>2, <1>4
<1>6. ASSUME NEW Ops
      PROVE  /\ (\A j \in 1..(n - 1) : r[j].op \notin Ops)
                  <=> (\A j \in 1..n : j > 1 => s[j].op \notin Ops)
             /\ \A i \in 1..(n - 1) :
                  (\A j \in 1..(n - 1) : j > i => r[j].op \notin Ops)
                    <=> (\A j \in 1..n : j > i + 1 => s[j].op \notin Ops)
 <2>1. (\A j \in 1..(n - 1) : r[j].op \notin Ops)
         <=> (\A j \in 1..n : j > 1 => s[j].op \notin Ops)
  <3>1. ASSUME \A j \in 1..(n - 1) : r[j].op \notin Ops, NEW j \in 1..n, j > 1
        PROVE  s[j].op \notin Ops
   <4>1. j - 1 \in 1..(n - 1) BY <3>1
   <4> QED BY <1>5, <3>1, <4>1
  <3>2. ASSUME \A j \in 1..n : j > 1 => s[j].op \notin Ops, NEW j \in 1..(n - 1)
        PROVE  r[j].op \notin Ops
   <4>1. j + 1 \in 1..n /\ j + 1 > 1 OBVIOUS
   <4> QED BY <1>2, <3>2, <4>1
  <3> QED BY <3>1, <3>2
 <2>2. ASSUME NEW i \in 1..(n - 1)
       PROVE  (\A j \in 1..(n - 1) : j > i => r[j].op \notin Ops)
                <=> (\A j \in 1..n : j > i + 1 => s[j].op \notin Ops)
  <3>1. ASSUME \A j \in 1..(n - 1) : j > i => r[j].op \notin Ops,
               NEW j \in 1..n, j > i + 1
        PROVE  s[j].op \notin Ops
   <4>1. j > 1 /\ j - 1 \in 1..(n - 1) /\ j - 1 > i BY <3>1
   <4> QED BY <1>5, <3>1, <4>1
  <3>2. ASSUME \A j \in 1..n : j > i + 1 => s[j].op \notin Ops,
               NEW j \in 1..(n - 1), j > i
        PROVE  r[j].op \notin Ops
   <4>1. j + 1 \in 1..n /\ j + 1 > i + 1 BY <3>2
   <4> QED BY <1>2, <3>2, <4>1
  <3> QED BY <3>1, <3>2
 <2> QED BY <2>1, <2>2
<1>7. ASSUME NEW d
      PROVE  StreamAfter(r, d) <=>
               \/ d = "stream" /\ \A j \in 1..n : j > 1 => s[j].op \notin CbOps
               \/ \E i \in 1..n : /\ i > 1 /\ IsStream(s[i])
                                  /\ \A j \in 1..n : j > i => s[j].op \notin CbOps
 <2>1. ASSUME NEW i \in 1..(n - 1), IsStream(r[i]),
              \A j \in 1..(n - 1) : j > i => r[j].op \notin CbOps
       PROVE  \E k \in 1..n : /\ k > 1 /\ IsStream(s[k])
                              /\ \A j \in 1..n : j > k => s[j].op \notin CbOps
  <3>1. i + 1 \in 1..n /\ i + 1 > 1 /\ IsStream(s[i + 1]) BY <1>2, <1>4, <2>1
  <3>2. \A j \in 1..n : j > i + 1 => s[j].op \notin CbOps BY <1>6, <2>1
  <3> QED BY <3>1, <3>2
 <2>2. ASSUME NEW k \in 1..n, k > 1, IsStream(s[k]),
              \A j \in 1..n : j > k => s[j].op \notin CbOps
       PROVE  \E i \in 1..(n - 1) : /\ IsStream(r[i])
                /\ \A j \in 1..(n - 1) : j > i => r[j].op \notin CbOps
  <3>1. PICK i \in 1..(n - 1) : i + 1 = k
   <4>1. k - 1 \in 1..(n - 1) /\ (k - 1) + 1 = k BY <1>4, <2>2
   <4> QED BY <4>1
  <3>2. IsStream(r[i]) /\ \A j \in 1..(n - 1) : j > i => r[j].op \notin CbOps
    BY <1>2, <1>6, <2>2, <3>1
  <3> QED BY <3>2
 <2> QED BY <1>3, <1>6, <2>1, <2>2 DEF StreamAfter
<1>8. StreamAfter(s, c) <=> StreamAfter(r, CbRun(s[1], c))
 <2>1. s[1] \in Tasks /\ CbRun(s[1], c) =
         IF s[1].op = "enable" THEN s[1].cb
         ELSE IF s[1].op = "disable" THEN "none" ELSE c
   BY <1>3, <1>4 DEF CbRun
 <2>2. (\A j \in 1..n : s[j].op \notin CbOps) <=>
         s[1].op \notin CbOps /\ \A j \in 1..n : j > 1 => s[j].op \notin CbOps
   BY <1>4
 <2>3. StreamAfter(s, c) <=>
         \/ /\ c = "stream" /\ s[1].op \notin CbOps
            /\ \A j \in 1..n : j > 1 => s[j].op \notin CbOps
         \/ IsStream(s[1]) /\ \A j \in 1..n : j > 1 => s[j].op \notin CbOps
         \/ \E i \in 1..n : /\ i > 1 /\ IsStream(s[i])
                            /\ \A j \in 1..n : j > i => s[j].op \notin CbOps
   BY <1>3, <1>4, <2>2 DEF StreamAfter
 <2>4. CbRun(s[1], c) = "stream" <=>
         (c = "stream" /\ s[1].op \notin CbOps) \/ IsStream(s[1])
   BY <2>1 DEF CbOps, IsStream
 <2> QED BY <1>7, <2>3, <2>4
<1>9. Untouched(r) <=> \A j \in 1..n : j > 1 => s[j].op \notin SockOps
  BY <1>3, <1>6 DEF Untouched
<1>10. Untouched(s) <=> s[1].op \notin SockOps /\ Untouched(r)
  BY <1>3, <1>4, <1>9 DEF Untouched
<1>11. ASSUME NEW d
       PROVE  MaskAfter(r, d, types) <=>
                \/ d = types /\ Untouched(r)
                \/ \E i \in 1..n :
                     /\ i > 1 /\ s[i].op \in {"enable", "update"} /\ s[i].types = types
                     /\ \A j \in 1..n : j > i => s[j].op \notin SockOps
 <2>1. ASSUME NEW i \in 1..(n - 1), r[i].op \in {"enable", "update"},
              r[i].types = types,
              \A j \in 1..(n - 1) : j > i => r[j].op \notin SockOps
       PROVE  \E k \in 1..n :
                /\ k > 1 /\ s[k].op \in {"enable", "update"} /\ s[k].types = types
                /\ \A j \in 1..n : j > k => s[j].op \notin SockOps
  <3>1. i + 1 \in 1..n /\ i + 1 > 1 /\ s[i + 1] = r[i] BY <1>2, <1>4, <2>1
  <3>2. \A j \in 1..n : j > i + 1 => s[j].op \notin SockOps BY <1>6, <2>1
  <3> QED BY <2>1, <3>1, <3>2
 <2>2. ASSUME NEW k \in 1..n, k > 1, s[k].op \in {"enable", "update"},
              s[k].types = types,
              \A j \in 1..n : j > k => s[j].op \notin SockOps
       PROVE  \E i \in 1..(n - 1) :
                /\ r[i].op \in {"enable", "update"} /\ r[i].types = types
                /\ \A j \in 1..(n - 1) : j > i => r[j].op \notin SockOps
  <3>1. PICK i \in 1..(n - 1) : i + 1 = k
   <4>1. k - 1 \in 1..(n - 1) /\ (k - 1) + 1 = k BY <1>4, <2>2
   <4> QED BY <4>1
  <3>2. r[i] = s[k] /\ \A j \in 1..(n - 1) : j > i => r[j].op \notin SockOps
    BY <1>2, <1>6, <2>2, <3>1
  <3> QED BY <2>2, <3>2
 <2> QED BY <1>3, <2>1, <2>2 DEF MaskAfter
<1>12. MaskAfter(s, m, types) <=>
         \/ m = types /\ Untouched(s)
         \/ s[1].op \in {"enable", "update"} /\ s[1].types = types /\ Untouched(r)
         \/ \E i \in 1..n :
              /\ i > 1 /\ s[i].op \in {"enable", "update"} /\ s[i].types = types
              /\ \A j \in 1..n : j > i => s[j].op \notin SockOps
  BY <1>3, <1>4, <1>9 DEF MaskAfter
<1>13. \A i \in 1..n : i > 1 /\ s[i].op \in {"enable", "update"} => ~Untouched(r)
  BY <1>9 DEF SockOps
<1>14. \A i \in 1..n : i > 1 /\ IsStream(s[i]) => ~Untouched(r)
  BY <1>9 DEF SockOps, IsStream
<1>15. s[1].op = "disable" => ~(StreamAfter(r, CbRun(s[1], c)) /\ Untouched(r))
  BY <1>7, <1>14 DEF CbRun
<1>16. s[1].op = "disable" /\ MaskAfter(s, m, types) =>
         ~Untouched(r) /\ \A k : MaskAfter(r, k, types)
  BY <1>10, <1>11, <1>12, <1>13 DEF SockOps
<1>17. s[1].op \in {"enable", "update"} /\ MaskAfter(s, m, types) =>
         MaskAfter(r, s[1].types, types)
  BY <1>10, <1>11, <1>12 DEF SockOps
<1>18. s[1].op \notin SockOps /\ MaskAfter(s, m, types) => MaskAfter(r, m, types)
  BY <1>10, <1>11, <1>12 DEF SockOps
<1> QED BY <1>1, <1>8, <1>10, <1>15, <1>16, <1>17, <1>18

\* What waits after a post, after a batch was taken, and after a task has run.
LEMMA PendingPosted ==
  ASSUME Types, NEW x \in Tasks, exe' = exe, Post(<<x>>)
  PROVE  /\ Pending \in Seq(Tasks) /\ Pending' = Pending \o <<x>>
         /\ \A i \in DOMAIN Pending' :
              Pending'[i] = x \/ \E j \in DOMAIN Pending : Pending'[i] = Pending[j]
<1>1. exe \in Seq(Tasks) /\ queue \in Seq(Tasks) /\ <<x>> \in Seq(Tasks)
  BY DEF Types, LoopTypes
<1>2. (exe \o queue) \o <<x>> = exe \o (queue \o <<x>>) BY <1>1, Associative
<1>3. Pending \in Seq(Tasks) /\ Pending' = Pending \o <<x>>
  BY <1>1, <1>2 DEF Pending, Post
<1>4. PICK s \in Seq(Tasks) : s = Pending BY <1>3
<1>5. PICK q : q = s \o <<x>> OBVIOUS
<1>n. PICK n \in Nat : n = Len(s) OBVIOUS
<1>6. /\ q \in Seq(Tasks) /\ Len(q) = n + 1 /\ q[n + 1] = x
      /\ \A i \in 1..n : q[i] = s[i]
  BY <1>5, <1>n
<1>7. \A i \in 1..(n + 1) : i \in 1..n \/ i = n + 1 OBVIOUS
<1>8. \A i \in DOMAIN q : q[i] = x \/ \E j \in DOMAIN s : q[i] = s[j]
  BY <1>6, <1>7, <1>n
<1> QED BY <1>3, <1>4, <1>5, <1>8

LEMMA PendingTaken ==
  ASSUME Types, TakeTasks
  PROVE  Pending' = Pending /\ exe = <<>> /\ exe' = Pending /\ Pending \in Seq(Tasks)
<1>1. queue \in Seq(Tasks) /\ exe = <<>> /\ exe' = queue /\ queue' = <<>>
  BY DEF TakeTasks, Event, Types, LoopTypes
<1>2. <<>> \o queue = queue /\ queue \o <<>> = queue BY <1>1
<1> QED BY <1>1, <1>2 DEF Pending

LEMMA TailOfBoth ==
  ASSUME NEW S, NEW a \in Seq(S), a # <<>>, NEW b \in Seq(S)
  PROVE  /\ a \o b \in Seq(S) /\ a \o b # <<>> /\ (a \o b)[1] = Head(a)
         /\ Tail(a \o b) = Tail(a) \o b
<1>n. PICK n, k \in Nat : n = Len(a) /\ k = Len(b) /\ n > 0 OBVIOUS
<1>1. PICK s : s = a \o b OBVIOUS
<1>2. /\ s \in Seq(S) /\ Len(s) = n + k
      /\ \A i \in 1..(n + k) : s[i] = IF i <= n THEN a[i] ELSE b[i - n]
  BY <1>n, <1>1, ConcatProperties
<1>3. s # <<>> /\ s[1] = Head(a)
 <2>1. 1 \in 1..(n + k) /\ 1 <= n BY <1>n
 <2>2. s[1] = a[1] BY <1>2, <2>1
 <2>3. Head(a) = a[1] BY <1>n
 <2> QED BY <1>2, <1>n, <2>2, <2>3
<1>4. PICK r : r = Tail(a) OBVIOUS
<1>5. r \in Seq(S) /\ Len(r) = n - 1 /\ \A i \in 1..(n - 1) : r[i] = a[i + 1]
  BY <1>n, <1>4, HeadTailProperties
<1>6. PICK t : t = Tail(s) OBVIOUS
<1>7. t \in Seq(S) /\ Len(t) = n + k - 1 /\ \A i \in 1..(n + k - 1) : t[i] = s[i + 1]
  BY <1>2, <1>3, <1>6, HeadTailProperties
<1>8. PICK w : w = r \o b OBVIOUS
<1>9. /\ w \in Seq(S) /\ Len(w) = n + k - 1
      /\ \A i \in 1..(n + k - 1) : w[i] = IF i <= n - 1 THEN r[i] ELSE b[i - (n - 1)]
 <2>1. Len(r) + Len(b) = n + k - 1 BY <1>n, <1>5
 <2>2. /\ r \o b \in Seq(S) /\ Len(r \o b) = Len(r) + Len(b)
       /\ \A i \in 1..(Len(r) + Len(b)) :
            (r \o b)[i] = IF i <= Len(r) THEN r[i] ELSE b[i - Len(r)]
   BY <1>5, ConcatProperties
 <2> QED BY <1>5, <1>8, <2>1, <2>2
<1>10. ASSUME NEW i \in 1..(n + k - 1) PROVE w[i] = t[i]
 <2>1. i + 1 \in 1..(n + k) /\ (i + 1) - n = i - (n - 1) OBVIOUS
 <2>2. t[i] = s[i + 1] /\ s[i + 1] = IF i + 1 <= n THEN a[i + 1] ELSE b[(i + 1) - n]
   BY <1>2, <1>7, <2>1
 <2>3. CASE i <= n - 1
  <3>1. i \in 1..(n - 1) /\ i + 1 <= n BY <2>3
  <3> QED BY <1>5, <1>9, <2>2, <3>1
 <2>4. CASE ~(i <= n - 1)
  <3>1. ~(i + 1 <= n) BY <2>4
  <3> QED BY <1>9, <2>1, <2>2, <2>4, <3>1
 <2> QED BY <2>3, <2>4
<1>11. w = t BY <1>7, <1>9, <1>10, SeqEqual
<1> QED BY <1>1, <1>2, <1>3, <1>4, <1>6, <1>8, <1>11

LEMMA TailElements ==
  ASSUME NEW s \in Seq(Tasks), s # <<>>
  PROVE  /\ Tail(s) \in Seq(Tasks)
         /\ \A i \in DOMAIN Tail(s) : \E j \in DOMAIN s : Tail(s)[i] = s[j]
<1>n. PICK n \in Nat : n = Len(s) OBVIOUS
<1>1. /\ Tail(s) \in Seq(Tasks) /\ Len(Tail(s)) = n - 1
      /\ \A i \in 1..Len(Tail(s)) : Tail(s)[i] = s[i + 1]
  BY <1>n, HeadTailProperties
<1>2. DOMAIN Tail(s) = 1..(n - 1) /\ DOMAIN s = 1..n BY <1>1, <1>n
<1>3. \A i \in 1..(n - 1) : i + 1 \in 1..n OBVIOUS
<1> QED BY <1>1, <1>2, <1>3

LEMMA PendingRun ==
  ASSUME Types, exe # <<>>, exe' = Tail(exe), queue' = queue
  PROVE  /\ Pending \in Seq(Tasks) /\ Pending # <<>> /\ Pending' = Tail(Pending)
         /\ Pending' \in Seq(Tasks)
         /\ Pending[1] = Head(exe)
         /\ \A i \in DOMAIN Pending' : \E j \in DOMAIN Pending : Pending'[i] = Pending[j]
<1>1. exe \in Seq(Tasks) /\ queue \in Seq(Tasks) BY DEF Types, LoopTypes
<1>2. /\ exe \o queue \in Seq(Tasks) /\ exe \o queue # <<>>
      /\ (exe \o queue)[1] = Head(exe)
      /\ Tail(exe \o queue) = Tail(exe) \o queue
  BY <1>1, TailOfBoth
<1>3. /\ Pending \in Seq(Tasks) /\ Pending # <<>> /\ Pending[1] = Head(exe)
      /\ Pending' = Tail(Pending)
  BY <1>2 DEF Pending
<1> QED BY <1>3, TailElements

----------------------------------------
\* Before the connection is registered.

LEMMA PostedTask ==
  /\ \A types \in SUBSET EventTypes :
       /\ \A c \in {"connect", "stream"} :
            /\ Enable(c, types) \in Tasks /\ Enable(c, types).op = "enable"
            /\ Enable(c, types).cb = c /\ Enable(c, types).types = types
       /\ Update(types) \in Tasks /\ Update(types).op = "update"
       /\ Update(types).types = types
  /\ \A m \in Messages : Send(m) \in Tasks /\ Send(m).op = "send"
  /\ \A op \in {"disable", "enable timer", "disable timer", "arm"} :
       Plain(op) \in Tasks /\ Plain(op).op = op
<1>1. ASSUME NEW types \in SUBSET EventTypes, NEW c \in {"connect", "stream"}
      PROVE  /\ Enable(c, types) \in Tasks /\ Enable(c, types).op = "enable"
             /\ Enable(c, types).cb = c /\ Enable(c, types).types = types
  BY DEF Tasks, Enable
<1>2. ASSUME NEW types \in SUBSET EventTypes
      PROVE  /\ Update(types) \in Tasks /\ Update(types).op = "update"
             /\ Update(types).types = types
  BY DEF Tasks, Update
<1>3. ASSUME NEW m \in Messages
      PROVE  Send(m) \in Tasks /\ Send(m).op = "send"
  BY DEF Tasks, Send
<1>4. ASSUME NEW op \in {"disable", "enable timer", "disable timer", "arm"}
      PROVE  Plain(op) \in Tasks /\ Plain(op).op = op
  BY DEF Tasks, Plain
<1> QED BY <1>1, <1>2, <1>3, <1>4

\* Nothing but send tasks and the tasks of stop() are run or posted.
LEMMA FreshKept ==
  ASSUME Types, InsertInv, Fresh,
         \/ IoStep \/ \E m \in Messages : PostSend(m)
         \/ ConnectEnds \/ PeerSends \/ PeerCloses \/ Drain \/ Expire
         \/ \E e \in NetErrors : Breaks(e)
  PROVE  /\ Fresh' /\ UNCHANGED <<connected, outcome>> /\ pc'["app"] = pc["app"]
         /\ sk = "idle" => sk' = "idle"
<1> USE DEF client, entry, kernel, ghosts
<1> DEFINE Done == /\ Fresh' /\ UNCHANGED <<connected, outcome>>
                   /\ pc'["app"] = pc["app"] /\ (sk = "idle" => sk' = "idle")
<1>1. /\ cb = "none" /\ mask = {} /\ ~timer_on /\ ~started /\ connected # "Connected"
      /\ \A i \in DOMAIN Pending : Pending[i].op \in Harmless
      /\ pc["io"] \in {<<>>, <<"insert">>}
      /\ pc \in [Threads -> Seq(Labels)] /\ "app" \in Threads /\ "io" \in Threads
  BY DEF Fresh, Harmless, Types, LoopTypes, Threads
<1>2. ASSUME UNCHANGED <<connected, started, outcome, cb, mask, timer_on>>,
             sk = "idle" => sk' = "idle", pc'["app"] = pc["app"],
             pc'["io"] \in {<<>>, <<"insert">>},
             \A i \in DOMAIN Pending' : Pending'[i].op \in Harmless
      PROVE  Done
  BY <1>1, <1>2 DEF Fresh, Harmless
<1>3. exe # <<>> => Head(exe).op \in Harmless
 <2>1. exe \in Seq(Tasks) /\ queue \in Seq(Tasks) BY DEF Types, LoopTypes
 <2>2. exe # <<>> => /\ exe \o queue \in Seq(Tasks) /\ exe \o queue # <<>>
                     /\ (exe \o queue)[1] = Head(exe)
   BY <2>1, TailOfBoth
 <2>3. exe # <<>> => 1 \in DOMAIN (exe \o queue) BY <2>2
 <2> QED BY <1>1, <2>2, <2>3 DEF Pending
<1>4. ASSUME exe # <<>>, exe' = Tail(exe), queue' = queue
      PROVE  \A i \in DOMAIN Pending' : Pending'[i].op \in Harmless
  BY <1>1, <1>4, PendingRun
<1>5. ASSUME UNCHANGED <<exe, queue>>
      PROVE  \A i \in DOMAIN Pending' : Pending'[i].op \in Harmless
  BY <1>1, <1>5 DEF Pending
<1>6. ~ThreadStep("io")
 <2>1. SUFFICES ASSUME ThreadStep("io") PROVE FALSE OBVIOUS
 <2>2. pc["io"] # <<>> /\ Head(pc["io"]) \notin OwnSteps
   BY <1>1, <2>1, CallSteps
 <2>3. Head(<<"insert">>) = "insert" OBVIOUS
 <2> QED BY <1>1, <2>2, <2>3 DEF OwnSteps
<1>7. CASE RunTask
 <2>1. CASE EnableTask \/ EnableTimerTask \/ ArmTask
   BY <1>3, <2>1 DEF EnableTask, EnableTimerTask, ArmTask, Running, Harmless
 <2>2. CASE DisableTask \/ DisableTimerTask
  <3>1. exe # <<>> /\ exe' = Tail(exe)
        /\ UNCHANGED <<connected, started, outcome, queue, pc, sk>>
    BY <2>2 DEF DisableTask, DisableTimerTask, Running
  <3>2. cb' \in {cb, "none"} /\ mask' \in {mask, {}} /\ timer_on' \in {timer_on, FALSE}
    BY <2>2 DEF DisableTask, DisableTimerTask
  <3>3. UNCHANGED <<cb, mask, timer_on>>
   <4>1. timer_on = FALSE BY <1>1 DEF Types, LoopTypes
   <4>2. cb' = cb /\ mask' = mask BY <1>1, <3>2
   <4>3. timer_on' = timer_on BY <3>2, <4>1
   <4> QED BY <4>2, <4>3
  <3>4. \A i \in DOMAIN Pending' : Pending'[i].op \in Harmless BY <1>4, <3>1
  <3>5. pc'["app"] = pc["app"] /\ pc'["io"] \in {<<>>, <<"insert">>}
    BY <1>1, <3>1
  <3> QED BY <1>2, <3>1, <3>3, <3>4, <3>5
 <2>3. CASE SendTaskQueues
  <3>1. pc'["io"] = <<"insert">> /\ pc'["app"] = pc["app"]
    BY <1>1, <2>3 DEF SendTaskQueues
  <3> QED BY <1>2, <1>5, <2>3, <3>1 DEF SendTaskQueues
 <2>4. CASE Insert
  <3>1. exe # <<>> /\ pc["io"] = <<"insert">>
    BY <1>1, <2>4, HeadIn DEF Insert, InsertInv
  <3>2. /\ exe' = Tail(exe) /\ pc' = [pc EXCEPT !["io"] = <<>> \o Tail(pc["io"])]
        /\ UNCHANGED <<connected, started, outcome, queue, sk, entry>>
    BY <2>4 DEF Insert, Goto
  <3>3. <<>> \o Tail(<<"insert">>) = <<>> OBVIOUS
  <3>4. pc'["io"] = <<>> /\ pc'["app"] = pc["app"] BY <1>1, <3>1, <3>2, <3>3
  <3> QED BY <1>2, <1>4, <3>1, <3>2, <3>4
 <2>5. CASE SendTaskSends BY <1>1, <2>5 DEF SendTaskSends, MustQueue
 <2> QED BY <1>7, <2>1, <2>2, <2>3, <2>4, <2>5 DEF RunTask
<1>8. CASE epoll_wait
 <2>1. UNCHANGED <<connected, started, outcome, exe, queue, pc, sk, entry>>
   BY <1>8 DEF epoll_wait
 <2> QED BY <1>1, <1>2, <1>5, <2>1
<1>9. CASE TakeTasks
 <2>1. Pending' = Pending BY <1>9, PendingTaken
 <2> QED BY <1>1, <1>2, <1>9, <2>1 DEF TakeTasks
<1>10. CASE NoHandler BY <1>1, <1>2, <1>5, <1>10 DEF NoHandler
<1>11. CASE SocketCb \/ TimerCb \/ StreamCb
  BY <1>1, <1>11 DEF SocketCb, TimerCb, StreamCb
<1>12. CASE Read \/ Write \/ PostUpdate \/ Error \/ Split \/ Closed
 <2>1. pc["io"] # <<>> /\ Head(pc["io"]) # "insert"
   BY <1>12, UpdateLabels DEF Read, Write, PostUpdate, Error, Split, Closed, At
 <2>2. Head(<<"insert">>) = "insert" OBVIOUS
 <2> QED BY <1>1, <2>1, <2>2
<1>13. ASSUME NEW m \in Messages, PostSend(m) PROVE Done
 <2>1. Send(m) \in Tasks /\ Send(m).op = "send" BY PostedTask
 <2>2. /\ Post(<<Send(m)>>)
       /\ UNCHANGED <<connected, started, outcome, exe, pc, sk, entry>>
   BY <1>13 DEF PostSend
 <2>3. \A i \in DOMAIN Pending' :
         Pending'[i] = Send(m) \/ \E j \in DOMAIN Pending : Pending'[i] = Pending[j]
   BY <2>1, <2>2, PendingPosted
 <2>4. \A i \in DOMAIN Pending' : Pending'[i].op \in Harmless
   BY <1>1, <2>1, <2>3 DEF Harmless
 <2> QED BY <1>1, <1>2, <2>2, <2>4
<1>14. CASE ConnectEnds \/ PeerSends \/ PeerCloses \/ Drain \/ Expire
            \/ \E e \in NetErrors : Breaks(e)
 <2>1. /\ UNCHANGED <<connected, started, outcome, exe, queue, pc, entry>>
       /\ sk = "idle" => sk' = "idle"
   BY <1>14 DEF ConnectEnds, PeerSends, PeerCloses, Drain, Expire, Breaks, Quietly
 <2> QED BY <1>1, <1>2, <1>5, <2>1
<1> QED BY <1>6, <1>7, <1>8, <1>9, <1>10, <1>11, <1>12, <1>13, <1>14 DEF IoStep

LEMMA Joined ==
  ASSUME NEW S, NEW a \in S, NEW b \in S, NEW c \in S
  PROVE  /\ <<a>> \o <<b>> = <<a, b>> /\ <<a, b>> \o <<c>> = <<a, b, c>>
         /\ <<a>> \o <<b, c>> = <<a, b, c>>
<1>1. /\ <<a>> \in Seq(S) /\ <<b>> \in Seq(S) /\ <<c>> \in Seq(S)
      /\ <<a, b>> \in Seq(S) /\ <<b, c>> \in Seq(S) /\ <<a, b, c>> \in Seq(S)
  OBVIOUS
<1>2. <<a>> \o <<b>> = <<a, b>>
 <2>1. PICK w : w = <<a>> \o <<b>> OBVIOUS
 <2>2. w \in Seq(S) /\ Len(w) = 2 BY <1>1, <2>1, ConcatProperties
 <2>3. w[1] = a /\ w[2] = b BY <1>1, <2>1
 <2>4. \A i \in 1..2 : i = 1 \/ i = 2 OBVIOUS
 <2>5. \A i \in 1..Len(w) : w[i] = <<a, b>>[i] BY <2>2, <2>3, <2>4
 <2>6. Len(<<a, b>>) = 2 OBVIOUS
 <2> QED BY <1>1, <2>1, <2>2, <2>5, <2>6, SeqEqual
<1>3. <<a, b>> \o <<c>> = <<a, b, c>>
 <2>1. PICK w : w = <<a, b>> \o <<c>> OBVIOUS
 <2>2. w \in Seq(S) /\ Len(w) = 3 BY <1>1, <2>1, ConcatProperties
 <2>3. w[1] = a /\ w[2] = b /\ w[3] = c BY <1>1, <2>1
 <2>4. \A i \in 1..3 : i = 1 \/ i = 2 \/ i = 3 OBVIOUS
 <2>5. \A i \in 1..Len(w) : w[i] = <<a, b, c>>[i] BY <2>2, <2>3, <2>4
 <2>6. Len(<<a, b, c>>) = 3 OBVIOUS
 <2> QED BY <1>1, <2>1, <2>2, <2>5, <2>6, SeqEqual
<1>4. <<a>> \o <<b, c>> = <<a, b, c>>
 <2>1. PICK w : w = <<a>> \o <<b, c>> OBVIOUS
 <2>2. w \in Seq(S) /\ Len(w) = 3 BY <1>1, <2>1, ConcatProperties
 <2>3. w[1] = a /\ w[2] = b /\ w[3] = c BY <1>1, <2>1
 <2>4. \A i \in 1..3 : i = 1 \/ i = 2 \/ i = 3 OBVIOUS
 <2>5. \A i \in 1..Len(w) : w[i] = <<a, b, c>>[i] BY <2>2, <2>3, <2>4
 <2>6. Len(<<a, b, c>>) = 3 OBVIOUS
 <2> QED BY <1>1, <2>1, <2>2, <2>5, <2>6, SeqEqual
<1> QED BY <1>2, <1>3, <1>4

\* The stacks of an attempt on the application's thread, and how they go on.
LEMMA AttemptStacks ==
  /\ <<"syscall">> \o Tail(<<"cas">>) = <<"syscall">>
  /\ << >> \o Tail(<<"cas">>) = << >>
  /\ InProgress \o Tail(<<"syscall">>) = InProgress
  /\ <<"connected", "start">> \o Tail(<<"syscall">>) = <<"connected", "start">>
  /\ <<"refuse", "disconnected">> \o Tail(<<"syscall">>) = <<"refuse", "disconnected">>
  /\ <<"stop", "callback">> \o Tail(<<"refuse", "disconnected">>)
       = <<"stop", "callback", "disconnected">>
  /\ <<"stop post">> \o Tail(<<"stop", "callback", "disconnected">>)
       = <<"stop post", "callback", "disconnected">>
  /\ << >> \o Tail(<<"stop post", "callback", "disconnected">>)
       = <<"callback", "disconnected">>
  /\ << >> \o Tail(<<"callback", "disconnected">>) = <<"disconnected">>
  /\ <<"cas">> \o Tail(<<"callback", "disconnected">>) = <<"cas", "disconnected">>
  /\ << >> \o Tail(<<"cas", "disconnected">>) = <<"disconnected">>
  /\ << >> \o Tail(<<"disconnected">>) = << >>
<1>1. <<"syscall">> \o Tail(<<"cas">>) = <<"syscall">> OBVIOUS
<1>2. << >> \o Tail(<<"cas">>) = << >> OBVIOUS
<1>3. InProgress \o Tail(<<"syscall">>) = InProgress
 <2>1. Tail(<<"syscall">>) = << >> OBVIOUS
 <2>2. InProgress \in Seq(Labels) BY StepSequences
 <2> QED BY <2>1, <2>2
<1>4. <<"connected", "start">> \o Tail(<<"syscall">>) = <<"connected", "start">>
  OBVIOUS
<1>5. <<"refuse", "disconnected">> \o Tail(<<"syscall">>) = <<"refuse", "disconnected">>
  OBVIOUS
<1>6. <<"stop", "callback">> \o Tail(<<"refuse", "disconnected">>)
       = <<"stop", "callback", "disconnected">>
 <2>1. Tail(<<"refuse", "disconnected">>) = <<"disconnected">> OBVIOUS
 <2>2. \A a, b, c \in Labels : <<a, b>> \o <<c>> = <<a, b, c>> BY Joined
 <2>3. <<"stop", "callback">> \o <<"disconnected">> = <<"stop", "callback", "disconnected">>
   BY <2>2 DEF Labels
 <2> QED BY <2>1, <2>3
<1>7. <<"stop post">> \o Tail(<<"stop", "callback", "disconnected">>)
       = <<"stop post", "callback", "disconnected">>
 <2>1. Tail(<<"stop", "callback", "disconnected">>) = <<"callback", "disconnected">>
   OBVIOUS
 <2>2. \A a, b, c \in Labels : <<a>> \o <<b, c>> = <<a, b, c>> BY Joined
 <2>3. <<"stop post">> \o <<"callback", "disconnected">> = <<"stop post", "callback", "disconnected">>
   BY <2>2 DEF Labels
 <2> QED BY <2>1, <2>3
<1>8. << >> \o Tail(<<"stop post", "callback", "disconnected">>)
       = <<"callback", "disconnected">>
  OBVIOUS
<1>9. << >> \o Tail(<<"callback", "disconnected">>) = <<"disconnected">> OBVIOUS
<1>10. <<"cas">> \o Tail(<<"callback", "disconnected">>) = <<"cas", "disconnected">>
 <2>1. Tail(<<"callback", "disconnected">>) = <<"disconnected">> OBVIOUS
 <2>2. \A a, b \in Labels : <<a>> \o <<b>> = <<a, b>> BY Joined
 <2>3. <<"cas">> \o <<"disconnected">> = <<"cas", "disconnected">>
   BY <2>2 DEF Labels
 <2> QED BY <2>1, <2>3
<1>11. << >> \o Tail(<<"cas", "disconnected">>) = <<"disconnected">> OBVIOUS
<1>12. << >> \o Tail(<<"disconnected">>) = << >> OBVIOUS
<1> QED
  BY <1>1, <1>2, <1>3, <1>4, <1>5, <1>6, <1>7, <1>8, <1>9, <1>10, <1>11, <1>12

\* Both tasks of stop() are posted.
LEMMA TwoMore ==
  ASSUME NEW p \in Seq(Tasks), NEW x \in Tasks, NEW y \in Tasks
  PROVE  /\ p \o <<x>> \in Seq(Tasks) /\ p \o <<x, y>> \in Seq(Tasks)
         /\ p \o <<x, y>> = (p \o <<x>>) \o <<y>>
         /\ \A i \in DOMAIN (p \o <<x, y>>) :
              \/ (p \o <<x, y>>)[i] \in {x, y}
              \/ \E j \in DOMAIN p : (p \o <<x, y>>)[i] = p[j]
<1>n. PICK n \in Nat : n = Len(p) OBVIOUS
<1>1. PICK mid : mid = p \o <<x>> OBVIOUS
<1>2. /\ mid \in Seq(Tasks) /\ Len(mid) = n + 1 /\ mid[n + 1] = x
      /\ \A i \in 1..n : mid[i] = p[i]
  BY <1>1, <1>n
<1>3. PICK q : q = mid \o <<y>> OBVIOUS
<1>4. /\ q \in Seq(Tasks) /\ Len(q) = n + 2 /\ q[n + 2] = y
      /\ \A i \in 1..(n + 1) : q[i] = mid[i]
  BY <1>2, <1>3
<1>5. /\ \A i \in 1..(n + 2) : i \in 1..n \/ i = n + 1 \/ i = n + 2
      /\ \A i \in 1..n : i \in 1..(n + 1) /\ i \in DOMAIN p
      /\ n + 1 \in 1..(n + 1) /\ DOMAIN q = 1..(n + 2)
  BY <1>4, <1>n
<1>6. ASSUME NEW i \in DOMAIN q PROVE q[i] \in {x, y} \/ \E j \in DOMAIN p : q[i] = p[j]
  BY <1>2, <1>4, <1>5
<1>7. q = p \o <<x, y>>
 <2>1. <<x>> \in Seq(Tasks) /\ <<y>> \in Seq(Tasks) OBVIOUS
 <2>0. <<x>> \o <<y>> = <<x, y>> BY Joined
 <2>2. (p \o <<x>>) \o <<y>> = p \o (<<x>> \o <<y>>) BY <2>1, Associative
 <2> QED BY <1>1, <1>3, <2>0, <2>2
<1> QED BY <1>1, <1>2, <1>3, <1>4, <1>6, <1>7

LEMMA BothPosted ==
  ASSUME Types, NEW x \in Tasks, NEW y \in Tasks, exe' = exe, Post(<<x, y>>)
  PROVE  /\ Pending \in Seq(Tasks) /\ Pending \o <<x>> \in Seq(Tasks)
         /\ Pending' = (Pending \o <<x>>) \o <<y>>
         /\ \A i \in DOMAIN Pending' :
              Pending'[i] \in {x, y} \/ \E j \in DOMAIN Pending : Pending'[i] = Pending[j]
<1>1. PICK e, q \in Seq(Tasks) : e = exe /\ q = queue BY DEF Types, LoopTypes
<1>2. PICK b \in Seq(Tasks) : b = <<x, y>>
 <2>1. <<x, y>> \in Seq(Tasks) OBVIOUS
 <2> QED BY <2>1
<1>3. (e \o q) \o b = e \o (q \o b) BY <1>1, <1>2, Associative
<1>4. Pending = e \o q /\ Pending' = (e \o q) \o b
  BY <1>1, <1>2, <1>3 DEF Pending, Post
<1>5. PICK p \in Seq(Tasks) : p = Pending BY <1>1, <1>4, ConcatProperties
<1>7. /\ p \o <<x>> \in Seq(Tasks) /\ p \o <<x, y>> = (p \o <<x>>) \o <<y>>
      /\ \A i \in DOMAIN (p \o <<x, y>>) :
           \/ (p \o <<x, y>>)[i] \in {x, y}
           \/ \E j \in DOMAIN p : (p \o <<x, y>>)[i] = p[j]
  BY TwoMore
<1>6. /\ p \o <<x>> \in Seq(Tasks) /\ p \o b = (p \o <<x>>) \o <<y>>
      /\ \A i \in DOMAIN (p \o b) :
           (p \o b)[i] \in {x, y} \/ \E j \in DOMAIN p : (p \o b)[i] = p[j]
  BY <1>2, <1>7
<1> QED BY <1>4, <1>5, <1>6

\* A step of connect() that has not reached connect(2), or whose connect(2)
\* failed; in the last two cases connect(2) is the step.
LEMMA AttemptGoes ==
  ASSUME Types, Fresh, Attempting, sk = "idle", ThreadStep("app")
  PROVE  /\ Fresh' /\ (outcome' = "none" => outcome = "none")
         /\ pc["app"] = <<"cas">> => outcome' # "none" \/ pc'["app"] = <<>>
         /\ \/ sk' = "idle" /\ (pc'["app"] = <<>> \/ Attempting')
            \/ ~Immediate /\ pc'["app"] = InProgress
            \/ Immediate /\ pc'["app"] = <<"connected", "start">>
<1> USE DEF client, entry, kernel, ghosts
<1> DEFINE s == pc["app"]
           q == pc'["app"]
           Done == /\ Fresh' /\ (outcome' = "none" => outcome = "none")
                   /\ s = <<"cas">> => outcome' # "none" \/ q = <<>>
                   /\ \/ sk' = "idle" /\ (q = <<>> \/ Attempting')
                      \/ ~Immediate /\ q = InProgress
                      \/ Immediate /\ q = <<"connected", "start">>
<1>1. /\ pc \in [Threads -> Seq(Labels)] /\ "app" \in Threads /\ "io" \in Threads
      /\ connected # "Connected" /\ ~started
  BY DEF Types, LoopTypes, Threads, Fresh
<1>2. ASSUME NEW steps, Goto("app", steps)
      PROVE  q = steps \o Tail(s) /\ pc'["io"] = pc["io"]
  BY <1>1, <1>2 DEF Goto
<1>3. UNCHANGED <<cb, mask, timer_on, exe>> BY <1>1, CallFrame
<1>4. ASSUME connected' # "Connected", ~started', pc'["io"] = pc["io"],
             \A i \in DOMAIN Pending' : Pending'[i].op \in Harmless
      PROVE  Fresh'
  BY <1>3, <1>4 DEF Fresh, Harmless
<1>5. ASSUME UNCHANGED queue
      PROVE  \A i \in DOMAIN Pending' : Pending'[i].op \in Harmless
  BY <1>3, <1>5 DEF Pending, Fresh, Harmless
<1>6. /\ s \in {<<"cas">>} \cup Attempts
      /\ s # <<"cas">> => connected = "Connecting"
  BY DEF Attempting, Attempts
<1>7. /\ Head(<<"cas">>) = "cas" /\ Head(<<"syscall">>) = "syscall"
      /\ Head(<<"refuse", "disconnected">>) = "refuse"
      /\ Head(<<"stop", "callback", "disconnected">>) = "stop"
      /\ Head(<<"stop post", "callback", "disconnected">>) = "stop post"
      /\ Head(<<"callback", "disconnected">>) = "callback"
      /\ Head(<<"cas", "disconnected">>) = "cas"
      /\ Head(<<"disconnected">>) = "disconnected"
  OBVIOUS
<1>8. CASE ConnectIgnored("app") \/ ConnectBegins("app")
 <2>1. s = <<"cas">> \/ s = <<"cas", "disconnected">>
   BY <1>6, <1>7, <1>8 DEF ConnectIgnored, ConnectBegins, At, Attempts
 <2>2. CASE ConnectIgnored("app")
  <3>1. q = <<>> \o Tail(s) /\ pc'["io"] = pc["io"]
    BY <1>2, <2>2 DEF ConnectIgnored
  <3>2. UNCHANGED <<connected, started, outcome, queue, sk>>
    BY <2>2 DEF ConnectIgnored
  <3>3. Fresh' BY <1>1, <1>4, <1>5, <3>1, <3>2
  <3>4. CASE s = <<"cas">>
   <4>1. q = <<>> BY <3>1, <3>4, AttemptStacks
   <4> QED BY <3>2, <3>3, <4>1
  <3>5. CASE s = <<"cas", "disconnected">>
   <4>1. q = <<"disconnected">> BY <3>1, <3>5, AttemptStacks
   <4>2. s # <<"cas">> BY <3>5
   <4>3. connected' = "Connecting" BY <1>6, <3>2, <4>2
   <4> QED BY <3>2, <3>3, <4>1, <4>2, <4>3 DEF Attempting, Attempts
  <3> QED BY <2>1, <3>4, <3>5
 <2>3. CASE ConnectBegins("app")
  <3>1. s = <<"cas">>
   <4>1. connected = "Disconnected" BY <2>3 DEF ConnectBegins
   <4> QED BY <1>6, <4>1
  <3>2. q = <<"syscall">> \o Tail(<<"cas">>) /\ pc'["io"] = pc["io"]
    BY <1>2, <2>3, <3>1 DEF ConnectBegins
  <3>3. q = <<"syscall">> BY <3>2, AttemptStacks
  <3>4. /\ connected' = "Connecting" /\ outcome' = "connecting"
        /\ UNCHANGED <<started, queue, sk>>
    BY <2>3 DEF ConnectBegins
  <3>5. Fresh' BY <1>1, <1>4, <1>5, <3>2, <3>4
  <3>6. Attempting' BY <3>3, <3>4 DEF Attempting, Attempts
  <3> QED BY <3>3, <3>4, <3>5, <3>6
 <2> QED BY <1>8, <2>2, <2>3
<1>9. CASE Syscall("app")
 <2>1. s = <<"syscall">> BY <1>6, <1>7, <1>9 DEF Syscall, At, Attempts
 <2>2. UNCHANGED <<connected, started, outcome, queue>> /\ connected = "Connecting"
  <3>1. s # <<"cas">> BY <2>1
  <3> QED BY <1>6, <1>9, <3>1 DEF Syscall
 <2>3. CASE ~Immediate /\ Goto("app", InProgress)
  <3>1. q = InProgress /\ pc'["io"] = pc["io"]
    BY <1>2, <2>1, <2>3, AttemptStacks
  <3>2. s # <<"cas">> BY <2>1
  <3> QED BY <1>1, <1>4, <1>5, <2>2, <2>3, <3>1, <3>2
 <2>4. CASE Immediate /\ Goto("app", <<"connected", "start">>)
  <3>1. q = <<"connected", "start">> /\ pc'["io"] = pc["io"]
    BY <1>2, <2>1, <2>4, AttemptStacks
  <3>2. s # <<"cas">> BY <2>1
  <3> QED BY <1>1, <1>4, <1>5, <2>2, <2>4, <3>1, <3>2
 <2>5. CASE sk' = "idle" /\ Goto("app", <<"refuse", "disconnected">>)
  <3>1. q = <<"refuse", "disconnected">> /\ pc'["io"] = pc["io"]
    BY <1>2, <2>1, <2>5, AttemptStacks
  <3>2. Attempting' BY <2>2, <3>1 DEF Attempting, Attempts
  <3>3. s # <<"cas">> BY <2>1
  <3> QED BY <1>1, <1>4, <1>5, <2>2, <2>5, <3>1, <3>2, <3>3
 <2> QED BY <1>9, <2>3, <2>4, <2>5 DEF Syscall
<1>10. CASE SetDisconnected("app")
 <2>1. s = <<"disconnected">>
   BY <1>6, <1>7, <1>10 DEF SetDisconnected, At, Attempts
 <2>2. q = <<>> \o Tail(s) /\ pc'["io"] = pc["io"] /\ connected' = "Disconnected"
       /\ UNCHANGED <<started, outcome, queue, sk>>
   BY <1>2, <1>10 DEF SetDisconnected
 <2>3. q = <<>> BY <2>1, <2>2, AttemptStacks
 <2> QED BY <1>1, <1>4, <1>5, <2>2, <2>3
<1>11. CASE OnError("app")
 <2>1. s = <<"refuse", "disconnected">> /\ At("app", "refuse") /\ ~At("app", "fail")
   BY <1>6, <1>7, <1>11 DEF OnError, At, Attempts
 <2>2. /\ q = <<"stop", "callback">> \o Tail(s) /\ pc'["io"] = pc["io"]
       /\ UNCHANGED <<connected, started, outcome, queue, sk>>
   BY <1>2, <1>11, <2>1 DEF OnError
 <2>3. q = <<"stop", "callback", "disconnected">> BY <2>1, <2>2, AttemptStacks
 <2>4. s # <<"cas">> BY <2>1
 <2>5. Attempting' BY <1>6, <2>2, <2>3, <2>4 DEF Attempting, Attempts
 <2> QED BY <1>1, <1>4, <1>5, <2>2, <2>4, <2>5
<1>12. CASE Stop("app")
 <2>1. s = <<"stop", "callback", "disconnected">>
   BY <1>6, <1>7, <1>12 DEF Stop, At, Attempts
 <2>2. /\ q = <<"stop post">> \o Tail(s) /\ pc'["io"] = pc["io"] /\ started' = FALSE
       /\ UNCHANGED <<connected, outcome, queue, sk>>
   BY <1>2, <1>12 DEF Stop
 <2>3. q = <<"stop post", "callback", "disconnected">>
   BY <2>1, <2>2, AttemptStacks
 <2>4. s # <<"cas">> BY <2>1
 <2>5. Attempting' BY <1>6, <2>2, <2>3, <2>4 DEF Attempting, Attempts
 <2> QED BY <1>1, <1>4, <1>5, <2>2, <2>4, <2>5
<1>13. CASE StopPost("app")
 <2>1. s = <<"stop post", "callback", "disconnected">>
   BY <1>6, <1>7, <1>13 DEF StopPost, At, Attempts
 <2>2. /\ q = <<>> \o Tail(s) /\ pc'["io"] = pc["io"]
       /\ queue' = queue \o <<Plain("disable"), Plain("disable timer")>>
       /\ UNCHANGED <<connected, started, outcome, sk>>
   BY <1>2, <1>13 DEF StopPost, Post
 <2>3. q = <<"callback", "disconnected">> BY <2>1, <2>2, AttemptStacks
 <2>4. s # <<"cas">> BY <1>7, <2>1
 <2>5. Attempting' BY <1>6, <2>2, <2>3, <2>4 DEF Attempting, Attempts
 <2>6. /\ Plain("disable") \in Tasks /\ Plain("disable").op = "disable"
       /\ Plain("disable timer") \in Tasks
       /\ Plain("disable timer").op = "disable timer"
   BY PostedTask
 <2>7. \A i \in DOMAIN Pending' :
         \/ Pending'[i] \in {Plain("disable"), Plain("disable timer")}
         \/ \E j \in DOMAIN Pending : Pending'[i] = Pending[j]
   BY <1>3, <2>2, <2>6, BothPosted DEF Post
 <2>8. \A i \in DOMAIN Pending' : Pending'[i].op \in Harmless
   BY <2>6, <2>7 DEF Fresh, Harmless
 <2> QED BY <1>1, <1>4, <2>2, <2>4, <2>5, <2>8
<1>14. CASE Callback("app")
 <2>1. s = <<"callback", "disconnected">>
   BY <1>6, <1>7, <1>14 DEF Callback, At, Attempts
 <2>2. /\ q \in {<<>> \o Tail(s), <<"cas">> \o Tail(s)} /\ pc'["io"] = pc["io"]
       /\ outcome' # "none"
       /\ UNCHANGED <<connected, started, queue, sk>>
   BY <1>2, <1>14 DEF Callback
 <2>3. q \in {<<"disconnected">>, <<"cas", "disconnected">>}
   BY <2>1, <2>2, AttemptStacks
 <2>4. s # <<"cas">> BY <2>1
 <2>5. Attempting' BY <1>6, <2>2, <2>3, <2>4 DEF Attempting, Attempts
 <2> QED BY <1>1, <1>4, <1>5, <2>2, <2>4, <2>5
<1>15. CASE \/ SetConnected("app") \/ WatchSock("app") \/ PostTimer("app")
            \/ Start("app") \/ SetStarted("app") \/ StartTest("app") \/ StartPost("app")
  BY <1>6, <1>7, <1>15
  DEF SetConnected, WatchSock, PostTimer, Start, SetStarted, StartTest, StartPost, At, Attempts
<1>16. CASE StoreTypes("app")
 <2>1. Head(s) \notin DOMAIN Stores BY <1>6, <1>7, UpdateLabels DEF Attempts
 <2> QED BY <1>16, <2>1 DEF StoreTypes, At
<1> QED
  BY <1>8, <1>9, <1>10, <1>11, <1>12, <1>13, <1>14, <1>15, <1>16 DEF ThreadStep

----------------------------------------
\* The stack of the io thread keeps its shape.

LEMMA StackShaped ==
  ASSUME NEW s \in Seq(Labels), s # <<>>, Shaped(s),
         NEW steps \in Seq(Labels), Shaped(steps),
         steps # <<>> => \A l \in Labels : Head(s) \in Before(l) =>
                           steps[Len(steps)] \in Before(l)
  PROVE  LET q == steps \o Tail(s)
         IN /\ Shaped(q)
            /\ Len(s) > 1 => q # <<>> /\ q[Len(q)] = s[Len(s)]
            /\ steps = <<>> /\ q # <<>> =>
                 Len(s) > 1 /\ Head(q) = s[2] /\ Head(s) \in Before(Head(q))
<1>1. PICK q : q = steps \o Tail(s) OBVIOUS
<1>2. /\ s[1] = Head(s) /\ q \in Seq(Labels) /\ Len(q) = Len(steps) + Len(s) - 1
      /\ \A i \in 1..Len(steps) : q[i] = steps[i]
      /\ \A i \in 2..Len(s) : q[Len(steps) + i - 1] = s[i]
  BY <1>1, Stacked
<1>n. PICK n, k \in Nat : n = Len(s) /\ k = Len(steps) /\ n > 0 OBVIOUS
<1>3. /\ Len(q) = k + n - 1 /\ DOMAIN q = 1..(k + n - 1) /\ DOMAIN s = 1..n
      /\ DOMAIN steps = 1..k
      /\ \A i \in 1..k : q[i] = steps[i]
      /\ \A i \in 2..n : q[k + i - 1] = s[i]
  BY <1>2, <1>n
<1>4. ASSUME NEW i \in 1..(k + n - 1), i > 1 PROVE q[i - 1] \in Before(q[i])
 <2>1. CASE i <= k
  <3>1. i \in 1..k /\ i - 1 \in 1..k BY <1>4, <2>1
  <3> QED BY <1>3, <1>4, <3>1 DEF Shaped
 <2>2. CASE i > k + 1
  <3>1. PICK j \in 2..n : j = i - k + 1 /\ j > 2
   <4>1. i - k + 1 \in 2..n /\ i - k + 1 > 2 BY <1>4, <2>2
   <4> QED BY <4>1
  <3>2. /\ k + j - 1 = i /\ j - 1 \in 2..n /\ k + (j - 1) - 1 = i - 1
        /\ j \in 1..n /\ j > 1
    BY <3>1
  <3>3. q[i] = s[j] /\ q[i - 1] = s[j - 1] BY <1>3, <3>2
  <3> QED BY <1>3, <3>2, <3>3 DEF Shaped
 <2>3. CASE i = k + 1
  <3>1. k # 0 /\ k \in 1..k /\ 2 \in 2..n /\ k + 2 - 1 = i /\ i - 1 = k /\ n > 1
    BY <1>4, <2>3
  <3>2. q[i] = s[2] /\ q[i - 1] = steps[k] BY <1>3, <3>1
  <3>3. steps # <<>> BY <1>n, <3>1
  <3>4. 2 \in 1..n /\ 2 - 1 = 1 /\ 2 > 1 BY <3>1
  <3>5. s[1] \in Before(s[2]) /\ s[2] \in Labels
   <4>1. s[2 - 1] \in Before(s[2]) BY <1>3, <3>4 DEF Shaped
   <4>2. s[2] \in Labels BY <1>3, <3>4
   <4> QED BY <3>4, <4>1, <4>2
  <3> QED BY <1>2, <1>n, <3>2, <3>3, <3>5
 <2> QED BY <1>4, <2>1, <2>2, <2>3
<1>5. ASSUME n > 1 PROVE q # <<>> /\ q[Len(q)] = s[n]
 <2>1. n \in 2..n BY <1>5
 <2>2. q[k + n - 1] = s[n] BY <1>3, <2>1
 <2>3. k + n - 1 > 0 BY <1>5
 <2> QED BY <1>2, <1>3, <2>2, <2>3
<1>6. ASSUME steps = <<>>, q # <<>> PROVE n > 1 /\ Head(q) = s[2] /\ Head(s) \in Before(Head(q))
 <2>1. k = 0 /\ n > 1 BY <1>2, <1>3, <1>n, <1>6
 <2>2. 2 \in 2..n /\ k + 2 - 1 = 1 /\ 2 \in 1..n /\ 2 > 1 /\ 2 - 1 = 1 BY <2>1
 <2>3. q[1] = s[2] /\ Head(q) = q[1] BY <1>2, <1>3, <1>6, <2>2
 <2>4. s[2 - 1] \in Before(s[2]) BY <1>3, <2>2 DEF Shaped
 <2> QED BY <1>2, <2>1, <2>2, <2>3, <2>4
<1> QED BY <1>1, <1>3, <1>4, <1>5, <1>6, <1>n DEF Shaped

\* The io thread's stack after a step that does not put a phase on it.
LEMMA IoGoes ==
  ASSUME pc \in [Threads -> Seq(Labels)], pc["io"] # <<>>, Shaped(pc["io"]), PhasesEnd,
         NEW steps \in Seq(Labels), Goto("io", steps), Shaped(steps),
         \A l \in {"read", "write", "error"} : ~Has(steps, l),
         steps # <<>> => \A l \in Labels : Head(pc["io"]) \in Before(l) =>
                           steps[Len(steps)] \in Before(l)
  PROVE  /\ Shaped(pc'["io"]) /\ PhasesEnd' /\ pc'["app"] = pc["app"]
         /\ \A l : At("io", l)' =>
              \/ steps # <<>> /\ l = steps[1]
              \/ steps = <<>> /\ Head(pc["io"]) \in Before(l) /\ In("io", l)
         /\ \A l : In("io", l)' => Has(steps, l) \/ In("io", l)
         /\ \A l : Has(steps, l) \/ (In("io", l) /\ Head(pc["io"]) # l) => In("io", l)'
<1>0. "io" \in Threads /\ "app" \in Threads /\ "app" # "io" BY DEF Threads
<1>1. PICK s \in Seq(Labels) : s = pc["io"] /\ s # <<>> /\ Shaped(s) BY <1>0
<1>2. /\ pc' \in [Threads -> Seq(Labels)] /\ pc'["io"] = steps \o Tail(s)
      /\ steps # <<>> => pc'["io"] # <<>> /\ Head(pc'["io"]) = steps[1]
      /\ \A l : In("io", l)' => Has(steps, l) \/ In("io", l)
      /\ \A l : Has(steps, l) \/ (In("io", l) /\ Head(s) # l) => In("io", l)'
      /\ pc'["app"] = pc["app"]
  BY <1>0, <1>1, GotoIs
<1>3. PICK q : q = steps \o Tail(s) OBVIOUS
<1>4. /\ Shaped(q)
      /\ Len(s) > 1 => q # <<>> /\ q[Len(q)] = s[Len(s)]
      /\ steps = <<>> /\ q # <<>> =>
           Len(s) > 1 /\ Head(q) = s[2] /\ Head(s) \in Before(Head(q))
  BY <1>1, <1>3, StackShaped
<1>5. PhasesEnd'
 <2>1. SUFFICES ASSUME NEW l \in {"read", "write", "error"}, In("io", l)'
                PROVE  q[Len(q)] \in {"split", "closed"}
   BY <1>2, <1>3 DEF PhasesEnd
 <2>2. In("io", l) BY <1>2, <2>1
 <2>3. s[Len(s)] \in {"split", "closed"} BY <1>1, <2>1, <2>2 DEF PhasesEnd
 <2>4. PICK i \in DOMAIN s : s[i] = l BY <1>1, <2>2 DEF In, Has
 <2>5. Len(s) \in Nat /\ i \in 1..Len(s) /\ i # Len(s) BY <2>1, <2>3, <2>4
 <2>6. Len(s) > 1 BY <2>5
 <2> QED BY <1>4, <2>3, <2>6
<1>6. ASSUME NEW l, At("io", l)', ~(steps # <<>> /\ l = steps[1])
      PROVE  steps = <<>> /\ Head(pc["io"]) \in Before(l) /\ In("io", l)
 <2>1. q # <<>> /\ Head(q) = l /\ steps = <<>> BY <1>2, <1>3, <1>6 DEF At
 <2>2. Head(s) \in Before(l) /\ s[2] = l /\ Len(s) > 1 BY <1>4, <2>1
 <2>3. 2 \in DOMAIN s BY <2>2
 <2> QED BY <1>1, <2>1, <2>2, <2>3 DEF In, Has
<1> QED BY <1>1, <1>2, <1>3, <1>4, <1>5, <1>6

\* The steps that a step of a call is replaced by.
LEMMA Replaced ==
  /\ \A k \in Labels : Shaped(<< >>) /\ Shaped(<<k>>)
  /\ Shaped(InProgress) /\ Shaped(<<"refuse", "disconnected">>)
  /\ Shaped(<<"fail", "disconnected">>) /\ Shaped(<<"stop", "callback">>)
  /\ Shaped(Failure) /\ Shaped(Success)
  /\ \A l \in Labels :
       /\ "cas" \in Before(l) => "syscall" \in Before(l)
       /\ "syscall" \in Before(l) => "arm" \in Before(l) /\ "disconnected" \in Before(l)
       /\ \A k \in {"start", "set", "test", "watch RE", "watch RWE"} : k \notin Before(l)
       /\ "watch sock" \in Before(l) => "storeW" \in Before(l)
       /\ \A u \in UpdateSteps : "write" \in Before(l) => u \in Before(l)
       /\ \A u \in DOMAIN Updates, k \in DOMAIN Stores : u \in Before(l) => k \in Before(l)
       /\ "closed" \notin Before(l) /\ "insert" \notin Before(l)
       /\ "stop" \in Before(l) => "stop post" \in Before(l)
       /\ "fail" \in Before(l) => "stop" \in Before(l)
       /\ "refuse" \in Before(l) => "callback" \in Before(l)
       /\ "callback" \in Before(l) => "cas" \in Before(l)
       /\ "error" \in Before(l) => "refuse" \in Before(l)
<1>1. Shaped(<< >>) /\ \A k \in Labels : Shaped(<<k>>) BY DEF Shaped
<1>5. ASSUME NEW a, NEW b, a \in Before(b) PROVE Shaped(<<a, b>>)
 <2>1. DOMAIN <<a, b>> = 1..2 /\ <<a, b>>[1] = a /\ <<a, b>>[2] = b OBVIOUS
 <2>2. \A i \in 1..2 : i > 1 => i = 2 /\ i - 1 = 1 OBVIOUS
 <2> QED BY <1>5, <2>1, <2>2 DEF Shaped
<1>6. ASSUME NEW a, NEW b, NEW c, a \in Before(b), b \in Before(c)
      PROVE  Shaped(<<a, b, c>>)
 <2>1. DOMAIN <<a, b, c>> = 1..3 /\ <<a, b, c>>[1] = a /\ <<a, b, c>>[2] = b
       /\ <<a, b, c>>[3] = c
   OBVIOUS
 <2>2. \A i \in 1..3 : i > 1 => (i = 2 /\ i - 1 = 1) \/ (i = 3 /\ i - 1 = 2)
   OBVIOUS
 <2> QED BY <1>6, <2>1, <2>2 DEF Shaped
<1>7. /\ "refuse" \in Before("disconnected") /\ "fail" \in Before("disconnected")
      /\ "stop" \in Before("callback")
      /\ "watch sock" \in Before("watch timer") /\ "watch timer" \in Before("arm")
      /\ "disconnected" \in Before("unwatch timer")
      /\ "connected" \in Before("unwatch timer")
      /\ "unwatch timer" \in Before("refuse") /\ "unwatch timer" \in Before("start")
  BY DEF Before, Chain
<1>2. Shaped(<<"refuse", "disconnected">>) /\ Shaped(<<"fail", "disconnected">>)
      /\ Shaped(<<"stop", "callback">>)
  BY <1>5, <1>7
<1>3. Shaped(InProgress) /\ Shaped(Failure) /\ Shaped(Success)
  BY <1>6, <1>7 DEF InProgress, Failure, Success
<1>4. ASSUME NEW l \in Labels
      PROVE  /\ "cas" \in Before(l) => "syscall" \in Before(l)
             /\ "syscall" \in Before(l) => "arm" \in Before(l) /\ "disconnected" \in Before(l)
             /\ \A k \in {"start", "set", "test", "watch RE", "watch RWE"} : k \notin Before(l)
             /\ "watch sock" \in Before(l) => "storeW" \in Before(l)
             /\ \A u \in UpdateSteps : "write" \in Before(l) => u \in Before(l)
             /\ \A u \in DOMAIN Updates, k \in DOMAIN Stores : u \in Before(l) => k \in Before(l)
             /\ "closed" \notin Before(l) /\ "insert" \notin Before(l)
             /\ "stop" \in Before(l) => "stop post" \in Before(l)
             /\ "fail" \in Before(l) => "stop" \in Before(l)
             /\ "refuse" \in Before(l) => "callback" \in Before(l)
             /\ "callback" \in Before(l) => "cas" \in Before(l)
             /\ "error" \in Before(l) => "refuse" \in Before(l)
 <2>1. UpdateSteps = {"update", "updateW", "updateRE", "updateRWE", "store", "storeW",
                      "storeRE", "storeRWE"}
   BY UpdateLabels DEF UpdateSteps
 <2>2. DOMAIN Updates \subseteq UpdateSteps /\ DOMAIN Stores \subseteq UpdateSteps
   BY DEF UpdateSteps
 <2>3. \A k \in {"start", "set", "test", "watch RE", "watch RWE"} : k \notin Before(l)
   BY <2>1 DEF Before, Chain
 <2>4. "watch sock" \in Before(l) => "storeW" \in Before(l)
   BY <2>1 DEF Before, Chain
 <2>5. ASSUME NEW u \in UpdateSteps PROVE "write" \in Before(l) => u \in Before(l)
   BY DEF Before, Chain
 <2>6. ASSUME NEW u \in DOMAIN Updates, NEW k \in DOMAIN Stores, u \in Before(l)
       PROVE  k \in Before(l)
  <3>1. l = "split" \/ l = "error" BY <2>6, UpdateLabels DEF Before, Chain
  <3> QED BY <2>2, <3>1 DEF Before
 <2>7. /\ "cas" \in Before(l) => "syscall" \in Before(l)
       /\ "syscall" \in Before(l) => "arm" \in Before(l) /\ "disconnected" \in Before(l)
       /\ "closed" \notin Before(l) /\ "insert" \notin Before(l)
       /\ "stop" \in Before(l) => "stop post" \in Before(l)
   BY <2>1 DEF Before, Chain
 <2>8. /\ "fail" \in Before(l) => "stop" \in Before(l)
       /\ "refuse" \in Before(l) => "callback" \in Before(l)
       /\ "callback" \in Before(l) => "cas" \in Before(l)
       /\ "error" \in Before(l) => "refuse" \in Before(l)
   BY <2>1 DEF Before, Chain
 <2> QED BY <2>3, <2>4, <2>5, <2>6, <2>7, <2>8
<1> QED BY <1>1, <1>2, <1>3, <1>4

LEMMA TailOfThree ==
  ASSUME NEW S, NEW a \in S, NEW b \in S, NEW c \in S
  PROVE  Tail(<<a, b, c>>) = <<b, c>>
<1>1. <<a, b, c>> \in Seq(S) /\ <<b, c>> \in Seq(S) /\ <<a, b, c>> # << >>
  OBVIOUS
<1>2. PICK w : w = Tail(<<a, b, c>>) OBVIOUS
<1>3. w \in Seq(S) /\ Len(w) = 2 /\ w[1] = b /\ w[2] = c BY <1>1, <1>2
<1>4. \A i \in 1..2 : i = 1 \/ i = 2 OBVIOUS
<1>5. Len(<<b, c>>) = 2 /\ <<b, c>>[1] = b /\ <<b, c>>[2] = c OBVIOUS
<1>6. \A i \in 1..Len(w) : w[i] = <<b, c>>[i] BY <1>3, <1>4, <1>5
<1> QED BY <1>1, <1>2, <1>3, <1>5, <1>6, SeqEqual

\* The stacks that lead to start().
LEMMA StartStacks ==
  /\ \A s \in Starts :
       /\ Head(s) \in {"connected", "unwatch timer", "start", "set", "test", "watch RE",
                       "watch RWE"}
       /\ Head(s) = "connected" => << >> \o Tail(s) = <<"unwatch timer", "start">>
       /\ Head(s) = "unwatch timer" => << >> \o Tail(s) = <<"start">>
       /\ Head(s) \in {"start", "set", "test", "watch RE", "watch RWE"} =>
            /\ << >> \o Tail(s) = << >>
            /\ \A k \in Labels : <<k>> \o Tail(s) = <<k>>
  /\ Starts \subseteq Seq(Labels)
<1>1. /\ Head(Success) = "connected" /\ << >> \o Tail(Success) = <<"unwatch timer", "start">>
      /\ Head(<<"unwatch timer", "start">>) = "unwatch timer"
      /\ << >> \o Tail(<<"unwatch timer", "start">>) = <<"start">>
 <2>1. Head(Success) = "connected" /\ Tail(Success) = <<"unwatch timer", "start">>
  <3>1. Tail(<<"connected", "unwatch timer", "start">>) = <<"unwatch timer", "start">>
   <4>1. \A a, b, c \in Labels : Tail(<<a, b, c>>) = <<b, c>> BY TailOfThree
   <4> QED BY <4>1 DEF Labels
  <3>2. Head(<<"connected", "unwatch timer", "start">>) = "connected" OBVIOUS
  <3> QED BY <3>1, <3>2 DEF Success
 <2>2. << >> \o <<"unwatch timer", "start">> = <<"unwatch timer", "start">>
   OBVIOUS
 <2>3. /\ Head(<<"unwatch timer", "start">>) = "unwatch timer"
       /\ << >> \o Tail(<<"unwatch timer", "start">>) = <<"start">>
   OBVIOUS
 <2> QED BY <2>1, <2>2, <2>3
<1>2. ASSUME NEW a
      PROVE  /\ Head(<<a>>) = a /\ << >> \o Tail(<<a>>) = << >>
             /\ \A k \in Labels : <<k>> \o Tail(<<a>>) = <<k>>
 <2>1. Tail(<<a>>) = << >> OBVIOUS
 <2>2. Head(<<a>>) = a OBVIOUS
 <2>3. ASSUME NEW k \in Labels PROVE <<k>> \o << >> = <<k>> OBVIOUS
 <2>4. << >> \o << >> = << >> OBVIOUS
 <2> QED BY <2>1, <2>2, <2>3, <2>4
<1>3. ASSUME NEW s \in Starts
      PROVE  /\ Head(s) \in {"connected", "unwatch timer", "start", "set", "test", "watch RE",
                             "watch RWE"}
             /\ Head(s) = "connected" => << >> \o Tail(s) = <<"unwatch timer", "start">>
             /\ Head(s) = "unwatch timer" => << >> \o Tail(s) = <<"start">>
             /\ Head(s) \in {"start", "set", "test", "watch RE", "watch RWE"} =>
                  /\ << >> \o Tail(s) = << >>
                  /\ \A k \in Labels : <<k>> \o Tail(s) = <<k>>
  BY <1>1, <1>2, ZenonT(30) DEF Starts
<1>4. Starts \subseteq Seq(Labels)
 <2>1. <<"unwatch timer", "start">> \in Seq(Labels) BY DEF Labels
 <2> QED BY <2>1, StepSequences DEF Starts
<1> QED BY <1>3, <1>4

LEMMA Replacements ==
  /\ \A h : Replaces(<< >>, h)
  /\ Replaces(<<"syscall">>, "cas") /\ Replaces(<<"cas">>, "callback")
  /\ Replaces(InProgress, "syscall") /\ Replaces(<<"refuse", "disconnected">>, "syscall")
  /\ Replaces(<<"fail", "disconnected">>, "syscall")
  /\ Replaces(<<"set">>, "start") /\ Replaces(<<"test">>, "set")
  /\ Replaces(<<"watch RE">>, "test") /\ Replaces(<<"storeW">>, "watch sock")
  /\ \A k \in DOMAIN Stores :
       /\ Replaces(<<k>>, "watch RE") /\ Replaces(<<k>>, "watch RWE")
       /\ \A u \in DOMAIN Updates : Replaces(<<k>>, u)
  /\ \A u \in DOMAIN Updates : Replaces(<<u>>, "write")
  /\ Replaces(<<"watch RWE">>, "test") /\ Replaces(<<"stop post">>, "stop")
  /\ Replaces(<<"stop">>, "fail") /\ Replaces(<<"stop", "callback">>, "refuse")
  /\ Replaces(<<"refuse">>, "error") /\ Replaces(<<"stop", "callback">>, "closed")
<1>1. \A h : Replaces(<< >>, h)
  BY StepSequences, Replaced, WhatHas DEF Replaces, Labels
<1>2. ASSUME NEW k \in Labels, k \notin {"read", "write", "error"}, NEW h,
             \A l \in Labels : h \in Before(l) => k \in Before(l)
      PROVE  Replaces(<<k>>, h)
 <2>1. /\ <<k>> \in Seq(Labels) /\ <<k>>[Len(<<k>>)] = k
       /\ \A l : Has(<<k>>, l) <=> l = k
   BY FewSteps
 <2> QED BY <1>2, <2>1, Replaced DEF Replaces
<1>3. /\ Replaces(<<"syscall">>, "cas") /\ Replaces(<<"cas">>, "callback")
      /\ Replaces(<<"set">>, "start") /\ Replaces(<<"test">>, "set")
      /\ Replaces(<<"watch RE">>, "test")
      /\ Replaces(<<"watch RWE">>, "test") /\ Replaces(<<"stop post">>, "stop")
      /\ Replaces(<<"stop">>, "fail") /\ Replaces(<<"refuse">>, "error")
 <2>1. {"syscall", "cas", "set", "test", "watch RE", "watch RWE", "stop post", "stop",
        "refuse"} \subseteq Labels \ {"read", "write", "error"}
   BY DEF Labels
 <2>2. /\ Replaces(<<"syscall">>, "cas") /\ Replaces(<<"cas">>, "callback")
       /\ Replaces(<<"stop post">>, "stop") /\ Replaces(<<"stop">>, "fail")
       /\ Replaces(<<"refuse">>, "error")
  <3>1. \A l \in Labels :
          /\ "cas" \in Before(l) => "syscall" \in Before(l)
          /\ "callback" \in Before(l) => "cas" \in Before(l)
          /\ "stop" \in Before(l) => "stop post" \in Before(l)
          /\ "fail" \in Before(l) => "stop" \in Before(l)
          /\ "error" \in Before(l) => "refuse" \in Before(l)
    BY Replaced
  <3> QED BY <1>2, <2>1, <3>1
 <2>3. \A k \in {"start", "set", "test"} : \A l \in Labels : k \notin Before(l)
   BY Replaced
 <2>4. /\ Replaces(<<"set">>, "start") /\ Replaces(<<"test">>, "set")
       /\ Replaces(<<"watch RE">>, "test") /\ Replaces(<<"watch RWE">>, "test")
   BY <1>2, <2>1, <2>3
 <2> QED BY <2>2, <2>4
<1>4. ASSUME NEW a \in Labels, NEW b \in Labels, a \notin {"read", "write", "error"},
             b \notin {"read", "write", "error"}, NEW h,
             \A l \in Labels : h \in Before(l) => b \in Before(l), Shaped(<<a, b>>)
      PROVE  Replaces(<<a, b>>, h)
 <2>1. /\ <<a, b>> \in Seq(Labels) /\ <<a, b>>[Len(<<a, b>>)] = b
       /\ \A l : Has(<<a, b>>, l) <=> l \in {a, b}
   BY FewSteps
 <2> QED BY <1>4, <2>1 DEF Replaces
<1>5. /\ Replaces(<<"refuse", "disconnected">>, "syscall")
      /\ Replaces(<<"fail", "disconnected">>, "syscall")
      /\ Replaces(<<"stop", "callback">>, "refuse")
      /\ Replaces(<<"stop", "callback">>, "closed")
 <2>1. {"refuse", "disconnected", "fail", "stop", "callback"}
         \subseteq Labels \ {"read", "write", "error"}
   BY DEF Labels
 <2> QED BY <1>4, <2>1, Replaced
<1>6. Replaces(InProgress, "syscall")
 <2>1. InProgress \in Seq(Labels) /\ InProgress[Len(InProgress)] = "arm"
   BY StepSequences DEF InProgress
 <2>2. \A l \in {"read", "write", "error"} : ~Has(InProgress, l) BY WhatHas
 <2> QED BY <2>1, <2>2, Replaced DEF Replaces
<1>7. /\ Replaces(<<"storeW">>, "watch sock")
      /\ \A u \in DOMAIN Updates : Replaces(<<u>>, "write")
      /\ \A k \in DOMAIN Stores :
           /\ Replaces(<<k>>, "watch RE") /\ Replaces(<<k>>, "watch RWE")
           /\ \A u \in DOMAIN Updates : Replaces(<<k>>, u)
 <2>1. UpdateSteps \subseteq Labels \ {"read", "write", "error"}
   BY UpdateLabels DEF UpdateSteps
 <2>2. Replaces(<<"storeW">>, "watch sock")
  <3>1. "storeW" \in Labels \ {"read", "write", "error"}
    BY <2>1, UpdateLabels DEF UpdateSteps
  <3>2. \A l \in Labels : "watch sock" \in Before(l) => "storeW" \in Before(l)
    BY Replaced
  <3> QED BY <1>2, <3>1, <3>2
 <2>3. ASSUME NEW u \in DOMAIN Updates PROVE Replaces(<<u>>, "write")
   BY <1>2, <2>1, Replaced DEF UpdateSteps
 <2>4. ASSUME NEW k \in DOMAIN Stores
       PROVE  Replaces(<<k>>, "watch RE") /\ Replaces(<<k>>, "watch RWE")
   BY <1>2, <2>1, Replaced DEF UpdateSteps
 <2>5. ASSUME NEW k \in DOMAIN Stores, NEW u \in DOMAIN Updates PROVE Replaces(<<k>>, u)
  <3>1. k \in Labels \ {"read", "write", "error"} BY <2>1 DEF UpdateSteps
  <3>2. \A l \in Labels : u \in Before(l) => k \in Before(l) BY Replaced
  <3> QED BY <1>2, <3>1, <3>2
 <2> QED BY <2>2, <2>3, <2>4, <2>5
<1> QED BY <1>1, <1>3, <1>5, <1>6, <1>7

LEMMA IoReplaces ==
  ASSUME Types, pc["io"] # <<>>, Shaped(pc["io"]), PhasesEnd,
         NEW steps, Replaces(steps, Head(pc["io"])), Goto("io", steps)
  PROVE  /\ Shaped(pc'["io"]) /\ PhasesEnd' /\ pc'["app"] = pc["app"]
         /\ pc'["io"] = steps \o Tail(pc["io"])
         /\ \A l : At("io", l)' =>
              /\ In("io", l)'
              /\ \/ steps # <<>> /\ l = steps[1]
                 \/ steps = <<>> /\ Head(pc["io"]) \in Before(l) /\ In("io", l)
         /\ \A l : In("io", l)' => Has(steps, l) \/ In("io", l)
         /\ \A l : Has(steps, l) \/ (In("io", l) /\ Head(pc["io"]) # l) => In("io", l)'
<1>1. /\ "io" \in Threads /\ steps \in Seq(Labels)
      /\ pc \in [Threads -> Seq(Labels)]
  BY DEF Threads, Types, LoopTypes, Replaces
<1>2. pc' \in [Threads -> Seq(Labels)] /\ pc'["io"] = steps \o Tail(pc["io"])
  BY <1>1, GotoIs
<1>3. pc'["io"] \in Seq(Labels) BY <1>1, <1>2
<1>4. \A l : pc'["io"] # <<>> /\ Head(pc'["io"]) = l =>
               1 \in DOMAIN pc'["io"] /\ pc'["io"][1] = l
  BY <1>3
<1>5. \A l : At("io", l)' => In("io", l)' BY <1>4 DEF At, In, Has
<1> QED BY <1>1, <1>2, <1>5, IoGoes DEF Replaces

\* A step of a call, on the io thread over TCP.
LEMMA TcpCalls ==
  ASSUME Tcp, Types, InsertInv, TcpIo, TcpStream, ThreadStep("io")
  PROVE  TcpIo' /\ TcpStream' /\ pc'["app"] = pc["app"] /\ (outcome' = "none" => outcome = "none")
<1> USE DEF client, entry, kernel, ghosts
<1> DEFINE s == pc["io"]
           q == pc'["io"]
           h == Head(s)
           StartSet == {"start"} \cup StartLabels
<1>1. /\ pc \in [Threads -> Seq(Labels)] /\ s # <<>> /\ h \notin OwnSteps
      /\ \A l \in OwnSteps : In("io", l)' <=> In("io", l)
      /\ Shaped(s) /\ PhasesEnd /\ In("io", h) /\ At("io", h)
 <2>1. "io" \in Threads BY DEF Threads
 <2>2. /\ pc \in [Threads -> Seq(Labels)] /\ s # <<>> /\ h \notin OwnSteps
       /\ \A l \in OwnSteps : In("io", l)' <=> In("io", l)
   BY <2>1, CallSteps DEF Types, LoopTypes
 <2>3. At("io", h) BY <2>2 DEF At
 <2> QED BY <2>1, <2>2, <2>3, HeadIn DEF TcpIo
<1>2. UNCHANGED <<send_buf, exe, cb, mask, timer_on>>
 <2>1. "io" \in Threads BY DEF Threads
 <2> QED BY <2>1, CallFrame
<1>3. ~In("io", "insert") /\ ~In("io", "insert")'
 <2>1. ~In("io", "insert")
  <3>1. SUFFICES ASSUME In("io", "insert") PROVE FALSE OBVIOUS
  <3>2. s = <<"insert">> BY <3>1 DEF InsertInv
  <3>3. Head(<<"insert">>) = "insert" OBVIOUS
  <3> QED BY <1>1, <3>2, <3>3 DEF OwnSteps
 <2> QED BY <1>1, <2>1 DEF OwnSteps
<1>4. In("io", "write")' => cb' = "stream" /\ exe' = <<>>
  BY <1>1, <1>2 DEF OwnSteps, TcpStream
<1>5. \A l \in StartSet : In("io", l) =>
        s \in Starts /\ h \in {"connected", "unwatch timer", "start", "set", "test", "watch RE",
                             "watch RWE"}
  BY StartStacks DEF TcpIo
\* What every step of a call does to the stack.
<1>6. ASSUME NEW steps, Replaces(steps, h), Goto("io", steps)
      PROVE  /\ Shaped(q) /\ PhasesEnd' /\ pc'["app"] = pc["app"]
             /\ q = steps \o Tail(s)
             /\ \A l : At("io", l)' =>
                  /\ In("io", l)'
                  /\ \/ steps # <<>> /\ l = steps[1]
                     \/ steps = <<>> /\ h \in Before(l) /\ In("io", l)
             /\ \A l : In("io", l)' => Has(steps, l) \/ In("io", l)
             /\ \A l : Has(steps, l) \/ (In("io", l) /\ h # l) => In("io", l)'
  BY <1>1, <1>6, IoReplaces
\* The steps of a client that is not started.
<1>7. ASSUME NEW steps, Replaces(steps, h), Goto("io", steps),
             \A l \in StartSet : ~Has(steps, l),
             h \notin {"connected", "unwatch timer", "start", "set", "test", "watch RE", "watch RWE"},
             started' = FALSE
      PROVE  TcpIo' /\ pc'["app"] = pc["app"]
 <2>1. /\ Shaped(q) /\ PhasesEnd' /\ pc'["app"] = pc["app"]
       /\ \A l : In("io", l)' => Has(steps, l) \/ In("io", l)
       /\ \A l : At("io", l)' => In("io", l)'
   BY <1>6, <1>7
 <2>2. \A l \in StartSet : ~In("io", l)' BY <1>5, <1>7, <2>1
 <2>4. ~At("io", "insert")' /\ ~At("io", "watch RE")'
   BY <1>3, <2>2, <2>1 DEF StartLabels
 <2> QED BY <1>7, <2>1, <2>2, <2>4 DEF TcpIo, StartLabels
<1>8. ASSUME \/ ~StreamAfter(exe, cb)
             \/ /\ connected' \in {connected, "Connected"}
                /\ \A l \in {"disconnected", "syscall", "watch sock"} :
                     In("io", l)' => In("io", l),
             StreamAfter(Pending', cb) => started' \/ At("io", "stop post")'
      PROVE  TcpStream'
 <2>1. cb' = cb /\ exe' = exe BY <1>2
 <2>2. StreamAfter(Pending, cb)' => started' \/ At("io", "stop post")'
  <3>1. StreamAfter(Pending, cb)' <=> StreamAfter(Pending', cb)
    BY <2>1 DEF StreamAfter, IsStream
  <3> QED BY <1>8, <3>1
 <2>3. StreamAfter(exe, cb)' <=> StreamAfter(exe, cb)
   BY <2>1 DEF StreamAfter, IsStream
 <2>4. StreamAfter(exe, cb)' =>
         /\ connected' = "Connected"
         /\ ~In("io", "disconnected")' /\ ~In("io", "syscall")'
         /\ ~In("io", "watch sock")'
   BY <1>8, <2>3 DEF TcpStream
 <2> QED BY <1>4, <2>2, <2>4 DEF TcpStream
<1>9. /\ ~started /\ h # "stop post" => ~StreamAfter(Pending, cb)
      /\ h # "stop post" /\ StreamAfter(Pending, cb) => started
  BY <1>1 DEF TcpStream, At
<1>10. h \in Down \cup {"watch timer", "arm"} => ~started BY <1>1 DEF TcpIo
<1>11. UNCHANGED queue => Pending' = Pending BY <1>2 DEF Pending
<1>12. /\ started = TRUE \/ started = FALSE
       /\ started' \in BOOLEAN
 <2>1. "io" \in Threads BY DEF Threads
 <2> QED BY <2>1, ThreadTypes DEF Types, ClientTypes
<1>13. \A l : ~Has(<< >>, l) BY WhatHas
<1>14. CASE ConnectIgnored("io") \/ ConnectBegins("io")
 <2>1. /\ h = "cas" /\ UNCHANGED <<started, queue>>
       /\ outcome' = "none" => outcome = "none"
   BY <1>14 DEF ConnectIgnored, ConnectBegins, At
 <2>2. started' = FALSE /\ ~StreamAfter(Pending', cb)
   BY <1>9, <1>10, <1>11, <1>12, <2>1 DEF Down
 <2>3. CASE ConnectIgnored("io")
  <3>1. Goto("io", <<>>) /\ UNCHANGED connected BY <2>3 DEF ConnectIgnored
  <3>2. Replaces(<<>>, h) BY Replacements
  <3>3. TcpIo' /\ pc'["app"] = pc["app"] BY <1>7, <1>13, <2>1, <2>2, <3>1, <3>2
  <3>4. \A l : In("io", l)' => In("io", l) BY <1>6, <1>13, <3>1, <3>2
  <3>5. TcpStream' BY <1>8, <2>1, <2>2, <3>1, <3>4
  <3> QED BY <2>1, <3>3, <3>5
 <2>4. CASE ConnectBegins("io")
  <3>1. Goto("io", <<"syscall">>) /\ connected = "Disconnected"
    BY <2>4 DEF ConnectBegins
  <3>2. Replaces(<<"syscall">>, h) /\ \A l \in StartSet : ~Has(<<"syscall">>, l)
    BY <2>1, Replacements, WhatHas DEF StartLabels
  <3>3. TcpIo' /\ pc'["app"] = pc["app"] BY <1>7, <2>1, <2>2, <3>1, <3>2
  <3>4. ~StreamAfter(exe, cb) BY <3>1 DEF TcpStream
  <3>5. TcpStream' BY <1>8, <2>1, <2>2, <3>4
  <3> QED BY <2>1, <3>3, <3>5
 <2> QED BY <1>14, <2>3, <2>4
<1>15. CASE Syscall("io")
 <2>1. h = "syscall" /\ UNCHANGED <<started, queue, connected, outcome>>
   BY <1>15 DEF Syscall, At
 <2>2. started' = FALSE /\ ~StreamAfter(Pending', cb)
   BY <1>9, <1>10, <1>11, <1>12, <2>1 DEF Down
 <2>3. ~StreamAfter(exe, cb) BY <1>1, <2>1 DEF TcpStream
 <2>4. PICK steps \in {InProgress, <<"refuse", "disconnected">>, <<"fail", "disconnected">>} :
         Goto("io", steps)
   BY <1>15 DEF Syscall, Tcp
 <2>5. Replaces(steps, h) /\ \A l \in StartSet : ~Has(steps, l)
  <3>1. Replaces(steps, h) BY <2>1, <2>4, Replacements
  <3>2. \A l : Has(steps, l) =>
                 l \in {"watch sock", "watch timer", "arm", "refuse", "fail", "disconnected"}
   <4>1. /\ \A l : Has(InProgress, l) => l \in {"watch sock", "watch timer", "arm"}
         /\ \A l : Has(<<"refuse", "disconnected">>, l) => l \in {"refuse", "disconnected"}
         /\ \A l : Has(<<"fail", "disconnected">>, l) => l \in {"fail", "disconnected"}
     BY WhatHas
   <4>2. steps = InProgress \/ steps = <<"refuse", "disconnected">>
           \/ steps = <<"fail", "disconnected">>
     BY <2>4
   <4> QED BY <4>1, <4>2
  <3>3. \A l \in StartSet :
           l \notin {"watch sock", "watch timer", "arm", "refuse", "fail", "disconnected"}
    BY DEF StartLabels
  <3> QED BY <3>1, <3>2, <3>3
 <2>6. TcpIo' /\ pc'["app"] = pc["app"] BY <1>7, <2>1, <2>2, <2>4, <2>5
 <2>7. TcpStream' BY <1>8, <2>1, <2>2, <2>3
 <2> QED BY <2>1, <2>6, <2>7
<1>16. CASE SetConnected("io")
 <2>1. /\ h = "connected" /\ Goto("io", <<>>) /\ connected' = "Connected"
       /\ outcome' = "connected" /\ UNCHANGED <<started, queue>>
   BY <1>16 DEF SetConnected, At
 <2>2. /\ Shaped(q) /\ PhasesEnd' /\ pc'["app"] = pc["app"] /\ q = <<>> \o Tail(s)
       /\ \A l : At("io", l)' => In("io", l)' /\ h \in Before(l)
       /\ \A l : In("io", l)' => In("io", l)
  <3>1. Replaces(<<>>, h) BY Replacements
  <3> QED BY <1>6, <1>13, <2>1, <3>1
 <2>3. \A l : At("io", l)' => l \in {"unwatch timer"}
   BY <2>1, <2>2, UpdateStepsAre DEF Before, Chain
 <2>4. \A l \in StartSet : In("io", l)' => q \in Starts
  <3>1. SUFFICES ASSUME NEW l \in StartSet, In("io", l)' PROVE q \in Starts
    OBVIOUS
  <3>2. s \in Starts BY <1>5, <2>2, <3>1
  <3> QED BY <2>1, <2>2, <3>2, StartStacks DEF Starts
 <2>5. TcpIo'
  <3>1. {"unwatch timer"} \cap (Down \cup StartLabels) = {}
    BY DEF Down, StartLabels
  <3>2. \A l \in Down \cup StartLabels : ~At("io", l)' BY <2>3, <3>1
  <3>3. ~At("io", "disconnected")' /\ ~At("io", "insert")' /\ ~At("io", "watch RE")'
   <4>1. \A l \in {"disconnected", "insert", "watch RE"} : ~At("io", l)' BY <2>3
   <4> QED BY <4>1
  <3> QED BY <2>1, <2>2, <2>4, <3>2, <3>3 DEF TcpIo
 <2>6. TcpStream' BY <1>8, <1>9, <1>11, <2>1, <2>2
 <2> QED BY <2>1, <2>2, <2>5, <2>6
<1>17. CASE SetDisconnected("io")
 <2>1. /\ h = "disconnected" /\ Goto("io", <<>>) /\ connected' = "Disconnected"
       /\ UNCHANGED <<started, queue, outcome>>
   BY <1>17 DEF SetDisconnected, At
 <2>2. /\ Shaped(q) /\ PhasesEnd' /\ pc'["app"] = pc["app"] /\ q = <<>> \o Tail(s)
       /\ \A l : At("io", l)' => In("io", l)' /\ h \in Before(l)
       /\ \A l : In("io", l)' => In("io", l)
       /\ \A l : In("io", l) /\ h # l => In("io", l)'
  <3>1. Replaces(<<>>, h) BY Replacements
  <3> QED BY <1>6, <1>13, <2>1, <3>1
 <2>3. \A l : At("io", l)' => l \in {"unwatch timer", "disconnected", "split"}
   BY <2>1, <2>2, UpdateStepsAre DEF Before, Chain
 <2>4. \A l \in StartSet : ~In("io", l)' BY <1>5, <2>1, <2>2
 <2>5. ~started \/ In("io", "refuse")'
  <3>1. ~started \/ In("io", "refuse") BY <1>1, <2>1 DEF TcpIo
  <3> QED BY <2>1, <2>2, <3>1
 <2>6. started => outcome = "connected" BY DEF TcpIo
 <2>7. TcpIo'
  <3>1. {"unwatch timer", "disconnected", "split"} \cap (Down \cup StartLabels) = {}
    BY DEF Down, StartLabels
  <3>2. \A l \in Down \cup StartLabels : ~At("io", l)' BY <2>3, <3>1
  <3>3. ~At("io", "insert")' /\ ~At("io", "watch RE")'
   <4>1. \A l \in {"insert", "watch RE"} : ~At("io", l)' BY <2>3
   <4> QED BY <4>1
  <3> QED BY <2>1, <2>2, <2>4, <2>5, <2>6, <3>2, <3>3 DEF TcpIo
 <2>8. ~StreamAfter(exe, cb) BY <1>1, <2>1 DEF TcpStream
 <2>9. TcpStream' BY <1>8, <1>9, <1>11, <2>1, <2>8
 <2> QED BY <2>1, <2>2, <2>7, <2>9
<1>18. ASSUME NEW x \in Tasks, Post(<<x>>)
       PROVE  /\ x.op \notin CbOps =>
                   (StreamAfter(Pending', cb) <=> StreamAfter(Pending, cb))
              /\ x.op \in CbOps /\ ~IsStream(x) => ~StreamAfter(Pending', cb)
 <2>1. Pending \in Seq(Tasks) /\ Pending' = Pending \o <<x>>
   BY <1>2, <1>18, PendingPosted
 <2> QED BY <2>1, TaskPosted
<1>19. CASE WatchSock("io")
 <2>1. /\ h = "watch sock" /\ Goto("io", <<"storeW">>)
       /\ Post(<<Enable("connect", {"W"})>>) /\ UNCHANGED <<connected, started, outcome>>
   BY <1>19 DEF WatchSock, At
 <2>2. started' = FALSE BY <1>10, <1>12, <2>1 DEF Down
 <2>3. /\ Replaces(<<"storeW">>, h) /\ h \notin StartSet \cup {"connected", "unwatch timer"}
       /\ \A l \in StartSet : ~Has(<<"storeW">>, l)
  <3>1. "storeW" \in UpdateSteps /\ "storeW" \notin StartSet
    BY UpdateLabels DEF UpdateSteps, StartLabels
  <3>2. \A l : Has(<<"storeW">>, l) <=> l = "storeW" BY <3>1, WhatHas
  <3> QED BY <2>1, <3>1, <3>2, Replacements DEF StartLabels
 <2>4. TcpIo' /\ pc'["app"] = pc["app"]
   BY <1>7, <2>1, <2>2, <2>3 DEF StartLabels
 <2>5. ~StreamAfter(exe, cb) BY <1>1, <2>1 DEF TcpStream
 <2>6. ~StreamAfter(Pending', cb)
  <3>1. /\ Enable("connect", {"W"}) \in Tasks
        /\ Enable("connect", {"W"}).op = "enable" /\ Enable("connect", {"W"}).cb = "connect"
   <4>1. {"W"} \in SUBSET EventTypes BY DEF EventTypes
   <4> QED BY <4>1, PostedTask
  <3>2. /\ Enable("connect", {"W"}).op \in CbOps
        /\ ~IsStream(Enable("connect", {"W"}))
    BY <3>1 DEF CbOps, IsStream
  <3> QED BY <1>18, <2>1, <3>1, <3>2
 <2>8. TcpStream'
  <3>1. cb' = cb /\ exe' = exe BY <1>2
  <3>2. /\ StreamAfter(exe, cb)' <=> StreamAfter(exe, cb)
        /\ StreamAfter(Pending, cb)' <=> StreamAfter(Pending', cb)
    BY <3>1 DEF StreamAfter, IsStream
  <3> QED BY <1>4, <2>5, <2>6, <3>2 DEF TcpStream
 <2> QED BY <2>1, <2>4, <2>8
<1>20. CASE PostTimer("io")
 <2>1. /\ h \in {"watch timer", "arm", "unwatch timer"} /\ Goto("io", <<>>)
       /\ UNCHANGED <<connected, started, outcome>>
   BY <1>20 DEF PostTimer, At
 <2>2. StreamAfter(Pending', cb) => started'
  <3>1. PICK x \in {Plain("enable timer"), Plain("arm"), Plain("disable timer")} : Post(<<x>>)
    BY <1>20 DEF PostTimer
  <3>2. x \in Tasks /\ x.op \notin CbOps BY <3>1, PostedTask DEF CbOps
  <3> QED BY <1>9, <1>18, <2>1, <3>1, <3>2
 <2>3. /\ Shaped(q) /\ PhasesEnd' /\ pc'["app"] = pc["app"] /\ q = <<>> \o Tail(s)
       /\ \A l : At("io", l)' => In("io", l)' /\ h \in Before(l)
       /\ \A l : In("io", l)' => In("io", l)
       /\ \A l : In("io", l) /\ h # l => In("io", l)'
  <3>1. Replaces(<<>>, h) BY Replacements
  <3> QED BY <1>6, <1>13, <2>1, <3>1
 <2>4. TcpStream' BY <1>8, <2>1, <2>2, <2>3
 <2>5. CASE h # "unwatch timer"
  <3>1. started' = FALSE BY <1>10, <1>12, <2>1, <2>5 DEF Down
  <3>2. Replaces(<<>>, h) BY Replacements
  <3>3. h \notin {"connected", "unwatch timer", "start", "set", "test", "watch RE", "watch RWE"}
    BY <2>1, <2>5
  <3>4. TcpIo' BY <1>7, <1>13, <2>1, <3>1, <3>2, <3>3
  <3> QED BY <2>1, <2>3, <2>4, <3>4
 <2>6. CASE h = "unwatch timer"
  <3>1. \A l : At("io", l)' => l \in {"start", "refuse"}
    BY <2>3, <2>6, UpdateStepsAre DEF Before, Chain
  <3>2. {"start", "refuse"} \cap (Down \cup StartLabels) = {}
    BY DEF Down, StartLabels
  <3>3. \A l \in Down \cup StartLabels : ~At("io", l)' BY <3>1, <3>2
  <3>4. ~At("io", "disconnected")' /\ ~At("io", "insert")' /\ ~At("io", "watch RE")'
   <4>1. \A l \in {"disconnected", "insert", "watch RE"} : ~At("io", l)' BY <3>1
   <4> QED BY <4>1
  <3>5. ASSUME NEW l \in StartSet, In("io", l)'
        PROVE  q \in Starts /\ connected' = "Connected" /\ outcome' = "connected"
   <4>1. In("io", l) BY <2>3, <3>5
   <4>2. s \in Starts /\ (At("io", "connected") \/ (connected = "Connected" /\ outcome = "connected"))
     BY <4>1 DEF TcpIo
   <4>3. ~At("io", "connected") BY <2>6 DEF At
   <4>4. q = <<"start">> BY <2>3, <2>6, <4>2, StartStacks
   <4> QED BY <2>1, <4>2, <4>3, <4>4 DEF Starts
  <3>6. started' /\ connected' # "Connected" =>
          In("io", "refuse")' \/ In("io", "fail")' \/ In("io", "stop")'
   <4>1. started /\ connected # "Connected" =>
           In("io", "refuse") \/ In("io", "fail") \/ In("io", "stop")
     BY DEF TcpIo
   <4> QED BY <2>1, <2>3, <2>6, <4>1
  <3>7. /\ started' => outcome' = "connected"
        /\ \A l \in {"watch timer", "arm"} : In("io", l)' => ~started'
    BY <2>1, <2>3 DEF TcpIo
  <3>8. TcpIo' BY <2>3, <3>3, <3>4, <3>5, <3>6, <3>7 DEF TcpIo
  <3> QED BY <2>1, <2>3, <2>4, <3>8
 <2> QED BY <2>5, <2>6
<1>21. ASSUME h \in {"start", "set", "test", "watch RE", "watch RWE"}
       PROVE  /\ connected = "Connected" /\ outcome = "connected" /\ s \in Starts
              /\ << >> \o Tail(s) = << >> /\ \A k \in Labels : <<k>> \o Tail(s) = <<k>>
              /\ h # "start" => started
 <2>1. h \in StartSet /\ h # "connected" /\ (h # "start" => h \in StartLabels)
   BY <1>21 DEF StartLabels
 <2>2. s \in Starts /\ (At("io", "connected") \/ (connected = "Connected" /\ outcome = "connected"))
   BY <1>1, <2>1 DEF TcpIo
 <2>3. ~At("io", "connected") BY <2>1 DEF At
 <2>4. << >> \o Tail(s) = << >> /\ \A k \in Labels : <<k>> \o Tail(s) = <<k>>
   BY <1>21, <2>2, StartStacks
 <2>5. h # "start" => started BY <1>1, <2>1 DEF TcpIo
 <2> QED BY <2>2, <2>3, <2>4, <2>5
<1>22. ASSUME h \in {"start", "set", "test", "watch RE", "watch RWE"}, NEW steps,
              steps \in {<<>>, <<"set">>, <<"test">>, <<"watch RE">>, <<"watch RWE">>},
              Replaces(steps, h), Goto("io", steps), started' = TRUE,
              UNCHANGED <<connected, outcome>>,
              steps = <<"watch RE">> => send_buf = <<>>
       PROVE  TcpIo' /\ pc'["app"] = pc["app"] /\ \A l \in Labels \ StartSet : ~In("io", l)'
 <2>1. /\ Shaped(q) /\ PhasesEnd' /\ pc'["app"] = pc["app"] /\ q = steps \o Tail(s)
       /\ \A l : At("io", l)' => In("io", l)'
   BY <1>6, <1>22
 <2>2. q = steps
  <3>1. /\ << >> \o Tail(s) = << >>
        /\ \A k \in {"set", "test", "watch RE", "watch RWE"} : <<k>> \o Tail(s) = <<k>>
    BY <1>21, <1>22 DEF Labels
  <3>2. /\ <<"set">> \o Tail(s) = <<"set">> /\ <<"test">> \o Tail(s) = <<"test">>
        /\ <<"watch RE">> \o Tail(s) = <<"watch RE">>
        /\ <<"watch RWE">> \o Tail(s) = <<"watch RWE">>
    BY <3>1
  <3> QED BY <1>22, <2>1, <3>1, <3>2
 <2>3. /\ \A l : Has(<<"set">>, l) <=> l = "set"
       /\ \A l : Has(<<"test">>, l) <=> l = "test"
       /\ \A l : Has(<<"watch RE">>, l) <=> l = "watch RE"
       /\ \A l : Has(<<"watch RWE">>, l) <=> l = "watch RWE"
   BY WhatHas
 <2>4. \A l : In("io", l)' <=> Has(q, l) BY DEF In
 <2>5. /\ \A l : In("io", l)' => l \in StartLabels
       /\ In("io", "watch RE")' => send_buf = <<>>
       /\ q # <<>> => q \in Starts
  <3>1. CASE steps = <<>> BY <1>13, <2>2, <2>4, <3>1
  <3>2. CASE steps = <<"test">>
   <4>1. \A l : In("io", l)' <=> l = "test" BY <2>2, <2>3, <2>4, <3>2
   <4>2. q \in Starts BY <2>2, <3>2 DEF Starts
   <4> QED BY <4>1, <4>2 DEF StartLabels
  <3>3. CASE steps = <<"watch RE">>
   <4>1. \A l : In("io", l)' <=> l = "watch RE" BY <2>2, <2>3, <2>4, <3>3
   <4>2. q \in Starts BY <2>2, <3>3 DEF Starts
   <4> QED BY <1>22, <3>3, <4>1, <4>2 DEF StartLabels
  <3>4. CASE steps = <<"watch RWE">>
   <4>1. \A l : In("io", l)' <=> l = "watch RWE" BY <2>2, <2>3, <2>4, <3>4
   <4>2. q \in Starts BY <2>2, <3>4 DEF Starts
   <4> QED BY <4>1, <4>2 DEF StartLabels
  <3>5. CASE steps = <<"set">>
   <4>1. \A l : In("io", l)' <=> l = "set" BY <2>2, <2>3, <2>4, <3>5
   <4>2. q \in Starts BY <2>2, <3>5 DEF Starts
   <4> QED BY <4>1, <4>2 DEF StartLabels
  <3> QED BY <1>22, <3>1, <3>2, <3>3, <3>4, <3>5
 <2>6. \A l : In("io", l)' => q # <<>> BY <1>13, <2>4
 <2>7. \A l : At("io", l)' => l \in StartLabels BY <2>1, <2>5
 <2>8. StartLabels \cap (Down \cup {"disconnected", "insert", "watch timer", "arm"}) = {}
   BY DEF StartLabels, Down
 <2>9. /\ \A l \in Down \cup {"disconnected", "insert"} : ~At("io", l)'
       /\ \A l \in {"watch timer", "arm"} : ~In("io", l)'
   BY <2>5, <2>7, <2>8
 <2>10. ~At("io", "disconnected")' /\ ~At("io", "insert")' BY <2>9
 <2>11. At("io", "watch RE")' => send_buf' = <<>> BY <1>2, <2>1, <2>5
 <2>12. \A l \in StartSet : In("io", l)' => q \in Starts BY <2>5, <2>6
 <2>13. connected' = "Connected" /\ outcome' = "connected" BY <1>21, <1>22
 <2>14. TcpIo' BY <1>22, <2>1, <2>9, <2>10, <2>11, <2>12, <2>13 DEF TcpIo
 <2>15. \A l \in Labels \ StartSet : ~In("io", l)' BY <2>5
 <2> QED BY <2>1, <2>14, <2>15
<1>23. ASSUME h \in {"start", "set", "test", "watch RE", "watch RWE"},
              UNCHANGED connected, started' = TRUE,
              \A l \in Labels \ StartSet : ~In("io", l)'
       PROVE  TcpStream'
 <2>1. \A l \in {"disconnected", "syscall", "watch sock"} : ~In("io", l)'
  <3>1. {"disconnected", "syscall", "watch sock"} \subseteq Labels \ StartSet
    BY DEF Labels, StartLabels
  <3> QED BY <1>23, <3>1
 <2> QED BY <1>8, <1>23, <2>1
<1>24. CASE Start("io")
 <2>1. h = "start" /\ started' = TRUE /\ UNCHANGED <<connected, outcome>>
       /\ \E steps : steps \in {<<>>, <<"set">>} /\ Goto("io", steps)
   BY <1>24 DEF Start, At
 <2>2. PICK steps : steps \in {<<>>, <<"set">>} /\ Goto("io", steps) BY <2>1
 <2>3. Replaces(steps, h) BY <2>1, <2>2, Replacements
 <2>4. steps # <<"watch RE">>
  <3>1. "set" # "watch RE" /\ << >> # <<"watch RE">> OBVIOUS
  <3>2. <<"set">> # <<"watch RE">> OBVIOUS
  <3> QED BY <2>2, <3>1, <3>2
 <2>5. TcpIo' /\ pc'["app"] = pc["app"] /\ \A l \in Labels \ StartSet : ~In("io", l)'
  <3>1. steps \in {<<>>, <<"set">>, <<"test">>, <<"watch RE">>, <<"watch RWE">>}
    BY <2>2
  <3> QED BY <1>22, <2>1, <2>2, <2>3, <2>4, <3>1
 <2>6. TcpStream' BY <1>23, <2>1, <2>5
 <2> QED BY <2>1, <2>5, <2>6
<1>25. CASE StartTest("io")
 <2>1. h = "test" /\ UNCHANGED <<started, connected, outcome>>
       /\ \E steps : /\ steps = IF send_buf = <<>> THEN <<"watch RE">> ELSE <<"watch RWE">>
                     /\ Goto("io", steps)
   BY <1>25 DEF StartTest, At
 <2>2. PICK steps : /\ steps = IF send_buf = <<>> THEN <<"watch RE">> ELSE <<"watch RWE">>
                    /\ Goto("io", steps)
   BY <2>1
 <2>3. Replaces(steps, h) BY <2>1, <2>2, Replacements
 <2>4. steps = <<"watch RE">> => send_buf = <<>>
  <3>1. <<"watch RWE">> # <<"watch RE">> OBVIOUS
  <3> QED BY <2>2, <3>1
 <2>5. started' = TRUE BY <1>12, <1>21, <2>1
 <2>6. TcpIo' /\ pc'["app"] = pc["app"] /\ \A l \in Labels \ StartSet : ~In("io", l)'
  <3>1. steps \in {<<>>, <<"set">>, <<"test">>, <<"watch RE">>, <<"watch RWE">>}
    BY <2>2
  <3> QED BY <1>22, <2>1, <2>2, <2>3, <2>4, <2>5, <3>1
 <2>7. TcpStream' BY <1>23, <2>1, <2>5, <2>6
 <2> QED BY <2>1, <2>6, <2>7
<1>26. CASE StartPost("io")
 <2>1. PICK k \in DOMAIN Stores :
         /\ h \in {"watch RE", "watch RWE"} /\ UNCHANGED <<started, connected, outcome>>
         /\ Goto("io", <<k>>)
   BY <1>26, UpdateLabels DEF StartPost, At
 <2>2. /\ Replaces(<<k>>, h) /\ k \in Labels /\ <<k>> # << >> /\ <<k>>[1] = k
       /\ k \notin StartSet \cup Down \cup {"disconnected", "insert", "watch timer", "arm",
                                            "syscall", "watch sock"}
       /\ \A l : Has(<<k>>, l) <=> l = k
  <3>1. Replaces(<<k>>, h) BY <2>1, Replacements
  <3>2. k \in UpdateSteps /\ k \in Labels BY <2>1, UpdateLabels DEF UpdateSteps
  <3>3. k \notin StartSet \cup Down \cup {"disconnected", "insert", "watch timer", "arm",
                                           "syscall", "watch sock"}
    BY <3>2, UpdateStepsAre DEF StartLabels, Down
  <3>4. \A l : Has(<<k>>, l) <=> l = k BY <3>2, WhatHas
  <3>5. <<k>> # << >> /\ <<k>>[1] = k OBVIOUS
  <3> QED BY <3>1, <3>2, <3>3, <3>4, <3>5
 <2>3. started' = TRUE /\ connected' = "Connected" /\ outcome' = "connected"
   BY <1>12, <1>21, <2>1
 <2>4. Shaped(q) /\ PhasesEnd' /\ pc'["app"] = pc["app"] /\ q = <<k>> \o Tail(s)
   BY <1>6, <2>1, <2>2
 <2>5. q = <<k>> BY <1>21, <2>1, <2>2, <2>4
 <2>6. (\A l : In("io", l)' <=> l = k) /\ \A l : At("io", l)' => l = k
  <3>1. Head(<<k>>) = k OBVIOUS
  <3> QED BY <2>2, <2>5, <3>1 DEF In, At
 <2>7. TcpIo' BY <2>2, <2>3, <2>4, <2>6 DEF TcpIo, StartLabels
 <2>8. TcpStream' BY <1>8, <2>1, <2>2, <2>3, <2>6
 <2> QED BY <2>1, <2>4, <2>7, <2>8
<1>31. CASE SetStarted("io")
 <2>1. /\ h = "set" /\ started' = TRUE /\ UNCHANGED <<connected, outcome>>
       /\ Goto("io", <<"test">>)
   BY <1>31 DEF SetStarted, At
 <2>2. Replaces(<<"test">>, h) /\ <<"test">> # <<"watch RE">>
  <3>1. "test" # "watch RE" OBVIOUS
  <3>2. <<"test">> # <<"watch RE">> BY <3>1
  <3> QED BY <2>1, <3>2, Replacements
 <2>3. TcpIo' /\ pc'["app"] = pc["app"] /\ \A l \in Labels \ StartSet : ~In("io", l)'
   BY <1>22, <2>1, <2>2
 <2>4. TcpStream' BY <1>23, <2>1, <2>3
 <2> QED BY <2>1, <2>3, <2>4
<1>32. CASE StoreTypes("io")
 <2>1. /\ h \in DOMAIN Stores /\ Goto("io", <<>>)
       /\ UNCHANGED <<started, connected, outcome, queue>>
   BY <1>32 DEF StoreTypes, At
 <2>2. h \notin {"connected", "unwatch timer", "start", "set", "test", "watch RE", "watch RWE"}
   BY <2>1, UpdateLabels
 <2>3. /\ Shaped(q) /\ PhasesEnd' /\ pc'["app"] = pc["app"]
       /\ \A l : At("io", l)' => In("io", l)' /\ h \in Before(l)
       /\ \A l : In("io", l)' => In("io", l)
       /\ \A l : In("io", l) /\ h # l => In("io", l)'
  <3>1. Replaces(<<>>, h) BY Replacements
  <3> QED BY <1>6, <1>13, <2>1, <3>1
 <2>4. \A l : At("io", l)' => l \in {"watch timer", "split", "error"}
   BY <2>1, <2>3, UpdateLabels DEF Before, Chain
 <2>5. {"watch timer", "split", "error"} \cap
         (Down \cup StartLabels \cup {"disconnected", "insert", "watch RE"}) = {}
   BY DEF Down, StartLabels
 <2>6. \A l \in Down \cup StartLabels \cup {"disconnected", "insert", "watch RE"} :
         ~At("io", l)'
   BY <2>4, <2>5
 <2>7. \A l \in StartSet : ~In("io", l)' BY <1>5, <2>2, <2>3
 <2>8. started' /\ connected' # "Connected" =>
         In("io", "refuse")' \/ In("io", "fail")' \/ In("io", "stop")'
  <3>1. h \notin {"refuse", "fail", "stop"} BY <2>1, UpdateLabels
  <3>2. started /\ connected # "Connected" =>
          In("io", "refuse") \/ In("io", "fail") \/ In("io", "stop")
    BY DEF TcpIo
  <3> QED BY <2>1, <2>3, <3>1, <3>2
 <2>9. /\ started' => outcome' = "connected"
       /\ \A l \in {"watch timer", "arm"} : In("io", l)' => ~started'
   BY <2>1, <2>3 DEF TcpIo
 <2>10. ~At("io", "disconnected")' /\ ~At("io", "insert")' /\ ~At("io", "watch RE")'
   BY <2>6
 <2>11. TcpIo' BY <2>3, <2>6, <2>7, <2>8, <2>9, <2>10 DEF TcpIo
 <2>12. h # "stop post" BY <2>1, UpdateLabels
 <2>13. TcpStream' BY <1>8, <1>9, <1>11, <2>1, <2>3, <2>12
 <2> QED BY <2>1, <2>3, <2>11, <2>13
<1>27. CASE Stop("io")
 <2>1. /\ h = "stop" /\ started' = FALSE /\ Goto("io", <<"stop post">>)
       /\ UNCHANGED <<connected, outcome, queue>>
   BY <1>27 DEF Stop, At
 <2>2. Replaces(<<"stop post">>, h) /\ \A l : Has(<<"stop post">>, l) <=> l = "stop post"
   BY <2>1, Replacements, WhatHas
 <2>3. \A l \in StartSet : ~Has(<<"stop post">>, l) BY <2>2 DEF StartLabels
 <2>4. TcpIo' /\ pc'["app"] = pc["app"] BY <1>7, <2>1, <2>2, <2>3
 <2>5. \A l \in {"disconnected", "syscall", "watch sock"} : In("io", l)' => In("io", l)
   BY <1>6, <2>1, <2>2
 <2>6. At("io", "stop post")'
  <3>1. /\ "io" \in Threads /\ <<"stop post">> \in Seq(Labels) /\ <<"stop post">> # <<>>
        /\ <<"stop post">>[1] = "stop post"
    BY StepSequences DEF Threads
  <3>2. pc'["io"] # <<>> /\ Head(pc'["io"]) = "stop post"
    BY <1>1, <2>1, <3>1, GotoIs
  <3> QED BY <3>2 DEF At
 <2>7. TcpStream' BY <1>8, <2>1, <2>5, <2>6
 <2> QED BY <2>1, <2>4, <2>7
<1>28. CASE StopPost("io")
 <2>1. /\ h = "stop post" /\ Goto("io", <<>>)
       /\ Post(<<Plain("disable"), Plain("disable timer")>>)
       /\ UNCHANGED <<connected, started, outcome>>
   BY <1>28 DEF StopPost, At
 <2>2. started' = FALSE BY <1>10, <1>12, <2>1 DEF Down
 <2>3. Replaces(<<>>, h) BY Replacements
 <2>4. TcpIo' /\ pc'["app"] = pc["app"] BY <1>7, <1>13, <2>1, <2>2, <2>3
 <2>5. \A l \in {"disconnected", "syscall", "watch sock"} : In("io", l)' => In("io", l)
   BY <1>6, <1>13, <2>1, <2>3
 <2>6. ~StreamAfter(Pending', cb)
  <3>1. /\ Plain("disable") \in Tasks /\ Plain("disable").op = "disable"
        /\ Plain("disable timer") \in Tasks /\ Plain("disable timer").op = "disable timer"
    BY PostedTask
  <3>2. PICK x, y : x = Plain("disable") /\ y = Plain("disable timer") OBVIOUS
  <3>3. x \in Tasks /\ y \in Tasks /\ Post(<<x, y>>) BY <2>1, <3>1, <3>2
  <3>4. /\ Pending \in Seq(Tasks) /\ Pending \o <<x>> \in Seq(Tasks)
        /\ Pending' = (Pending \o <<x>>) \o <<y>>
    BY <1>2, <3>3, BothPosted
  <3>5. x.op \in CbOps /\ ~IsStream(x) /\ y.op \notin CbOps
    BY <3>1, <3>2 DEF CbOps, IsStream
  <3>6. PICK mid \in Seq(Tasks) : mid = Pending \o <<x>> BY <3>4
  <3>7. ~StreamAfter(mid, cb) BY <3>3, <3>4, <3>5, <3>6, TaskPosted
  <3>8. StreamAfter(Pending', cb) <=> StreamAfter(mid, cb)
    BY <3>3, <3>4, <3>5, <3>6, TaskPosted
  <3> QED BY <3>7, <3>8
 <2>7. TcpStream' BY <1>8, <2>1, <2>5, <2>6
 <2> QED BY <2>1, <2>4, <2>7
<1>29. CASE OnError("io")
 <2>1. /\ h \in {"fail", "refuse"} /\ UNCHANGED <<connected, started, outcome, queue>>
       /\ \E steps : /\ steps = IF h = "fail" THEN <<"stop">> ELSE <<"stop", "callback">>
                     /\ Goto("io", steps)
   BY <1>29 DEF OnError, At
 <2>2. PICK steps : /\ steps = IF h = "fail" THEN <<"stop">> ELSE <<"stop", "callback">>
                    /\ Goto("io", steps)
   BY <2>1
 <2>3. Replaces(steps, h) /\ steps # <<>> /\ steps[1] = "stop" /\ Has(steps, "stop")
       /\ \A l : Has(steps, l) => l \in {"stop", "callback"}
   BY <2>1, <2>2, Replacements, WhatHas
 <2>4. /\ Shaped(q) /\ PhasesEnd' /\ pc'["app"] = pc["app"]
       /\ \A l : At("io", l)' => In("io", l)' /\ l = "stop"
       /\ \A l : In("io", l)' => Has(steps, l) \/ In("io", l)
       /\ In("io", "stop")'
   BY <1>6, <2>2, <2>3
 <2>5. \A l \in StartSet : ~In("io", l)'
  <3>1. \A l \in StartSet : ~Has(steps, l) BY <2>3 DEF StartLabels
  <3> QED BY <1>5, <2>1, <2>4, <3>1
 <2>6. {"stop"} \cap (Down \cup StartLabels \cup {"disconnected", "insert", "watch RE"}) = {}
   BY DEF Down, StartLabels
 <2>7. \A l \in Down \cup StartLabels \cup {"disconnected", "insert", "watch RE"} :
         ~At("io", l)'
   BY <2>4, <2>6
 <2>8. ~At("io", "disconnected")' /\ ~At("io", "insert")' /\ ~At("io", "watch RE")'
   BY <2>7
 <2>9. /\ started' => outcome' = "connected"
       /\ \A l \in {"watch timer", "arm"} : In("io", l)' => ~started'
   BY <2>1, <2>3, <2>4 DEF TcpIo
 <2>10. TcpIo' BY <2>4, <2>5, <2>7, <2>8, <2>9 DEF TcpIo
 <2>11. \A l \in {"disconnected", "syscall", "watch sock"} : In("io", l)' => In("io", l)
   BY <2>3, <2>4
 <2>12. TcpStream' BY <1>8, <1>9, <1>11, <2>1, <2>11
 <2> QED BY <2>1, <2>4, <2>10, <2>12
<1>30. CASE Callback("io")
 <2>1. /\ h = "callback" /\ UNCHANGED <<connected, started, queue>>
       /\ \E steps : steps \in {<<>>, <<"cas">>} /\ Goto("io", steps)
       /\ outcome' # "none"
   BY <1>30 DEF Callback, At
 <2>2. PICK steps : steps \in {<<>>, <<"cas">>} /\ Goto("io", steps) BY <2>1
 <2>3. Replaces(steps, h) /\ \A l : Has(steps, l) => l = "cas"
  <3>1. (\A l : Has(<<"cas">>, l) <=> l = "cas") /\ \A l : ~Has(<< >>, l)
    BY WhatHas
  <3>2. \A l : Has(steps, l) => l = "cas" BY <2>2, <3>1
  <3>3. Replaces(steps, h) BY <2>1, <2>2, Replacements
  <3> QED BY <3>2, <3>3
 <2>4. started' = FALSE BY <1>10, <1>12, <2>1 DEF Down
 <2>5. \A l \in StartSet : ~Has(steps, l) BY <2>3 DEF StartLabels
 <2>6. TcpIo' /\ pc'["app"] = pc["app"] BY <1>7, <2>1, <2>2, <2>3, <2>4, <2>5
 <2>7. \A l \in {"disconnected", "syscall", "watch sock"} : In("io", l)' => In("io", l)
   BY <1>6, <2>2, <2>3
 <2>8. TcpStream'
  <3>1. ~StreamAfter(Pending', cb)
   <4>1. ~started /\ h # "stop post" BY <1>10, <2>1 DEF Down
   <4> QED BY <1>9, <1>11, <2>1, <4>1
  <3>2. connected' \in {connected, "Connected"} BY <2>1
  <3> QED BY <1>8, <2>7, <3>1, <3>2
 <2> QED BY <2>1, <2>6, <2>8
<1> QED
  BY <1>14, <1>15, <1>16, <1>17, <1>19, <1>20, <1>24, <1>25, <1>26, <1>27, <1>28,
     <1>29, <1>30, <1>31, <1>32 DEF ThreadStep

\* The end of the connection goes to the end of the phases.
LEMMA ClosedLast ==
  ASSUME Types, pc["io"] # <<>>, Shaped(pc["io"]), PhasesEnd,
         Head(pc["io"]) \in {"read", "write"}, Disconnected
  PROVE  /\ Shaped(pc'["io"]) /\ PhasesEnd' /\ pc'["app"] = pc["app"]
         /\ \A l : At("io", l)' => Head(pc["io"]) \in Before(l)
         /\ \A l : In("io", l)' => l = "closed" \/ In("io", l)
         /\ \A l : In("io", l) /\ Head(pc["io"]) # l => In("io", l)'
<1>1. /\ pc \in [Threads -> Seq(Labels)] /\ "io" \in Threads
      /\ "closed" \in Labels
  BY DEF Types, LoopTypes, Threads, Labels
<1>2. PICK s \in Seq(Labels) : s = pc["io"] /\ s # <<>> /\ Shaped(s) BY <1>1
<1>n. PICK n \in Nat : n = Len(s) /\ n > 0 BY <1>2
<1>3. s[n] \in {"split", "closed"} /\ n > 1
 <2>1. s[1] = Head(s) /\ 1 \in DOMAIN s BY <1>2, <1>n
 <2>2. In("io", Head(s)) BY <1>2, <2>1 DEF In, Has
 <2>3. s[n] \in {"split", "closed"} BY <1>2, <1>n, <2>2 DEF PhasesEnd
 <2>4. s[1] \notin {"split", "closed"} BY <1>2, <2>1
 <2>5. n # 1 BY <2>3, <2>4
 <2> QED BY <1>n, <2>3, <2>5
<1>4. PICK r : r = Tail(s) OBVIOUS
<1>5. r = <<>> \o Tail(s) /\ <<>> \in Seq(Labels) /\ r \in Seq(Labels)
 <2>1. r \in Seq(Labels) BY <1>2, <1>4, HeadTailProperties
 <2>2. << >> \o r = r BY <2>1
 <2> QED BY <1>4, <2>1, <2>2, StepSequences
<1>6. /\ Shaped(r) /\ r # <<>> /\ r[Len(r)] = s[n] /\ Head(s) \in Before(Head(r))
 <2>1. Shaped(<<>>) BY Replaced, <1>1
 <2>2. /\ Shaped(<<>> \o Tail(s))
       /\ Len(s) > 1 => /\ <<>> \o Tail(s) # <<>>
                        /\ (<<>> \o Tail(s))[Len(<<>> \o Tail(s))] = s[Len(s)]
       /\ <<>> \o Tail(s) # <<>> => Head(s) \in Before(Head(<<>> \o Tail(s)))
   BY <1>2, <1>5, <2>1, StackShaped
 <2> QED BY <1>3, <1>5, <1>n, <2>2
<1>7. PICK q : q = pc'["io"] OBVIOUS
<1>8. \/ q = r
      \/ q = r \o <<"closed">> /\ \A i \in DOMAIN r : r[i] # "closed"
  BY <1>1, <1>2, <1>4, <1>7 DEF Disconnected
<1>9. Shaped(q) /\ q # <<>> /\ q[Len(q)] \in {"split", "closed"} /\ Head(q) = Head(r)
 <2>1. CASE q = r BY <1>3, <1>6, <2>1
 <2>2. CASE q = r \o <<"closed">> /\ \A i \in DOMAIN r : r[i] # "closed"
  <3>1. Len(r) \in Nat /\ Len(r) > 0 /\ Len(r) \in DOMAIN r BY <1>5, <1>6
  <3>2. r[Len(r)] = "split" BY <1>3, <1>6, <2>2, <3>1
  <3>3. "split" \in Before("closed") BY DEF Before
  <3>4. q \in Seq(Labels) /\ Len(q) = Len(r) + 1 /\ q[Len(q)] = "closed" /\ Shaped(q)
   <4>1. /\ q = r \o <<"closed">> /\ r \in Seq(Labels) /\ "closed" \in Labels
         /\ Shaped(r) /\ r[Len(r)] \in Before("closed")
     BY <1>1, <1>5, <1>6, <2>2, <3>2, <3>3
   <4>2. /\ r \o <<"closed">> \in Seq(Labels)
         /\ Len(r \o <<"closed">>) = Len(r) + 1
         /\ (r \o <<"closed">>)[Len(r \o <<"closed">>)] = "closed"
         /\ Shaped(r \o <<"closed">>)
     BY <4>1, Extended
   <4> QED BY <4>1, <4>2
  <3>6. q[1] = r[1] BY <1>5, <2>2, <3>1
  <3>5. q # <<>> /\ Head(q) = q[1] /\ Head(r) = r[1] /\ 1 \in 1..Len(r)
    BY <1>5, <1>6, <3>1, <3>4
  <3> QED BY <3>4, <3>5, <3>6
 <2> QED BY <1>8, <2>1, <2>2
<1>10. PhasesEnd' BY <1>7, <1>9 DEF PhasesEnd
<1>11. \A l : At("io", l)' => Head(pc["io"]) \in Before(l)
  BY <1>2, <1>6, <1>7, <1>9 DEF At
<1>12. /\ pc'["app"] = pc["app"]
       /\ \A l : In("io", l)' => l = "closed" \/ In("io", l)
       /\ \A l : In("io", l) /\ Head(pc["io"]) # l => In("io", l)'
  BY <1>1, DisconnectedIs
<1> QED BY <1>7, <1>9, <1>10, <1>11, <1>12

\* A phase of the stream callback, over TCP.
LEMMA TcpPhases ==
  ASSUME Types, InsertInv, TcpIo, TcpStream,
         Read \/ Write \/ PostUpdate \/ Error \/ Split \/ Closed
  PROVE  /\ TcpIo' /\ TcpStream' /\ pc'["app"] = pc["app"] /\ UNCHANGED outcome
<1> USE DEF client, entry, kernel, ghosts
<1> DEFINE s == pc["io"]
           q == pc'["io"]
           h == Head(s)
           StartSet == {"start"} \cup StartLabels
           After == {"split", "write", "error", "closed", "refuse", "stop"} \cup UpdateSteps
           New == {"closed", "refuse", "stop", "callback"} \cup UpdateSteps
<1>1. /\ pc \in [Threads -> Seq(Labels)] /\ "io" \in Threads
      /\ Shaped(s) /\ PhasesEnd
      /\ s # <<>> /\ h \in {"read", "write", "error", "split", "closed"} \cup DOMAIN Updates
      /\ UNCHANGED <<connected, started, exe, cb, outcome>>
  BY DEF Types, LoopTypes, Threads, TcpIo, Read, Write, PostUpdate, Error, Split, Closed, At
<1>2. At("io", h) /\ In("io", h) BY <1>1, HeadIn DEF At
<1>3. ~In("io", "insert")
 <2>1. SUFFICES ASSUME In("io", "insert") PROVE FALSE OBVIOUS
 <2>2. s = <<"insert">> BY <2>1 DEF InsertInv
 <2>3. Head(<<"insert">>) = "insert" OBVIOUS
 <2> QED BY <1>1, <2>2, <2>3, UpdateLabels
<1>4. \A l \in StartSet : ~In("io", l)
 <2>1. SUFFICES ASSUME NEW l \in StartSet, In("io", l) PROVE FALSE OBVIOUS
 <2>2. s \in Starts BY <2>1 DEF TcpIo
 <2> QED BY <1>1, <2>2, StartStacks, UpdateLabels
<1>5. /\ Shaped(q) /\ PhasesEnd' /\ pc'["app"] = pc["app"]
      /\ \A l : At("io", l)' => l \in After
      /\ \A l : In("io", l)' => In("io", l) \/ l \in New
      /\ \A l : In("io", l) /\ h # l => In("io", l)'
 <2>0. \A l : h \in Before(l) => l \in {"split", "write", "error", "closed", "refuse", "stop"}
   BY <1>1, UpdateLabels, UpdateStepsAre DEF Before, Chain
 <2>1. CASE Goto("io", <<>>)
  <3>1. Replaces(<<>>, h) /\ \A l : ~Has(<<>>, l) BY Replacements, WhatHas
  <3>2. /\ Shaped(q) /\ PhasesEnd' /\ pc'["app"] = pc["app"]
        /\ \A l : At("io", l)' => h \in Before(l)
        /\ \A l : In("io", l)' => Has(<<>>, l) \/ In("io", l)
        /\ \A l : Has(<<>>, l) \/ (In("io", l) /\ h # l) => In("io", l)'
    BY <1>1, <2>1, <3>1, IoReplaces
  <3> QED BY <2>0, <3>1, <3>2
 <2>2. ASSUME NEW steps, Replaces(steps, h), Goto("io", steps), steps # <<>>,
              steps[1] \in {"refuse", "stop"} \cup UpdateSteps,
              \A l : Has(steps, l) => l \in {"refuse", "stop", "callback"} \cup UpdateSteps
       PROVE  /\ Shaped(q) /\ PhasesEnd' /\ pc'["app"] = pc["app"]
              /\ \A l : At("io", l)' => l \in After
              /\ \A l : In("io", l)' => In("io", l) \/ l \in New
              /\ \A l : In("io", l) /\ h # l => In("io", l)'
  <3>1. /\ Shaped(q) /\ PhasesEnd' /\ pc'["app"] = pc["app"]
        /\ \A l : At("io", l)' => l = steps[1]
        /\ \A l : In("io", l)' => Has(steps, l) \/ In("io", l)
        /\ \A l : Has(steps, l) \/ (In("io", l) /\ h # l) => In("io", l)'
    BY <1>1, <2>2, IoReplaces
  <3> QED BY <2>2, <3>1
 <2>3. CASE Error /\ Goto("io", <<"refuse">>)
  <3>1. h = "error" BY <2>3 DEF Error, At
  <3>2. Replaces(<<"refuse">>, h) /\ \A l : Has(<<"refuse">>, l) <=> l = "refuse"
    BY <3>1, Replacements, WhatHas
  <3>3. <<"refuse">> # <<>> /\ <<"refuse">>[1] = "refuse" OBVIOUS
  <3>4. \A l : Has(<<"refuse">>, l) => l \in {"refuse", "stop", "callback"}
    BY <3>2
  <3> QED BY <2>2, <2>3, <3>2, <3>3, <3>4
 <2>4. CASE Closed
  <3>1. h = "closed" /\ Goto("io", <<"stop", "callback">>)
    BY <2>4 DEF Closed, At
  <3>2. /\ Replaces(<<"stop", "callback">>, h)
        /\ \A l : Has(<<"stop", "callback">>, l) <=> l \in {"stop", "callback"}
    BY <3>1, Replacements, WhatHas
  <3>3. <<"stop", "callback">> # <<>> /\ <<"stop", "callback">>[1] = "stop"
    OBVIOUS
  <3>4. \A l : Has(<<"stop", "callback">>, l) => l \in {"refuse", "stop", "callback"}
    BY <3>2
  <3> QED BY <2>2, <3>1, <3>2, <3>3, <3>4
 <2>5. CASE (Read \/ Write) /\ Disconnected
  <3>1. h \in {"read", "write"} BY <2>5 DEF Read, Write, At
  <3>2. /\ Shaped(q) /\ PhasesEnd' /\ pc'["app"] = pc["app"]
        /\ \A l : At("io", l)' => h \in Before(l)
        /\ \A l : In("io", l)' => l = "closed" \/ In("io", l)
        /\ \A l : In("io", l) /\ h # l => In("io", l)'
    BY <1>1, <2>5, <3>1, ClosedLast
  <3> QED BY <2>0, <3>2
 <2>6. ASSUME NEW k \in UpdateSteps, Replaces(<<k>>, h), Goto("io", <<k>>)
       PROVE  /\ Shaped(q) /\ PhasesEnd' /\ pc'["app"] = pc["app"]
              /\ \A l : At("io", l)' => l \in After
              /\ \A l : In("io", l)' => In("io", l) \/ l \in New
              /\ \A l : In("io", l) /\ h # l => In("io", l)'
  <3>1. \A l : Has(<<k>>, l) <=> l = k BY <2>6, WhatHas
  <3>2. <<k>> # <<>> /\ <<k>>[1] = k OBVIOUS
  <3> QED BY <2>2, <2>6, <3>1, <3>2
 <2>7. CASE Write
  <3>1. h = "write" BY <2>7 DEF Write, At
  <3>2. ASSUME NEW k \in DOMAIN Updates PROVE k \in UpdateSteps /\ Replaces(<<k>>, h)
    BY <3>1, Replacements DEF UpdateSteps
  <3> QED BY <2>1, <2>5, <2>6, <2>7, <3>2, WriteGoes
 <2>8. CASE PostUpdate
  <3>1. PICK k \in DOMAIN Stores, l \in DOMAIN Updates : At("io", l) /\ Goto("io", <<k>>)
    BY <2>8, PostIs
  <3>2. k \in UpdateSteps /\ Replaces(<<k>>, h)
    BY <3>1, Replacements DEF UpdateSteps, At
  <3> QED BY <2>6, <3>1, <3>2
 <2> QED BY <2>1, <2>3, <2>4, <2>5, <2>7, <2>8 DEF Read, Error, Split
<1>6. TcpIo'
 <2>1. After \cap (Down \cup StartLabels \cup {"disconnected", "insert", "watch RE"}) = {}
   BY UpdateStepsAre DEF Down, StartLabels
 <2>2. \A l \in Down \cup StartLabels \cup {"disconnected", "insert", "watch RE"} :
         ~At("io", l)'
   BY <1>5, <2>1
 <2>3. ~At("io", "disconnected")' /\ ~At("io", "insert")' /\ ~At("io", "watch RE")'
   BY <2>2
 <2>4. \A l \in StartSet : ~In("io", l)'
  <3>1. \A l \in StartSet : l \notin New BY UpdateStepsAre DEF StartLabels
  <3> QED BY <1>4, <1>5, <3>1
 <2>5. started' /\ connected' # "Connected" =>
         In("io", "refuse")' \/ In("io", "fail")' \/ In("io", "stop")'
  <3>1. started /\ connected # "Connected" =>
          In("io", "refuse") \/ In("io", "fail") \/ In("io", "stop")
    BY DEF TcpIo
  <3>2. h \notin {"refuse", "fail", "stop"} BY <1>1, UpdateLabels
  <3> QED BY <1>1, <1>5, <3>1, <3>2
 <2>6. /\ started' => outcome' = "connected"
       /\ \A l \in {"watch timer", "arm"} : In("io", l)' => ~started'
  <3>1. \A l \in {"watch timer", "arm"} : In("io", l)' => In("io", l)
    BY <1>5, UpdateStepsAre
  <3> QED BY <1>1, <3>1 DEF TcpIo
 <2> QED BY <1>5, <2>2, <2>3, <2>4, <2>5, <2>6 DEF TcpIo
<1>7. StreamAfter(Pending', cb) <=> StreamAfter(Pending, cb)
 <2>1. CASE UNCHANGED queue BY <1>1, <2>1 DEF Pending
 <2>2. CASE PostUpdate
  <3>1. PICK l \in DOMAIN Updates : Post(<<Update(Updates[l])>>) BY <2>2, PostIs
  <3>2. Updates[l] \in SUBSET EventTypes BY UpdateLabels
  <3>3. PICK x \in Tasks : x = Update(Updates[l]) /\ x.op = "update"
    BY <3>2, PostedTask
  <3>4. Pending \in Seq(Tasks) /\ Pending' = Pending \o <<x>>
    BY <1>1, <3>1, <3>3, PendingPosted
  <3>5. x.op \notin CbOps BY <3>3 DEF CbOps
  <3> QED BY <3>4, <3>5, TaskPosted
 <2> QED BY <2>1, <2>2 DEF Read, Write, Error, Split, Closed
<1>8. TcpStream'
 <2>1. /\ StreamAfter(exe, cb)' <=> StreamAfter(exe, cb)
       /\ StreamAfter(Pending, cb)' <=> StreamAfter(Pending', cb)
   BY <1>1 DEF StreamAfter, IsStream
 <2>2. /\ ~In("io", "disconnected") => ~In("io", "disconnected")'
       /\ ~In("io", "syscall") => ~In("io", "syscall")'
       /\ ~In("io", "watch sock") => ~In("io", "watch sock")'
       /\ In("io", "write")' => In("io", "write")
  <3>1. \A l \in {"disconnected", "syscall", "watch sock", "write"} :
          In("io", l)' => In("io", l)
    BY <1>5, UpdateStepsAre
  <3> QED BY <3>1
 <2>3. StreamAfter(Pending, cb) => started
  <3>1. ~At("io", "stop post") BY <1>1, UpdateLabels DEF At
  <3> QED BY <3>1 DEF TcpStream
 <2> QED BY <1>1, <1>7, <2>1, <2>2, <2>3 DEF TcpStream
<1> QED BY <1>1, <1>5, <1>6, <1>8

\* A task that runs leaves what the tasks make of the callback.
LEMMA CallbackAfter ==
  ASSUME Types, InsertInv, RunTask
  PROVE  /\ StreamAfter(exe', cb') <=> StreamAfter(exe, cb)
         /\ StreamAfter(Pending', cb') <=> StreamAfter(Pending, cb)
<1> USE DEF client, entry, kernel, ghosts
<1>1. CASE SendTaskQueues BY <1>1 DEF SendTaskQueues, Pending
<1>2. CASE ~SendTaskQueues
 <2>1. exe # <<>> /\ exe' = Tail(exe) /\ cb' = CbRun(Head(exe), cb)
  <3>1. CASE EnableTask BY <3>1 DEF EnableTask, Running, CbRun
  <3>2. CASE DisableTask BY <3>2 DEF DisableTask, Running, CbRun
  <3>3. CASE EnableTimerTask \/ DisableTimerTask \/ ArmTask
    BY <3>3 DEF EnableTimerTask, DisableTimerTask, ArmTask, Running, CbRun
  <3>4. CASE Insert
   <4>1. exe # <<>> /\ Head(exe).op = "send"
    <5>1. In("io", "insert") BY <3>4, HeadIn DEF Insert, Threads
    <5> QED BY <5>1 DEF InsertInv
   <4> QED BY <3>4, <4>1 DEF Insert, CbRun
  <3>5. CASE SendTaskSends BY <3>5 DEF SendTaskSends, Running, CbRun
  <3> QED BY <1>2, <3>1, <3>2, <3>3, <3>4, <3>5 DEF RunTask
 <2>2. exe \in Seq(Tasks) /\ Head(exe) = exe[1] BY <2>1 DEF Types, LoopTypes
 <2>3. StreamAfter(exe', cb') <=> StreamAfter(exe, cb) BY <2>1, <2>2, TaskRun
 <2>4. queue' = queue
   BY <1>2 DEF RunTask, EnableTask, DisableTask, EnableTimerTask, DisableTimerTask, ArmTask,
      Insert, SendTaskSends
 <2>5. /\ Pending \in Seq(Tasks) /\ Pending # <<>> /\ Pending' = Tail(Pending)
       /\ Pending[1] = Head(exe)
   BY <2>1, <2>4, PendingRun
 <2>6. StreamAfter(Pending', cb') <=> StreamAfter(Pending, cb)
   BY <2>1, <2>5, TaskRun
 <2> QED BY <2>3, <2>6
<1> QED BY <1>1, <1>2

\* A task, over TCP.
LEMMA TcpTasks ==
  ASSUME Types, InsertInv, TcpIo, TcpStream, RunTask
  PROVE  /\ TcpIo' /\ TcpStream' /\ pc'["app"] = pc["app"] /\ UNCHANGED outcome
<1> USE DEF client, entry, kernel, ghosts
<1> DEFINE s == pc["io"]
           q == pc'["io"]
<1>1. /\ pc \in [Threads -> Seq(Labels)] /\ "io" \in Threads /\ "app" \in Threads
      /\ "io" # "app"
  BY DEF Types, LoopTypes, Threads
<1>2. UNCHANGED <<connected, started, outcome>>
  BY DEF RunTask, EnableTask, DisableTask, EnableTimerTask, DisableTimerTask, ArmTask,
     SendTaskQueues, Insert, SendTaskSends
<1>3. /\ s = <<>> \/ s = <<"insert">>
      /\ q = <<>> \/ (q = <<"insert">> /\ SendTaskQueues) \/ \E l \in DOMAIN Updates : q = <<l>>
      /\ pc'["app"] = pc["app"]
 <2>1. CASE Insert
  <3>1. s = <<"insert">>
   <4>1. In("io", "insert") BY <1>1, <2>1, HeadIn DEF Insert
   <4> QED BY <4>1 DEF InsertInv
  <3>2. << >> \o Tail(<<"insert">>) = << >> OBVIOUS
  <3> QED BY <1>1, <2>1, <3>1, <3>2 DEF Insert, Goto
 <2>2. CASE SendTaskQueues BY <1>1, <2>2 DEF SendTaskQueues, Running
 <2>3. CASE \/ EnableTask \/ DisableTask \/ EnableTimerTask \/ DisableTimerTask
            \/ ArmTask
   BY <2>3 DEF EnableTask, DisableTask, EnableTimerTask, DisableTimerTask, ArmTask, Running
 <2>4. CASE SendTaskSends BY <1>1, <2>4, SendGoes
 <2> QED BY <2>1, <2>2, <2>3, <2>4 DEF RunTask
<1>4. /\ \A l : In("io", l)' => l = "insert" \/ l \in UpdateSteps
      /\ \A l : In("io", l) => l = "insert"
      /\ \A l : At("io", l)' => (l = "insert" /\ SendTaskQueues) \/ l \in UpdateSteps
 <2>1. /\ \A l : ~Has(<< >>, l)
       /\ \A l : Has(<<"insert">>, l) <=> l = "insert"
       /\ \A k \in DOMAIN Updates : k \in UpdateSteps /\ \A l : Has(<<k>>, l) <=> l = k
   BY WhatHas DEF UpdateSteps
 <2>2. \A l : (In("io", l)' <=> Has(q, l)) /\ (In("io", l) <=> Has(s, l))
   BY DEF In
 <2>3. Head(<<"insert">>) = "insert" /\ \A k : Head(<<k>>) = k OBVIOUS
 <2>4. \A l : At("io", l)' => (l = "insert" /\ SendTaskQueues) \/ l \in UpdateSteps
   BY <1>3, <2>3 DEF At, UpdateSteps
 <2> QED BY <1>3, <2>1, <2>2, <2>4
<1>5. Shaped(q) /\ PhasesEnd'
 <2>1. Shaped(q)
  <3>1. "insert" \in Labels /\ DOMAIN Updates \subseteq Labels
    BY UpdateLabels DEF Labels
  <3>2. Shaped(<< >>) /\ \A k \in Labels : Shaped(<<k>>) BY Replaced DEF Labels
  <3> QED BY <1>3, <3>1, <3>2
 <2>2. \A l \in {"read", "write", "error"} : ~In("io", l)'
   BY <1>4, UpdateStepsAre
 <2> QED BY <2>1, <2>2 DEF PhasesEnd
<1>6. TcpIo'
 <2>1. \A l \in Down \cup StartLabels \cup {"disconnected", "watch RE"} : ~At("io", l)'
   BY <1>4, UpdateStepsAre DEF Down, StartLabels
 <2>2. ~At("io", "disconnected")' /\ ~At("io", "watch RE")' BY <2>1
 <2>3. \A l \in {"start"} \cup StartLabels : ~In("io", l)'
   BY <1>4, UpdateStepsAre DEF StartLabels
 <2>4. At("io", "insert")' => MustQueue'
  <3>1. SUFFICES ASSUME At("io", "insert")' PROVE MustQueue' OBVIOUS
  <3>2. SendTaskQueues BY <1>4, <3>1, UpdateStepsAre
  <3> QED BY <3>2 DEF SendTaskQueues, MustQueue
 <2>5. started' => connected' = "Connected" /\ outcome' = "connected"
  <3>1. started /\ connected # "Connected" =>
          In("io", "refuse") \/ In("io", "fail") \/ In("io", "stop")
    BY DEF TcpIo
  <3>2. ~In("io", "refuse") /\ ~In("io", "fail") /\ ~In("io", "stop")
   <4>1. \A l \in {"refuse", "fail", "stop"} : ~In("io", l) BY <1>4
   <4> QED BY <4>1
  <3> QED BY <1>2, <3>1, <3>2 DEF TcpIo
 <2>6. \A l \in {"watch timer", "arm"} : ~In("io", l)' BY <1>4, UpdateStepsAre
 <2> QED BY <1>5, <2>1, <2>2, <2>3, <2>4, <2>5, <2>6 DEF TcpIo
<1>7. TcpStream'
 <2>1. /\ StreamAfter(exe', cb') <=> StreamAfter(exe, cb)
       /\ StreamAfter(Pending', cb') <=> StreamAfter(Pending, cb)
   BY CallbackAfter
 <2>2. /\ StreamAfter(exe, cb)' <=> StreamAfter(exe', cb')
       /\ StreamAfter(Pending, cb)' <=> StreamAfter(Pending', cb')
   BY DEF StreamAfter, IsStream
 <2>3. /\ ~In("io", "disconnected")' /\ ~In("io", "syscall")'
       /\ ~In("io", "watch sock")' /\ ~In("io", "write")'
  <3>1. \A l \in {"disconnected", "syscall", "watch sock", "write"} : ~In("io", l)'
    BY <1>4, UpdateStepsAre
  <3> QED BY <3>1
 <2>4. ~At("io", "stop post")
  <3>1. Head(<<"insert">>) = "insert" OBVIOUS
  <3> QED BY <1>3, <3>1 DEF At
 <2> QED BY <1>2, <2>1, <2>2, <2>3, <2>4 DEF TcpStream
<1> QED BY <1>2, <1>3, <1>6, <1>7

\* An event, over TCP.
LEMMA TcpEvents ==
  ASSUME Types, TcpIo, TcpStream,
         \/ epoll_wait \/ TakeTasks \/ NoHandler \/ SocketCb \/ TimerCb \/ StreamCb
  PROVE  /\ TcpIo' /\ TcpStream' /\ pc'["app"] = pc["app"] /\ UNCHANGED outcome
<1> USE DEF client, entry, kernel, ghosts
<1> DEFINE s == pc["io"]
           q == pc'["io"]
<1>1. /\ pc \in [Threads -> Seq(Labels)] /\ "io" \in Threads /\ "app" \in Threads
      /\ "io" # "app" /\ s = <<>> /\ exe = <<>>
      /\ UNCHANGED <<connected, started, outcome, send_buf, cb>>
  BY DEF Types, LoopTypes, Threads, epoll_wait, TakeTasks, NoHandler, SocketCb,
     TimerCb, StreamCb, Event
<1>2. \A l : ~In("io", l) BY <1>1, Idle
<1>3. started => connected = "Connected" /\ outcome = "connected"
 <2>1. ~In("io", "refuse") /\ ~In("io", "fail") /\ ~In("io", "stop") BY <1>2
 <2> QED BY <2>1 DEF TcpIo
<1>4. ~At("io", "stop post") BY <1>1 DEF At
<1>5. CASE q = <<>> /\ pc'["app"] = pc["app"] /\ (TakeTasks \/ UNCHANGED <<exe, queue>>)
 <2>1. \A l : ~In("io", l)' /\ ~At("io", l)'
  <3>1. \A l : ~Has(<< >>, l) BY WhatHas
  <3> QED BY <1>5, <3>1 DEF In, At
 <2>2. Shaped(q) /\ PhasesEnd' BY <1>5, <2>1, Replaced DEF PhasesEnd, Labels
 <2>3. TcpIo' BY <1>1, <1>3, <2>1, <2>2 DEF TcpIo
 <2>4. StreamAfter(Pending, cb)' => started'
  <3>1. Pending' = Pending BY <1>5, PendingTaken DEF Pending
  <3>2. StreamAfter(Pending, cb)' <=> StreamAfter(Pending, cb)
    BY <1>1, <3>1 DEF StreamAfter, IsStream
  <3> QED BY <1>1, <1>4, <3>2 DEF TcpStream
 <2>5. StreamAfter(exe, cb)' => connected' = "Connected"
  <3>1. CASE TakeTasks
   <4>1. exe' = Pending /\ Pending' = Pending BY <3>1, PendingTaken
   <4>2. StreamAfter(exe, cb)' <=> StreamAfter(Pending, cb)'
     BY <4>1 DEF StreamAfter, IsStream
   <4> QED BY <1>1, <1>3, <2>4, <4>2
  <3>2. CASE UNCHANGED <<exe, queue>>
   <4>1. StreamAfter(exe, cb)' <=> StreamAfter(exe, cb)
     BY <1>1, <3>2 DEF StreamAfter, IsStream
   <4> QED BY <1>1, <4>1 DEF TcpStream
  <3> QED BY <1>5, <3>1, <3>2
 <2>6. TcpStream' BY <2>1, <2>4, <2>5 DEF TcpStream
 <2> QED BY <1>1, <1>5, <2>3, <2>6
<1>6. ASSUME NEW steps \in Seq(Labels), pc' = [pc EXCEPT !["io"] = steps], Shaped(steps),
             UNCHANGED <<exe, queue>>
      PROVE  /\ q = steps /\ pc'["app"] = pc["app"] /\ Shaped(q)
             /\ \A l : In("io", l)' <=> Has(steps, l)
             /\ StreamAfter(exe, cb)' <=> cb = "stream"
             /\ StreamAfter(Pending, cb)' => started'
             /\ cb = "stream" => connected' = "Connected"
 <2>1. q = steps /\ pc'["app"] = pc["app"] BY <1>1, <1>6
 <2>2. StreamAfter(exe, cb) <=> cb = "stream" BY <1>1 DEF StreamAfter
 <2>3. StreamAfter(exe, cb)' <=> StreamAfter(exe, cb)
   BY <1>1, <1>6 DEF StreamAfter, IsStream
 <2>4. StreamAfter(Pending, cb)' <=> StreamAfter(Pending, cb)
   BY <1>1, <1>6 DEF StreamAfter, IsStream, Pending
 <2>5. StreamAfter(Pending, cb) => started BY <1>4 DEF TcpStream
 <2>6. cb = "stream" => connected = "Connected" BY <2>2 DEF TcpStream
 <2>7. \A l : In("io", l)' <=> Has(steps, l) BY <2>1 DEF In
 <2> QED BY <1>1, <1>6, <2>1, <2>2, <2>3, <2>4, <2>5, <2>6, <2>7
<1>7. /\ \A l : Has(Failure, l) <=> l \in {"disconnected", "unwatch timer", "refuse"}
      /\ \A l : Has(Success, l) <=> l \in {"connected", "unwatch timer", "start"}
      /\ \A l : Has(<<"unwatch timer">>, l) <=> l = "unwatch timer"
      /\ Head(Failure) = "disconnected" /\ Head(Success) = "connected"
      /\ Head(<<"unwatch timer">>) = "unwatch timer"
 <2>1. \A l : Has(Failure, l) <=> l \in {"disconnected", "unwatch timer", "refuse"}
   BY WhatHas DEF Failure
 <2>2. \A l : Has(Success, l) <=> l \in {"connected", "unwatch timer", "start"}
   BY WhatHas DEF Success
 <2>3. \A l : Has(<<"unwatch timer">>, l) <=> l = "unwatch timer" BY WhatHas
 <2>4. Head(Failure) = "disconnected" BY DEF Failure
 <2>5. Head(Success) = "connected" BY DEF Success
 <2>6. Head(<<"unwatch timer">>) = "unwatch timer" OBVIOUS
 <2> QED BY <2>1, <2>2, <2>3, <2>4, <2>5, <2>6
\* The stacks of socket_cb and timer_cb.
<1>8. ASSUME pc' = [pc EXCEPT !["io"] = Failure], UNCHANGED <<exe, queue>>,
             cb # "stream"
      PROVE  TcpIo' /\ TcpStream' /\ pc'["app"] = pc["app"]
 <2>1. Failure \in Seq(Labels) /\ Shaped(Failure) BY StepSequences, Replaced
 <2>2. /\ q = Failure /\ pc'["app"] = pc["app"] /\ Shaped(q)
       /\ \A l : In("io", l)' <=> Has(Failure, l)
       /\ StreamAfter(exe, cb)' <=> cb = "stream"
       /\ StreamAfter(Pending, cb)' => started'
   BY <1>6, <1>8, <2>1
 <2>3. \A l : In("io", l)' <=> l \in {"disconnected", "unwatch timer", "refuse"}
   BY <1>7, <2>2
 <2>4. \A l : At("io", l)' => l = "disconnected" BY <1>7, <2>2 DEF At
 <2>5. PhasesEnd'
  <3>1. \A l \in {"read", "write", "error"} : ~In("io", l)' BY <2>3
  <3> QED BY <3>1 DEF PhasesEnd
 <2>6. \A l \in Down \cup StartLabels \cup {"insert", "watch RE"} : ~At("io", l)'
   BY <2>4 DEF Down, StartLabels
 <2>7. ~At("io", "insert")' /\ ~At("io", "watch RE")' BY <2>6
 <2>8. \A l \in {"start", "watch timer", "arm"} \cup StartLabels : ~In("io", l)'
   BY <2>3 DEF StartLabels
 <2>9. In("io", "refuse")' /\ ~In("io", "write")'
  <3>1. (\A l \in {"refuse"} : In("io", l)') /\ \A l \in {"write"} : ~In("io", l)'
    BY <2>3
  <3> QED BY <3>1
 <2>10. TcpIo' BY <1>1, <1>3, <2>2, <2>5, <2>6, <2>7, <2>8, <2>9 DEF TcpIo
 <2>11. TcpStream' BY <1>8, <2>2, <2>9 DEF TcpStream
 <2> QED BY <2>2, <2>10, <2>11
<1>9. ASSUME NEW steps \in {Success, <<"unwatch timer">>},
             pc' = [pc EXCEPT !["io"] = steps], UNCHANGED <<exe, queue>>
      PROVE  TcpIo' /\ TcpStream' /\ pc'["app"] = pc["app"]
 <2>1. steps \in Seq(Labels) /\ Shaped(steps)
   BY StepSequences, Replaced DEF Labels
 <2>2. /\ q = steps /\ pc'["app"] = pc["app"] /\ Shaped(q)
       /\ \A l : In("io", l)' <=> Has(steps, l)
       /\ StreamAfter(exe, cb)' <=> cb = "stream"
       /\ StreamAfter(Pending, cb)' => started'
       /\ cb = "stream" => connected' = "Connected"
   BY <1>6, <1>9, <2>1
 <2>3. /\ \A l : In("io", l)' => l \in {"connected", "unwatch timer", "start"}
       /\ \A l : In("io", l)' /\ l = "start" => steps = Success
   BY <1>7, <1>9, <2>2
 <2>4. \A l : At("io", l)' => l \in {"connected", "unwatch timer"}
  <3>1. Head(steps) \in {"connected", "unwatch timer"} BY <1>7, <1>9
  <3> QED BY <2>2, <3>1 DEF At
 <2>5. PhasesEnd'
  <3>1. \A l \in {"read", "write", "error"} : ~In("io", l)' BY <2>3
  <3> QED BY <3>1 DEF PhasesEnd
 <2>6. \A l \in Down \cup StartLabels \cup {"insert", "watch RE", "disconnected"} : ~At("io", l)'
   BY <2>4 DEF Down, StartLabels
 <2>7. ~At("io", "insert")' /\ ~At("io", "watch RE")' /\ ~At("io", "disconnected")'
   BY <2>6
 <2>8. ASSUME NEW l \in {"start"} \cup StartLabels, In("io", l)'
       PROVE  q \in Starts /\ At("io", "connected")'
  <3>1. l = "start" BY <2>3, <2>8 DEF StartLabels
  <3>2. q = Success BY <2>2, <2>3, <2>8, <3>1
  <3>3. Success # <<>> BY DEF Success
  <3> QED BY <1>7, <3>2, <3>3 DEF Starts, At
 <2>9. /\ ~In("io", "write")' /\ ~In("io", "disconnected")'
       /\ ~In("io", "syscall")' /\ ~In("io", "watch sock")'
       /\ ~In("io", "watch timer")' /\ ~In("io", "arm")'
  <3>1. \A l \in {"write", "disconnected", "syscall", "watch sock", "watch timer", "arm"} :
          ~In("io", l)'
    BY <2>3
  <3> QED BY <3>1
 <2>10. TcpIo' BY <1>1, <1>3, <2>2, <2>5, <2>6, <2>7, <2>8, <2>9 DEF TcpIo
 <2>11. TcpStream' BY <2>2, <2>9 DEF TcpStream
 <2> QED BY <2>2, <2>10, <2>11
<1>10. CASE StreamCb
 <2>1. /\ Head(evs).types \in SUBSET EventTypes /\ cb = "stream"
       /\ UNCHANGED <<exe, queue>>
   BY <1>10, NextEvent DEF StreamCb
 <2>2. PICK p : /\ p = Phases(Head(evs).types) /\ pc' = [pc EXCEPT !["io"] = p]
   BY <1>10 DEF StreamCb, Phases
 <2>3. /\ p \in Seq(Labels) /\ Len(p) > 0 /\ p[Len(p)] = "split" /\ Shaped(p)
       /\ \A l : Has(p, l) => l \in {"read", "write", "error", "split"}
   BY <2>2, PhasesAre
 <2>4. /\ q = p /\ pc'["app"] = pc["app"] /\ Shaped(q)
       /\ \A l : In("io", l)' <=> Has(p, l)
       /\ StreamAfter(Pending, cb)' => started'
       /\ connected' = "Connected"
   BY <1>6, <2>1, <2>2, <2>3
 <2>5. \A l : In("io", l)' => l \in {"read", "write", "error", "split"}
   BY <2>3, <2>4
 <2>6. PhasesEnd' BY <2>3, <2>4 DEF PhasesEnd
 <2>7. \A l : At("io", l)' => In("io", l)'
  <3>1. \A l : p # <<>> /\ Head(p) = l => 1 \in DOMAIN p /\ p[1] = l BY <2>3
  <3> QED BY <2>4, <3>1 DEF At, In, Has
 <2>8. \A l \in Down \cup StartLabels \cup {"insert", "watch RE", "disconnected"} : ~At("io", l)'
   BY <2>5, <2>7 DEF Down, StartLabels
 <2>9. ~At("io", "insert")' /\ ~At("io", "watch RE")' /\ ~At("io", "disconnected")'
   BY <2>8
 <2>10. \A l \in {"start", "watch timer", "arm"} \cup StartLabels : ~In("io", l)'
   BY <2>5 DEF StartLabels
 <2>11. ~In("io", "disconnected")' /\ ~In("io", "syscall")' /\ ~In("io", "watch sock")'
  <3>1. \A l \in {"disconnected", "syscall", "watch sock"} : ~In("io", l)'
    BY <2>5
  <3> QED BY <3>1
 <2>12. TcpIo' BY <1>1, <1>3, <2>4, <2>6, <2>8, <2>9, <2>10 DEF TcpIo
 <2>13. TcpStream' BY <1>1, <2>1, <2>4, <2>11 DEF TcpStream
 <2> QED BY <1>1, <2>4, <2>12, <2>13
<1>11. CASE SocketCb
 <2>1. /\ cb = "connect" /\ UNCHANGED <<exe, queue>>
       /\ pc' = [pc EXCEPT !["io"] = Failure] \/ pc' = [pc EXCEPT !["io"] = Success]
   BY <1>11 DEF SocketCb, Attempt
 <2> QED BY <1>1, <1>8, <1>9, <2>1
<1>12. CASE TimerCb
 <2>1. /\ UNCHANGED <<exe, queue>>
       /\ \/ connected # "Connected" /\ pc' = [pc EXCEPT !["io"] = Failure]
          \/ pc' = [pc EXCEPT !["io"] = <<"unwatch timer">>]
   BY <1>12 DEF TimerCb
 <2>2. connected # "Connected" => cb # "stream"
  <3>1. StreamAfter(exe, cb) <=> cb = "stream" BY <1>1 DEF StreamAfter
  <3> QED BY <3>1 DEF TcpStream
 <2> QED BY <1>1, <1>8, <1>9, <2>1, <2>2
<1>13. CASE epoll_wait \/ TakeTasks \/ NoHandler
 <2>1. q = <<>> /\ pc'["app"] = pc["app"] /\ (TakeTasks \/ UNCHANGED <<exe, queue>>)
   BY <1>1, <1>13 DEF epoll_wait, TakeTasks, NoHandler
 <2> QED BY <1>5, <2>1
<1> QED BY <1>10, <1>11, <1>12, <1>13

----------------------------------------
\* Over TCP, the rest of the steps.

LEMMA UnusedIsFine == Unused => TcpIo /\ TcpStream
<1> SUFFICES ASSUME Unused PROVE TcpIo /\ TcpStream OBVIOUS
<1>1. Shaped(pc["io"]) BY Replaced DEF Unused, Labels
<1>2. \A l : In("io", l) => l = "insert"
 <2>1. \A l : ~Has(<<>>, l) BY WhatHas
 <2>2. \A l : Has(<<"insert">>, l) <=> l = "insert" BY WhatHas
 <2> QED BY <2>1, <2>2 DEF Unused, In
<1>3. \A l : At("io", l) => l = "insert"
 <2>1. Head(<<"insert">>) = "insert" OBVIOUS
 <2> QED BY <2>1 DEF Unused, At
<1>4. \A l \in {"read", "write", "error", "start", "set", "test", "watch RE",
               "watch RWE", "watch timer", "arm"} :
        ~In("io", l)
  BY <1>2
<1>5. \A l \in Down \cup StartLabels \cup {"disconnected"} : ~At("io", l)
  BY <1>3 DEF Down, StartLabels
<1>6. PhasesEnd BY <1>4 DEF PhasesEnd
<1>7. ~At("io", "disconnected") /\ ~In("io", "write") /\ ~At("io", "watch RE")
 <2>1. /\ \A l \in {"disconnected", "watch RE"} : ~At("io", l)
       /\ \A l \in {"write"} : ~In("io", l)
   BY <1>4, <1>5 DEF StartLabels
 <2> QED BY <2>1
<1>8. \A l \in {"start", "watch timer", "arm"} \cup StartLabels : ~In("io", l)
  BY <1>4 DEF StartLabels
<1>9. TcpIo BY <1>1, <1>5, <1>6, <1>7, <1>8 DEF TcpIo, Unused, MustQueue
<1>10. TcpStream BY <1>7 DEF TcpStream, Unused
<1> QED BY <1>9, <1>10

LEMMA FreshIsUnused == Types /\ Fresh => Unused
<1> SUFFICES ASSUME Types, Fresh PROVE Unused OBVIOUS
<1>1. exe \in Seq(Tasks) /\ queue \in Seq(Tasks) BY DEF Types, LoopTypes
<1>2. \A i \in DOMAIN Pending : ~IsStream(Pending[i]) BY DEF Fresh, IsStream
<1>3. \A i \in DOMAIN exe : i \in DOMAIN Pending /\ Pending[i] = exe[i]
  BY <1>1 DEF Pending
<1>4. \A i \in DOMAIN exe : ~IsStream(exe[i]) BY <1>2, <1>3
<1>5. cb # "stream" BY DEF Fresh
<1>6. ~StreamAfter(exe, cb) /\ ~StreamAfter(Pending, cb)
  BY <1>2, <1>4, <1>5 DEF StreamAfter
<1> QED BY <1>6 DEF Fresh, Unused

LEMMA FreshIsFine == Types' /\ Fresh' => TcpIo' /\ TcpStream'
<1>1. Types /\ Fresh => TcpIo /\ TcpStream BY FreshIsUnused, UnusedIsFine
<1> QED BY <1>1, PTL

\* Steps of others.
LEMMA TcpOthers ==
  ASSUME Types, TcpIo, TcpStream, pc'["io"] = pc["io"],
         UNCHANGED <<connected, started, send_buf, outcome, exe, cb>>,
         StreamAfter(Pending', cb') <=> StreamAfter(Pending, cb)
  PROVE  TcpIo' /\ TcpStream'
<1>1. \A l : (In("io", l)' <=> In("io", l)) /\ (At("io", l)' <=> At("io", l))
  BY DEF In, At
<1>2. PhasesEnd' BY <1>1 DEF TcpIo, PhasesEnd
<1>3. TcpIo' BY <1>1, <1>2 DEF TcpIo, MustQueue
<1>4. TcpStream' BY <1>1 DEF TcpStream
<1> QED BY <1>3, <1>4

LEMMA TcpNet ==
  ASSUME Types, TcpIo, TcpStream,
         \/ \E m \in Messages : PostSend(m)
         \/ ConnectEnds \/ PeerSends \/ PeerCloses \/ Drain \/ Expire
         \/ \E e \in NetErrors : Breaks(e)
  PROVE  TcpIo' /\ TcpStream' /\ pc' = pc /\ UNCHANGED outcome
<1> USE DEF client, entry, kernel, ghosts
<1>1. CASE UNCHANGED <<pc, connected, started, event_types, send_buf, outcome,
                       exe, cb, queue>>
 <2>1. StreamAfter(Pending', cb') <=> StreamAfter(Pending, cb)
   BY <1>1 DEF Pending
 <2> QED BY <1>1, <2>1, TcpOthers
<1>2. ASSUME NEW m \in Messages, PostSend(m) PROVE TcpIo' /\ TcpStream' /\ pc' = pc /\ UNCHANGED outcome
 <2>1. /\ UNCHANGED <<pc, connected, started, event_types, send_buf, outcome, exe, cb>>
       /\ Post(<<Send(m)>>)
   BY <1>2 DEF PostSend
 <2>2. PICK x \in Tasks : x = Send(m) /\ x.op = "send" BY PostedTask
 <2>3. Pending \in Seq(Tasks) /\ Pending' = Pending \o <<x>>
   BY <2>1, <2>2, PendingPosted
 <2>4. StreamAfter(Pending', cb) <=> StreamAfter(Pending, cb)
  <3>1. x.op \notin CbOps BY <2>2 DEF CbOps
  <3> QED BY <2>3, <3>1, TaskPosted
 <2>5. TcpIo' /\ TcpStream' BY <2>1, <2>4, TcpOthers
 <2> QED BY <2>1, <2>5
<1>3. CASE ConnectEnds \/ PeerSends \/ PeerCloses \/ Drain \/ Expire
           \/ \E e \in NetErrors : Breaks(e)
 <2>1. UNCHANGED <<pc, connected, started, event_types, send_buf, outcome, exe, cb, queue>>
   BY <1>3 DEF ConnectEnds, PeerSends, PeerCloses, Drain, Expire, Breaks, Quietly
 <2> QED BY <1>1, <2>1
<1> QED BY <1>2, <1>3

\* The application's thread, when it is still in its one call of connect().
LEMMA TcpAppGoes ==
  ASSUME Tcp, Types, TcpApp, TcpIo, TcpStream, ThreadStep("app")
  PROVE  Types' => TcpApp' /\ TcpIo' /\ TcpStream'
<1> USE DEF client, entry, kernel, ghosts
<1> DEFINE s == pc["app"]
           q == pc'["app"]
<1>1. /\ pc \in [Threads -> Seq(Labels)] /\ "app" \in Threads /\ "io" \in Threads
      /\ s # <<>> /\ pc'["io"] = pc["io"] /\ ~Immediate
  BY CallSteps DEF Types, LoopTypes, Threads, Tcp
<1>2. UNCHANGED <<send_buf, exe, cb>> BY <1>1, CallFrame
<1>3. CASE Attempting /\ Fresh /\ sk = "idle"
 <2>1. /\ Fresh' /\ (outcome' = "none" => outcome = "none")
       /\ s = <<"cas">> => outcome' # "none" \/ q = <<>>
       /\ (sk' = "idle" /\ (q = <<>> \/ Attempting')) \/ q = InProgress
   BY <1>1, <1>3, AttemptGoes
 <2>2. Types' => TcpIo' /\ TcpStream' BY <2>1, FreshIsFine
 <2>3. InProgress # <<>> BY DEF InProgress
 <2>4. outcome' = "none" => q = <<>> /\ sk' = "idle"
  <3>1. outcome = "none" => s = <<"cas">> BY <1>1 DEF TcpApp
  <3> QED BY <2>1, <2>3, <3>1
 <2>5. TcpApp' BY <2>1, <2>4 DEF TcpApp
 <2> QED BY <2>2, <2>5
<1>4. CASE s = InProgress /\ Fresh
 <2>1. Head(s) = "watch sock" /\ outcome # "none"
  <3>1. Head(InProgress) = "watch sock" BY DEF InProgress
  <3>2. Head(s) = "watch sock" BY <1>4, <3>1
  <3>3. Head(<<"cas">>) = "cas" OBVIOUS
  <3>4. s # <<"cas">> BY <3>2, <3>3
  <3> QED BY <1>1, <3>2, <3>4 DEF TcpApp
 <2>2. WatchSock("app")
   BY <1>1, <2>1, UpdateLabels DEF ThreadStep, At, ConnectIgnored, ConnectBegins, Syscall, SetConnected,
      SetDisconnected, StoreTypes, PostTimer, Start, SetStarted, StartTest, StartPost, Stop, StopPost, OnError, Callback
 <2>3. /\ Post(<<Enable("connect", {"W"})>>) /\ q = <<"storeW">> \o Tail(s)
       /\ UNCHANGED <<connected, started, outcome>>
   BY <1>1, <2>2 DEF WatchSock, Goto
 <2>4. q = <<"storeW", "watch timer", "arm">>
  <3>1. Tail(InProgress) = <<"watch timer", "arm">>
   <4>1. \A a, b, c \in Labels : Tail(<<a, b, c>>) = <<b, c>> BY TailOfThree
   <4> QED BY <4>1 DEF InProgress, Labels
  <3>2. <<"storeW">> \o <<"watch timer", "arm">> = <<"storeW", "watch timer", "arm">>
   <4>1. \A a, b, c \in Labels : <<a>> \o <<b, c>> = <<a, b, c>> BY Joined
   <4>2. {"storeW", "watch timer", "arm"} \subseteq Labels
     BY UpdateLabels, UpdateStepsAre DEF Labels
   <4> QED BY <4>1, <4>2
  <3> QED BY <1>4, <2>3, <3>1, <3>2
 <2>5. TcpApp' BY <2>1, <2>3, <2>4 DEF TcpApp
 <2>6. PICK x \in Tasks : x = Enable("connect", {"W"}) /\ x.op = "enable" /\ x.cb = "connect"
   BY PostedTask, ZenonT(30) DEF EventTypes
 <2>7. Pending \in Seq(Tasks) /\ Pending' = Pending \o <<x>>
   BY <1>2, <2>3, <2>6, PendingPosted
 <2>8. ~StreamAfter(Pending', cb)
  <3>1. x.op \in CbOps /\ ~IsStream(x) BY <2>6 DEF CbOps, IsStream
  <3> QED BY <2>7, <3>1, TaskPosted
 <2>9. Unused BY <1>4, FreshIsUnused
 <2>10. Unused' BY <1>1, <1>2, <2>3, <2>8, <2>9 DEF Unused
 <2>11. TcpIo' /\ TcpStream' BY <2>10, UnusedIsFine, PTL
 <2> QED BY <2>5, <2>11
<1>5. CASE s \in {<<"watch timer", "arm">>, <<"arm">>}
 <2>1. Head(s) \in {"watch timer", "arm"} /\ outcome # "none"
  <3>1. /\ Head(<<"watch timer", "arm">>) = "watch timer" /\ Head(<<"arm">>) = "arm"
        /\ Head(<<"cas">>) = "cas"
    OBVIOUS
  <3>2. Head(s) \in {"watch timer", "arm"} BY <1>5, <3>1
  <3>3. s # <<"cas">> BY <3>1, <3>2
  <3> QED BY <1>1, <3>2, <3>3 DEF TcpApp
 <2>2. PostTimer("app") /\ ~At("app", "unwatch timer")
   BY <1>1, <2>1, UpdateLabels DEF ThreadStep, At, ConnectIgnored, ConnectBegins, Syscall,
      SetConnected, SetDisconnected, WatchSock, StoreTypes, Start, SetStarted, StartTest, StartPost, Stop, StopPost, OnError, Callback
 <2>3. /\ Post(<<Plain("enable timer")>>) \/ Post(<<Plain("arm")>>)
       /\ q = <<>> \o Tail(s)
       /\ UNCHANGED <<connected, started, outcome>>
   BY <1>1, <2>2 DEF PostTimer, Goto
 <2>4. q \in {<<"arm">>, <<>>}
  <3>1. <<>> \o Tail(<<"watch timer", "arm">>) = <<"arm">> OBVIOUS
  <3>2. <<>> \o Tail(<<"arm">>) = <<>> OBVIOUS
  <3>3. CASE s = <<"arm">> BY <2>3, <3>2, <3>3
  <3>4. CASE s = <<"watch timer", "arm">> BY <2>3, <3>1, <3>4
  <3> QED BY <1>5, <3>3, <3>4
 <2>5. TcpApp' BY <2>1, <2>3, <2>4 DEF TcpApp
 <2>6. PICK x \in Tasks : Post(<<x>>) /\ x.op \in {"enable timer", "arm"}
   BY <2>3, PostedTask
 <2>7. Pending \in Seq(Tasks) /\ Pending' = Pending \o <<x>>
   BY <1>2, <2>6, PendingPosted
 <2>8. StreamAfter(Pending', cb) <=> StreamAfter(Pending, cb)
  <3>1. x.op \notin CbOps BY <2>6 DEF CbOps
  <3> QED BY <2>7, <3>1, TaskPosted
 <2>9. TcpIo' /\ TcpStream' BY <1>1, <1>2, <2>3, <2>8, TcpOthers
 <2> QED BY <2>5, <2>9
<1>6. CASE s = <<"storeW", "watch timer", "arm">>
 <2>1. Head(<<"storeW", "watch timer", "arm">>) = "storeW" OBVIOUS
 <2>2. Head(s) = "storeW" BY <1>6, <2>1
 <2>3. StoreTypes("app")
   BY <1>1, <2>2, UpdateLabels DEF ThreadStep, At, ConnectIgnored, ConnectBegins, Syscall,
      SetConnected, SetDisconnected, WatchSock, PostTimer, Start, SetStarted, StartTest,
      StartPost, Stop, StopPost, OnError, Callback
 <2>4. q = <<>> \o Tail(s) /\ UNCHANGED <<connected, started, outcome, queue>>
   BY <1>1, <2>3 DEF StoreTypes, Goto
 <2>5. q = <<"watch timer", "arm">>
  <3>1. Tail(<<"storeW", "watch timer", "arm">>) = <<"watch timer", "arm">>
   <4>1. \A a, b, c \in Labels : Tail(<<a, b, c>>) = <<b, c>> BY TailOfThree
   <4>2. {"storeW", "watch timer", "arm"} \subseteq Labels
     BY UpdateLabels, UpdateStepsAre DEF Labels
   <4> QED BY <4>1, <4>2
  <3>2. <<>> \o <<"watch timer", "arm">> = <<"watch timer", "arm">> OBVIOUS
  <3> QED BY <1>6, <2>4, <3>1, <3>2
 <2>6. TcpApp'
  <3>1. outcome # "none"
   <4>1. Head(<<"cas">>) = "cas" OBVIOUS
   <4> QED BY <1>1, <2>2, <4>1 DEF TcpApp
  <3> QED BY <2>4, <2>5, <3>1 DEF TcpApp
 <2>7. StreamAfter(Pending', cb') <=> StreamAfter(Pending, cb)
   BY <1>2, <2>4 DEF Pending
 <2>8. TcpIo' /\ TcpStream' BY <1>1, <1>2, <2>4, <2>7, TcpOthers
 <2> QED BY <2>6, <2>8
<1> QED BY <1>1, <1>3, <1>4, <1>5, <1>6 DEF TcpApp

LEMMA TcpInductive == Tcp /\ Basics /\ TcpInv /\ [Next]_vars => TcpInv'
<1> SUFFICES ASSUME Tcp, Basics, TcpInv, [Next]_vars PROVE TcpInv' OBVIOUS
<1> USE DEF client, entry, kernel, ghosts
<1>1. Types /\ InsertInv /\ Types' /\ TcpApp /\ TcpIo /\ TcpStream
  BY BasicsInductive DEF Basics, TcpInv
<1>2. pc \in [Threads -> Seq(Labels)] /\ "app" \in Threads /\ "io" \in Threads
  BY <1>1 DEF Types, LoopTypes, Threads
<1>3. ASSUME Fresh, \/ IoStep \/ \E m \in Messages : PostSend(m)
                    \/ ConnectEnds \/ PeerSends \/ PeerCloses \/ Drain \/ Expire
                    \/ \E e \in NetErrors : Breaks(e)
      PROVE  TcpInv'
 <2>1. /\ Fresh' /\ UNCHANGED <<connected, outcome>> /\ pc'["app"] = pc["app"]
       /\ sk = "idle" => sk' = "idle"
   BY <1>1, <1>3, FreshKept
 <2>2. TcpIo' /\ TcpStream' BY <1>1, <2>1, FreshIsFine
 <2>3. Attempting => Attempting' BY <2>1 DEF Attempting
 <2>4. TcpApp' BY <1>1, <2>1, <2>3 DEF TcpApp
 <2> QED BY <2>2, <2>4 DEF TcpInv
<1>4. ASSUME ~Fresh, pc'["app"] = pc["app"], outcome' = "none" => outcome = "none"
      PROVE  TcpApp'
  BY <1>1, <1>4 DEF TcpApp
<1>5. CASE ~Fresh /\ IoStep
 <2>1. CASE ThreadStep("io") BY <1>1, <1>4, <1>5, <2>1, TcpCalls DEF TcpInv
 <2>2. CASE RunTask BY <1>1, <1>4, <1>5, <2>2, TcpTasks DEF TcpInv
 <2>3. CASE Read \/ Write \/ PostUpdate \/ Error \/ Split \/ Closed
   BY <1>1, <1>4, <1>5, <2>3, TcpPhases DEF TcpInv
 <2>4. CASE epoll_wait \/ TakeTasks \/ NoHandler \/ SocketCb \/ TimerCb \/ StreamCb
   BY <1>1, <1>4, <1>5, <2>4, TcpEvents DEF TcpInv
 <2> QED BY <1>5, <2>1, <2>2, <2>3, <2>4 DEF IoStep
<1>6. CASE ~Fresh /\ (\/ \E m \in Messages : PostSend(m)
                      \/ ConnectEnds \/ PeerSends \/ PeerCloses \/ Drain \/ Expire
                      \/ \E e \in NetErrors : Breaks(e))
  BY <1>1, <1>4, <1>6, TcpNet DEF TcpInv
<1>7. CASE ThreadStep("app") BY <1>1, <1>7, TcpAppGoes DEF TcpInv
<1>8. CASE AppConnect \/ AppStop \/ AppStart
 <2>1. AppConnect /\ outcome = "none" /\ UserCall(<<"cas">>)
   BY <1>8 DEF AppConnect, AppStop, AppStart, Tcp
 <2>2. /\ pc["app"] = <<>> /\ pc'["app"] = <<"cas">> /\ pc'["io"] = pc["io"]
       /\ UNCHANGED <<connected, started, outcome, exe, queue, sk, cb, mask, timer_on>>
   BY <1>2, <2>1 DEF UserCall
 <2>3. Fresh /\ sk = "idle" BY <1>1, <2>1 DEF TcpApp
 <2>4. Fresh' BY <2>2, <2>3 DEF Fresh, Pending
 <2>5. TcpIo' /\ TcpStream' BY <1>1, <2>4, FreshIsFine
 <2>6. TcpApp' BY <2>2, <2>3, <2>4 DEF TcpApp, Attempting
 <2> QED BY <2>5, <2>6 DEF TcpInv
<1>9. CASE UNCHANGED vars
 <2>1. UNCHANGED <<pc, connected, started, event_types, send_buf, outcome, exe, queue, sk,
                   cb, mask, timer_on>>
   BY <1>9 DEF vars
 <2>2. StreamAfter(Pending', cb') <=> StreamAfter(Pending, cb)
   BY <2>1 DEF Pending
 <2>3. TcpIo' /\ TcpStream' BY <1>1, <2>1, <2>2, TcpOthers
 <2>4. TcpApp' BY <1>1, <2>1 DEF TcpApp, Fresh, Pending, Attempting
 <2> QED BY <2>3, <2>4 DEF TcpInv
<1> QED BY <1>3, <1>5, <1>6, <1>7, <1>8, <1>9 DEF Next

LEMMA TcpInit == Init => TcpInv
<1> SUFFICES ASSUME Init PROVE TcpInv OBVIOUS
<1>1. Types BY BasicsInit DEF Basics
<1>2. /\ pc["app"] = <<>> /\ pc["io"] = <<>> /\ outcome = "none" /\ sk = "idle"
  BY DEF Init, Threads
<1>3. Pending = <<>> BY DEF Init, Pending
<1>4. Fresh BY <1>2, <1>3 DEF Init, Fresh
<1>5. TcpIo /\ TcpStream BY <1>1, <1>4, FreshIsUnused, UnusedIsFine
<1> QED BY <1>2, <1>4, <1>5 DEF TcpInv, TcpApp

----------------------------------------
\* A client that is up goes on watching its socket.

\* A step does not make the client come up.
LEMMA UpBefore ==
  ASSUME NEW t \in Threads,
         pc[t] = <<>> \/ Head(pc[t]) \notin StartLabels \cup {"stop post", "callback"},
         \A u \in Threads : u # t => pc'[u] = pc[u],
         started' => started, outcome' = "connected" => outcome = "connected"
  PROVE  Up' => Up
<1> SUFFICES ASSUME Up' PROVE Up OBVIOUS
<1>1. started /\ outcome = "connected" BY DEF Up
<1>2. \A l \in StartLabels \cup {"stop post", "callback"} : ~At(t, l) BY DEF At
<1>3. \A u \in Threads : \A l : u # t => (At(u, l)' <=> At(u, l)) BY DEF At
<1>4. \A u \in Threads : \A l \in StartLabels : ~At(u, l)' BY DEF Up, Starting
<1>5. ~Starting BY <1>2, <1>3, <1>4 DEF Starting
<1>6. ~At("io", "stop post") /\ ~At("io", "callback")
 <2>1. ~At("io", "stop post")' /\ ~At("io", "callback")' BY DEF Up
 <2>2. "io" \in Threads BY DEF Threads
 <2>3. CASE t = "io"
  <3>1. \A l \in {"stop post", "callback"} : ~At("io", l) BY <1>2, <2>3
  <3> QED BY <3>1
 <2>4. CASE t # "io" BY <1>3, <2>1, <2>2, <2>4
 <2> QED BY <2>3, <2>4
<1> QED BY <1>1, <1>5, <1>6 DEF Up

LEMMA SameStays ==
  ASSUME Types, UpdateInv, pc' \in [Threads -> Seq(Labels)], NEW t \in Threads,
         pc[t] = << >> \/ Head(pc[t]) \notin UpdateSteps,
         \A u \in Threads : u # t => pc'[u] = pc[u],
         \A l \in UpdateSteps : In(t, l)' => In(t, l),
         event_types' = event_types
  PROVE  Same
<1>1. "io" \in Threads /\ DOMAIN Updates \subseteq UpdateSteps /\ DOMAIN Stores \subseteq UpdateSteps
  BY DEF Threads, UpdateSteps
<1>2. ASSUME NEW u \in Threads, NEW l \in UpdateSteps PROVE At(u, l)' <=> At(u, l)
 <2>1. CASE u # t BY <2>1 DEF At
 <2>2. CASE u = t
  <3>1. ~In(t, l)
   <4>1. pc[t] = << >> => ~In(t, l) BY DEF In, Has
   <4> QED BY <4>1, NoneIn
  <3>2. ~In(t, l)' BY <3>1
  <3>3. ~At(t, l) BY <3>1, HeadIn
  <3>4. ~At(t, l)'
   <4>1. PICK q \in Seq(Labels) : q = pc'[t] OBVIOUS
   <4>2. q # << >> => Head(q) = q[1] /\ 1 \in DOMAIN q BY <4>1
   <4> QED BY <3>2, <4>1, <4>2 DEF At, In, Has
  <3> QED BY <2>2, <3>3, <3>4
 <2> QED BY <2>1, <2>2
<1>3. \A u \in Threads : \A l \in DOMAIN Stores : At(u, l)' <=> At(u, l)
  BY <1>1, <1>2
<1>4. \A types : Now(types)' => Now(types) BY <1>3 DEF Now
<1> QED BY <1>1, <1>2, <1>4 DEF Same

\* A step that changes none of this.
LEMMA UpStays ==
  ASSUME UpInv, Up' => Up, Same, raced => raced', ToWrite' => ToWrite,
         StreamAfter(Pending, cb) => StreamAfter(Pending', cb'),
         \A types : types # {} /\ MaskAfter(Pending, mask, types) =>
           MaskAfter(Pending', mask', types),
         /\ Up /\ Untouched(Pending') /\ cb' = "stream" /\ {"R", "E"} \subseteq mask'
         /\ Untouched(Pending) => ReadyR
         => ReadyR',
         /\ Up /\ Untouched(Pending') /\ cb' = "stream" /\ "W" \in mask' /\ ToWrite' /\ Posted
         /\ Untouched(Pending) => ReadyW
         => ReadyW'
  PROVE  UpInv'
<1> SUFFICES ASSUME Up' PROVE UpInv' BY DEF UpInv, ReadInv, WriteInv
<1>1. Up /\ StreamAfter(Pending', cb') /\ ReadInv /\ WriteInv BY DEF UpInv
<1>2. Untouched(Pending') => /\ cb' = "stream"
                             /\ \A types : MaskAfter(Pending', mask', types) => mask' = types
  BY <1>1 DEF Untouched, StreamAfter, MaskAfter, IsStream, SockOps
<1>3. ReadInv'
 <2> SUFFICES ASSUME ~raced'
              PROVE  /\ \A types : Now(types)' =>
                          /\ {"R", "E"} \subseteq types
                          /\ MaskAfter(Pending', mask', types)
                     /\ \A l \in DOMAIN Updates : At("io", l)' => {"R", "E"} \subseteq Updates[l]
                     /\ Untouched(Pending') => ReadyR'
   BY DEF ReadInv
 <2>1. /\ \A types : Now(types) =>
            {"R", "E"} \subseteq types /\ MaskAfter(Pending, mask, types)
       /\ \A l \in DOMAIN Updates : At("io", l) => {"R", "E"} \subseteq Updates[l]
       /\ Untouched(Pending) => ReadyR
   BY <1>1 DEF ReadInv
 <2>2. \A types : Now(types)' =>
         {"R", "E"} \subseteq types /\ MaskAfter(Pending', mask', types)
   BY <2>1 DEF Same
 <2>3. \A l \in DOMAIN Updates : At("io", l)' => {"R", "E"} \subseteq Updates[l]
   BY <2>1 DEF Same
 <2>4. Untouched(Pending') => ReadyR'
  <3>1. \E types : Now(types)' BY DEF Now
  <3>2. Untouched(Pending') => {"R", "E"} \subseteq mask' BY <1>2, <2>2, <3>1
  <3> QED BY <1>1, <1>2, <2>1, <3>2
 <2> QED BY <2>2, <2>3, <2>4
<1>4. WriteInv'
 <2> SUFFICES ASSUME ToWrite', Posted'
              PROVE  /\ \E types : "W" \in types /\ MaskAfter(Pending', mask', types)
                     /\ Untouched(Pending') => ReadyW'
   BY DEF WriteInv
 <2>1. ToWrite /\ Posted BY DEF Same, Posted
 <2>2. /\ \E types : "W" \in types /\ MaskAfter(Pending, mask, types)
       /\ Untouched(Pending) => ReadyW
   BY <1>1, <2>1 DEF WriteInv
 <2>3. \E types : "W" \in types /\ MaskAfter(Pending', mask', types) BY <2>2
 <2>4. Untouched(Pending') => "W" \in mask' BY <1>2, <2>3
 <2> QED BY <1>1, <1>2, <2>1, <2>2, <2>3, <2>4
<1> QED BY <1>1, <1>3, <1>4 DEF UpInv

LEMMA ReadyStays ==
  ASSUME "sock" \in ready => "sock" \in ready', UNCHANGED <<evs, inbox, sk, room>>,
         ToWrite' => ToWrite, \A l \in Kept : In("io", l) => In("io", l)'
  PROVE  (ReadyR => ReadyR') /\ (ReadyW => ReadyW')
<1>1. \A type : Reported(type) => Reported(type)' BY DEF Reported
<1>2. ToRead' => ToRead BY DEF ToRead
<1>3. /\ In("io", "read") => In("io", "read")'
      /\ In("io", "write") => In("io", "write")'
      /\ In("io", "closed") => In("io", "closed")'
      /\ In("io", "stop") => In("io", "stop")'
  BY DEF Kept
<1> QED BY <1>1, <1>2, <1>3 DEF ReadyR, ReadyW

\* A task is posted that has nothing to do with the socket's entry.
LEMMA OtherPosted ==
  ASSUME Types, NEW x \in Tasks, x.op \notin SockOps, exe' = exe, Post(<<x>>)
  PROVE  /\ StreamAfter(Pending', cb) <=> StreamAfter(Pending, cb)
         /\ \A types : MaskAfter(Pending', mask, types) <=> MaskAfter(Pending, mask, types)
         /\ Untouched(Pending') <=> Untouched(Pending)
<1>1. Pending \in Seq(Tasks) /\ Pending' = Pending \o <<x>> BY PendingPosted
<1>2. x.op \notin CbOps BY DEF CbOps, SockOps
<1> QED BY <1>1, <1>2, TaskPosted

\* Two threads in an update have overlapped.
LEMMA OneUpdates ==
  ASSUME UpdateInv', ~raced', NEW t \in Threads, NEW k \in UpdateSteps, At(t, k)'
  PROVE  \A u \in Threads : \A l \in UpdateSteps : At(u, l)' => u = t /\ l = k
<1> SUFFICES ASSUME NEW u \in Threads, NEW l \in UpdateSteps, At(u, l)'
             PROVE  u = t /\ l = k
  OBVIOUS
<1>1. Updating(t)' /\ Updating(u)' BY DEF Updating, At, UpdateSteps
<1>2. u = t BY <1>1 DEF UpdateInv, Threads
<1> QED BY <1>2 DEF At

\* The calls, of either thread.
LEMMA UpCalls ==
  ASSUME Types, UpdateInv, UpdateInv', UpInv, Tidy, NEW t \in Threads, ThreadStep(t)
  PROVE  UpInv'
<1> USE DEF client, entry, kernel, ghosts
<1>1. /\ pc \in [Threads -> Seq(Labels)] /\ pc[t] # <<>> /\ Head(pc[t]) \notin OwnSteps
      /\ \A u \in Threads : u # t => pc'[u] = pc[u]
      /\ "io" \in Threads /\ "app" \in Threads
  BY CallSteps DEF Types, LoopTypes, Threads
<1>2. UNCHANGED <<send_buf, exe, evs, cb, mask, ready, room, inbox>> /\ (raced => raced')
  BY CallFrame, ThreadFronted
<1>3. ASSUME ~Up' PROVE UpInv' BY <1>3 DEF UpInv, ReadInv, WriteInv
<1>4. ASSUME Head(pc[t]) # "stop" PROVE \A l \in Kept : In("io", l) => In("io", l)'
 <2>1. CASE t = "io"
  <3>1. \A l : In("io", l) /\ Head(pc["io"]) # l => In("io", l)'
    BY <1>1, <2>1, ThreadGoes, GotoIs
  <3>2. Head(pc["io"]) \notin Kept BY <1>1, <1>4, <2>1 DEF Kept, OwnSteps
  <3> QED BY <3>1, <3>2
 <2>2. CASE t # "io"
  <3>1. pc'["io"] = pc["io"] BY <1>1, <2>2
  <3> QED BY <3>1 DEF In
 <2> QED BY <2>1, <2>2
<1>5. ToWrite' <=> ToWrite BY <1>2 DEF ToWrite
<1>6. ASSUME Up' => Up, Same, sk' = sk, Head(pc[t]) # "stop",
             \/ UNCHANGED queue
             \/ \E x \in Tasks : x.op \notin SockOps /\ Post(<<x>>)
      PROVE  UpInv'
 <2>1. (ReadyR => ReadyR') /\ (ReadyW => ReadyW')
   BY <1>2, <1>4, <1>5, <1>6, ReadyStays
 <2>2. /\ StreamAfter(Pending', cb') <=> StreamAfter(Pending, cb)
       /\ \A types : MaskAfter(Pending', mask', types) <=> MaskAfter(Pending, mask, types)
       /\ Untouched(Pending') <=> Untouched(Pending)
  <3>1. CASE UNCHANGED queue BY <1>2, <3>1 DEF Pending
  <3>2. ASSUME NEW x \in Tasks, x.op \notin SockOps, Post(<<x>>) PROVE <2>2!1 /\ <2>2!2 /\ <2>2!3
    BY <1>2, <3>2, OtherPosted
  <3> QED BY <1>6, <3>1, <3>2
 <2> QED BY <1>2, <1>5, <1>6, <2>1, <2>2, UpStays
<1>7. ASSUME Head(pc[t]) \in {"cas", "connected", "disconnected", "watch timer", "arm",
                              "unwatch timer", "start", "fail", "refuse"},
             event_types' = event_types, started' => started,
             outcome' = "connected" => outcome = "connected"
      PROVE  (Up' => Up) /\ Same /\ Head(pc[t]) # "stop"
 <2>1. Head(pc[t]) \notin StartLabels \cup {"stop post", "callback", "stop"}
   BY <1>7 DEF StartLabels
 <2>2. Up' => Up BY <1>1, <1>7, <2>1, UpBefore
 <2>3. Head(pc[t]) \notin UpdateSteps BY <1>7, UpdateStepsAre
 <2>4. PICK steps \in Seq(Labels) : Goto(t, steps) /\ \A l \in UpdateSteps : ~Has(steps, l)
  <3>1. ~WatchSock(t) /\ ~StartPost(t) BY <1>7 DEF WatchSock, StartPost, At
  <3> QED BY <3>1, ThreadFronted
 <2>5. /\ pc' \in [Threads -> Seq(Labels)]
       /\ \A l \in UpdateSteps : In(t, l)' => In(t, l)
   BY <1>1, <2>4, GotoIs
 <2> QED BY <1>1, <1>7, <2>1, <2>2, <2>3, <2>5, SameStays
<1>8. CASE ConnectIgnored(t) \/ SetDisconnected(t) \/ OnError(t)
 <2>1. /\ UNCHANGED <<event_types, sk, started, outcome, queue>>
       /\ Head(pc[t]) \in {"cas", "disconnected", "fail", "refuse"}
   BY <1>8 DEF ConnectIgnored, SetDisconnected, OnError, At
 <2> QED BY <1>6, <1>7, <2>1
<1>9. CASE ConnectBegins(t) \/ Callback(t)
 <2>1. outcome' # "connected" BY <1>9 DEF ConnectBegins, Callback
 <2> QED BY <1>3, <2>1 DEF Up
<1>10. CASE Syscall(t) \/ WatchSock(t)
 <2>1. ~started' BY <1>10 DEF Syscall, WatchSock, Tidy
 <2> QED BY <1>3, <2>1 DEF Up
<1>11. CASE SetConnected(t)
 <2>1. UNCHANGED <<event_types, sk, started, queue>> /\ At(t, "connected")
   BY <1>11 DEF SetConnected
 <2>2. Head(pc[t]) = "connected" BY <2>1 DEF At
 <2>3. CASE started
  <3>1. outcome = "connected" BY <2>1, <2>3 DEF Tidy
  <3> QED BY <1>6, <1>7, <2>1, <2>2, <3>1
 <2>4. CASE ~started BY <1>3, <2>1, <2>4 DEF Up
 <2> QED BY <2>3, <2>4
<1>12. CASE PostTimer(t)
 <2>1. /\ UNCHANGED <<event_types, sk, started, outcome>>
       /\ Head(pc[t]) \in {"watch timer", "arm", "unwatch timer"}
   BY <1>12 DEF PostTimer, At
 <2>2. \E x \in Tasks : x.op \notin SockOps /\ Post(<<x>>)
  <3>1. \A op \in {"enable timer", "arm", "disable timer"} :
          Plain(op) \in Tasks /\ Plain(op).op \notin SockOps
    BY PostedTask DEF SockOps
  <3> QED BY <1>12, <3>1 DEF PostTimer
 <2> QED BY <1>6, <1>7, <2>1, <2>2
\* A start() that goes on has the client starting.
<1>13. ASSUME NEW k \in StartLabels, Goto(t, <<k>>) PROVE UpInv'
 <2>1. PICK steps \in Seq(Labels) : steps = <<k>> /\ Goto(t, steps)
   BY <1>13, StepSequences DEF StartLabels
 <2>2. steps # <<>> /\ steps[1] = k BY <2>1
 <2>3. At(t, k)' BY <1>1, <2>1, <2>2, GotoIs DEF At
 <2>4. Starting' BY <2>3 DEF Starting
 <2> QED BY <1>3, <2>4 DEF Up
<1>14. CASE Start(t)
 <2>1. UNCHANGED <<event_types, sk, outcome, queue>> /\ Head(pc[t]) = "start"
   BY <1>14 DEF Start, At
 <2>2. CASE started BY <1>6, <1>7, <2>1, <2>2
 <2>3. CASE ~started BY <1>13, <1>14, <2>3 DEF Start, StartLabels
 <2> QED BY <2>2, <2>3
<1>15. CASE SetStarted(t) \/ StartTest(t)
 <2>1. \E k \in StartLabels : Goto(t, <<k>>)
   BY <1>15 DEF SetStarted, StartTest, StartLabels
 <2> QED BY <1>13, <2>1
<1>16. CASE StoreTypes(t)
 <2>1. PICK label \in DOMAIN Stores :
         /\ At(t, label) /\ event_types' = Stores[label] /\ Goto(t, << >>)
         /\ UNCHANGED <<sk, started, outcome, queue>>
   BY <1>16 DEF StoreTypes
 <2>2. Head(pc[t]) = label /\ label \in UpdateSteps /\ label \notin DOMAIN Updates
   BY <2>1, UpdateLabels DEF At, UpdateSteps
 <2>3. Head(pc[t]) \notin StartLabels \cup {"stop post", "callback", "stop"}
   BY <2>2, UpdateStepsAre DEF StartLabels
 <2>4. Up' => Up BY <1>1, <2>1, <2>3, UpBefore
 <2>5. \A l \in UpdateSteps : ~At(t, l)'
  <3>1. PICK s \in Seq(Labels) : s = pc[t] /\ s # << >> /\ Fronted(s)
    BY <1>1 DEF UpdateInv
  <3>2. PICK r : r = << >> \o Tail(s) OBVIOUS
  <3>3. r \in Seq(Labels) /\ \A l \in UpdateSteps : Has(r, l) => Has(<< >>, l)
   <4>1. << >> \in Seq(Labels) /\ Fronted(<< >>) BY FewSteps DEF Fronted
   <4> QED BY <3>1, <3>2, <4>1, StackFronted, Stacked
  <3>4. pc'[t] = r BY <1>1, <2>1, <3>1, <3>2 DEF Goto
  <3>5. \A l \in UpdateSteps : ~Has(r, l) BY <3>3, WhatHas
  <3>6. r # << >> => Head(r) = r[1] /\ 1 \in DOMAIN r BY <3>3
  <3> QED BY <3>4, <3>5, <3>6 DEF At, Has
 <2>6. \A u \in Threads : \A l : u # t => (At(u, l)' <=> At(u, l))
   BY <1>1 DEF At
 <2>7. \A types : Now(types)' => Now(types)
  <3>1. DOMAIN Stores \subseteq UpdateSteps BY DEF UpdateSteps
  <3> QED BY <2>1, <2>5, <2>6, <3>1 DEF Now
 <2>8. \A l \in DOMAIN Updates : At("io", l)' <=> At("io", l)
  <3>1. \A l \in DOMAIN Updates : ~At(t, l) /\ ~At(t, l)'
    BY <2>2, <2>5 DEF At, UpdateSteps
  <3> QED BY <1>1, <2>6, <3>1
 <2>9. Same BY <2>7, <2>8 DEF Same
 <2> QED BY <1>6, <2>1, <2>3, <2>4, <2>9
<1>17. CASE StartPost(t)
 <2>1. PICK k \in DOMAIN Stores :
         /\ Post(<<Enable("stream", Stores[k])>>) /\ Goto(t, <<k>>)
         /\ {"R", "E"} \subseteq Stores[k]
         /\ "W" \notin Stores[k] => At(t, "watch RE")
  <3>1. /\ "storeRE" \in DOMAIN Stores /\ Stores["storeRE"] = {"R", "E"}
        /\ "storeRWE" \in DOMAIN Stores /\ Stores["storeRWE"] = {"R", "W", "E"}
    BY DEF Stores, EventTypes
  <3>2. CASE At(t, "watch RE") BY <1>17, <3>1, <3>2 DEF StartPost
  <3>3. CASE ~At(t, "watch RE")
   <4>1. /\ Post(<<Enable("stream", {"R", "W", "E"})>>) /\ Goto(t, <<"storeRWE">>)
     BY <1>17, <3>3 DEF StartPost
   <4> QED BY <3>1, <4>1
  <3> QED BY <3>2, <3>3
 <2>2. Stores[k] \in SUBSET EventTypes /\ k \in UpdateSteps /\ k \notin DOMAIN Updates
   BY UpdateLabels DEF UpdateSteps
 <2>3. PICK x \in Tasks : /\ x = Enable("stream", Stores[k]) /\ x.op = "enable"
                             /\ x.cb = "stream" /\ x.types = Stores[k]
   BY <2>2, PostedTask
 <2>4. Pending \in Seq(Tasks) /\ Pending' = Pending \o <<x>>
   BY <1>2, <2>1, <2>3, PendingPosted
 <2>5. IsStream(x) /\ x.op \in SockOps /\ x.op \in {"enable", "update"}
   BY <2>3 DEF IsStream, SockOps
 <2>6. StreamAfter(Pending', cb') /\ MaskAfter(Pending', mask', Stores[k]) /\ ~Untouched(Pending')
  <3>1. StreamAfter(Pending', cb) /\ MaskAfter(Pending', mask, x.types) /\ ~Untouched(Pending')
    BY <2>4, <2>5, TaskPosted
  <3> QED BY <1>2, <2>3, <3>1
 <2>7. At(t, k)'
  <3>1. PICK steps \in Seq(Labels) : steps = <<k>> /\ Goto(t, steps)
    BY <2>1, StoreSteps
  <3>2. steps # <<>> /\ steps[1] = k BY <3>1
  <3> QED BY <1>1, <3>1, <3>2, GotoIs DEF At
 <2>8. ReadInv'
  <3> SUFFICES ASSUME ~raced'
               PROVE  /\ \A types : Now(types)' => types = Stores[k]
                      /\ \A l \in DOMAIN Updates : ~At("io", l)'
    BY <2>1, <2>6 DEF ReadInv
  <3>1. \A u \in Threads : \A l \in UpdateSteps : At(u, l)' => u = t /\ l = k
    BY <2>2, <2>7, OneUpdates
  <3>2. DOMAIN Stores \subseteq UpdateSteps /\ DOMAIN Updates \subseteq UpdateSteps
    BY DEF UpdateSteps
  <3>3. \A types : Now(types)' => types = Stores[k] BY <2>7, <3>1, <3>2 DEF Now
  <3> QED BY <1>1, <2>2, <3>1, <3>2, <3>3
 <2>9. WriteInv'
  <3>1. ToWrite' => "W" \in Stores[k] BY <1>2, <2>1 DEF ToWrite, Tidy
  <3> QED BY <2>6, <3>1 DEF WriteInv
 <2> QED BY <2>6, <2>8, <2>9 DEF UpInv
<1>18. CASE Stop(t)
 <2>1. ~started' BY <1>18 DEF Stop
 <2> QED BY <1>3, <2>1 DEF Up
<1>19. CASE StopPost(t)
 <2>1. UNCHANGED started /\ At(t, "stop post") /\ Goto(t, <<>>)
   BY <1>19 DEF StopPost
 <2>2. CASE ~started BY <1>3, <2>1, <2>2 DEF Up
 <2>3. CASE started
  <3>1. t = "io" /\ Len(pc["io"]) > 1 /\ pc["io"][2] = "callback"
    BY <2>1, <2>3 DEF Tidy, Threads
  <3>2. PICK s \in Seq(Labels) : s = pc["io"] /\ s # <<>> /\ Len(s) > 1 /\ s[2] = "callback"
    BY <1>1, <3>1
  <3>3. Tail(s) # <<>> /\ Head(Tail(s)) = "callback"
   <4>1. Tail(s) \in Seq(Labels) /\ Len(Tail(s)) > 0 /\ Tail(s)[1] = s[2]
     BY <3>2, HeadTailProperties
   <4>2. PICK r \in Seq(Labels) : r = Tail(s) /\ Len(r) > 0 /\ r[1] = "callback"
     BY <3>2, <4>1
   <4>3. \A q \in Seq(Labels) : Len(q) > 0 => q # << >> /\ Head(q) = q[1]
     BY ONLY FewSteps
   <4> QED BY <4>2, <4>3
  <3>4. pc'["io"] = Tail(s)
   <4>1. pc'["io"] = <<>> \o Tail(s) BY <1>1, <2>1, <3>1, <3>2 DEF Goto
   <4> QED BY <3>2, <4>1, StackPopped
  <3>5. At("io", "callback")' BY <3>3, <3>4 DEF At
  <3> QED BY <1>3, <3>5 DEF Up
 <2> QED BY <2>2, <2>3
<1> QED
  BY <1>8, <1>9, <1>10, <1>11, <1>12, <1>14, <1>15, <1>16, <1>17, <1>18, <1>19 DEF ThreadStep

\* epoll polls the socket when its entry changes.
LEMMA Polled ==
  ASSUME Types, NEW types \in SUBSET EventTypes, Watch(types), mask' = types,
         UNCHANGED <<inbox, sk, room, err>>
  PROVE  /\ "R" \in mask' => ReadyR'
         /\ "W" \in mask' => ReadyW'
<1>1. ready' = IF Level(mask') # {} \/ HangUp THEN ready \cup {"sock"} ELSE ready
  BY DEF Watch
<1>2. CASE Level(mask') # {}
 <2>1. "sock" \in ready' BY <1>1, <1>2
 <2> QED BY <2>1 DEF ReadyR, ReadyW, Reported
<1>3. CASE Level(mask') = {}
 <2>1. "R" \in mask' => ~Readable BY <1>3 DEF Level
 <2>2. "W" \in mask' => ~Writable BY <1>3 DEF Level
 <2>3. "R" \in mask' => ~ToRead' BY <2>1 DEF ToRead, Readable
 <2>4. "W" \in mask' => ~(sk' \in {"established", "fin"} /\ room' > 0)
   BY <2>2 DEF Writable
 <2> QED BY <2>3, <2>4 DEF ReadyR, ReadyW
<1> QED BY <1>2, <1>3

\* The stacks are not touched.
LEMMA SamePc ==
  ASSUME pc' = pc, UNCHANGED <<started, outcome, event_types>>
  PROVE  (Up' <=> Up) /\ Same /\ \A l : In("io", l)' <=> In("io", l)
<1>1. \A t, l : (At(t, l)' <=> At(t, l)) /\ (In(t, l)' <=> In(t, l))
  BY DEF At, In
<1>2. \A types : Now(types)' => Now(types) BY <1>1 DEF Now
<1> QED BY <1>1, <1>2 DEF Up, Starting, Same

\* The tasks that are about the socket.
LEMMA UpEntryTasks ==
  ASSUME Types, InsertInv, UpInv, EnableTask \/ DisableTask
  PROVE  UpInv'
<1> USE DEF client, entry, kernel, ghosts
<1>1. /\ exe # <<>> /\ exe' = Tail(exe) /\ queue' = queue /\ raced' = raced
      /\ UNCHANGED <<pc, event_types, started, outcome, send_buf, inbox, sk, room, err, evs>>
  BY DEF EnableTask, DisableTask, Running
<1>2. (Up' => Up) /\ Same BY <1>1, SamePc
<1>3. ToWrite' <=> ToWrite BY <1>1 DEF ToWrite
<1>4. StreamAfter(Pending, cb) => StreamAfter(Pending', cb')
  BY CallbackAfter DEF RunTask
<1>5. /\ Pending \in Seq(Tasks) /\ Pending # <<>> /\ Pending' = Tail(Pending)
      /\ Pending[1] = Head(exe) /\ exe \in Seq(Tasks)
  BY <1>1, PendingRun DEF Types, LoopTypes
<1>6. CASE EnableTask
 <2>1. Head(exe).op \in {"enable", "update"} /\ Watch(Head(exe).types)
   BY <1>6 DEF EnableTask, Running
 <2>2. Head(exe).types \in SUBSET EventTypes BY <1>1, <1>5, <2>1, HeadTask
 <2>3. Head(exe).types # {} => mask' = Head(exe).types BY <2>1 DEF Watch
 <2>4. ASSUME NEW types, types # {}, MaskAfter(Pending, mask, types)
       PROVE  /\ MaskAfter(Pending', mask', types)
              /\ Untouched(Pending') => mask' = Head(exe).types
  <3>1. MaskAfter(Pending', Head(exe).types, types) BY <1>5, <2>1, <2>4, TaskRun
  <3>2. Untouched(Pending') => Head(exe).types = types
    BY <3>1 DEF MaskAfter, Untouched, SockOps
  <3>3. Untouched(Pending') => mask' = Head(exe).types BY <2>3, <2>4, <3>2
  <3> QED BY <3>1, <3>3 DEF MaskAfter
 <2>5. CASE mask' = Head(exe).types
  <3>1. ("R" \in mask' => ReadyR') /\ ("W" \in mask' => ReadyW')
    BY <1>1, <2>1, <2>2, <2>5, Polled
  <3> QED BY <1>1, <1>2, <1>3, <1>4, <2>4, <3>1, UpStays
 <2>6. CASE mask' # Head(exe).types
  <3>1. mask' = {"E"} BY <2>1, <2>6 DEF Watch
  <3> QED BY <1>1, <1>2, <1>3, <1>4, <2>4, <3>1, UpStays
 <2> QED BY <2>5, <2>6
<1>7. CASE DisableTask
 <2>1. Head(exe).op = "disable" BY <1>7 DEF DisableTask, Running
 <2>2. /\ ~(StreamAfter(Pending, cb) /\ Untouched(Pending'))
       /\ \A types : MaskAfter(Pending, mask, types) => MaskAfter(Pending', mask', types)
   BY <1>5, <2>1, TaskRun
 <2>3. Up => ~Untouched(Pending') BY <2>2 DEF UpInv
 <2> QED BY <1>1, <1>2, <1>3, <1>4, <2>2, <2>3, UpStays
<1> QED BY <1>6, <1>7

\* The io executor has computed new types, which keep the read event.
LEMMA UpBegins ==
  ASSUME UpInv, NEW k \in DOMAIN Updates, At("io", k)', Overlaps, Up' => Up,
         \A l \in UpdateSteps : ~At("io", l), pc'["app"] = pc["app"],
         event_types' = event_types, event_types \cap {"R", "E"} \subseteq Updates[k],
         StreamAfter(Pending, cb) => StreamAfter(Pending', cb'),
         \A types : MaskAfter(Pending, mask, types) => MaskAfter(Pending', mask', types),
         Untouched(Pending') => Untouched(Pending), ReadyR => ReadyR'
  PROVE  UpInv'
<1> SUFFICES ASSUME Up' PROVE StreamAfter(Pending', cb') /\ ReadInv' /\ WriteInv'
  BY DEF UpInv, ReadInv, WriteInv
<1>1. "io" \in Threads /\ k \in UpdateSteps /\ k \notin DOMAIN Stores
  BY UpdateLabels DEF Threads, UpdateSteps
<1>2. \A l : At("io", l)' => l = k BY DEF At
<1>3. ~Posted' BY DEF Posted
<1>4. ReadInv'
 <2> SUFFICES ASSUME ~raced'
              PROVE  /\ \A types : Now(types)' =>
                          /\ {"R", "E"} \subseteq types
                          /\ MaskAfter(Pending', mask', types)
                     /\ \A l \in DOMAIN Updates : At("io", l)' => {"R", "E"} \subseteq Updates[l]
                     /\ Untouched(Pending') => ReadyR'
   BY DEF ReadInv
 <2>1. ~raced /\ ~Updating("app") BY DEF Overlaps, Threads
 <2>2. \A l \in DOMAIN Stores : ~At("app", l) /\ ~At("app", l)' /\ ~At("io", l) /\ ~At("io", l)'
  <3>1. \A l \in DOMAIN Stores : ~At("app", l) BY <2>1 DEF Updating, At
  <3>2. \A l \in DOMAIN Stores : ~At("app", l)' BY <3>1 DEF At
  <3>3. \A l \in DOMAIN Stores : ~At("io", l)' BY <1>1, <1>2
  <3> QED BY <3>1, <3>2, <3>3 DEF UpdateSteps
 <2>3. \A t \in Threads : \A l \in DOMAIN Stores : ~At(t, l) /\ ~At(t, l)'
   BY <2>2 DEF Threads
 <2>4. Now(event_types) /\ \A types : Now(types)' => types = event_types
   BY <2>3 DEF Now
 <2>5. /\ {"R", "E"} \subseteq event_types /\ MaskAfter(Pending, mask, event_types)
       /\ Untouched(Pending) => ReadyR
   BY <2>1, <2>4 DEF UpInv, ReadInv
 <2>6. {"R", "E"} \subseteq Updates[k] BY <2>5
 <2> QED BY <1>2, <2>4, <2>5, <2>6
<1> QED BY <1>3, <1>4 DEF UpInv, WriteInv

LEMMA UpTasks ==
  ASSUME Types, InsertInv, UpdateInv, UpInv, Tidy, RunTask
  PROVE  UpInv'
<1> USE DEF client, entry, kernel, ghosts
<1>1. /\ pc \in [Threads -> Seq(Labels)] /\ "io" \in Threads /\ "app" \in Threads
      /\ exe \in Seq(Tasks) /\ queue \in Seq(Tasks)
      /\ event_types \in SUBSET EventTypes /\ <<"insert">> \in Seq(Labels)
  BY StepSequences DEF Types, LoopTypes, ClientTypes, Threads, EventTypes
<1>2. \A l : pc["io"] = <<>> => ~In("io", l) BY Idle
<1>3. StreamAfter(Pending, cb) => StreamAfter(Pending', cb') BY CallbackAfter
\* A task is gone that has nothing to do with the socket's entry.
<1>4. ASSUME exe # <<>>, exe' = Tail(exe), queue' = queue, Head(exe).op \notin SockOps,
             mask' = mask
      PROVE  /\ \A types : MaskAfter(Pending, mask, types) => MaskAfter(Pending', mask', types)
             /\ Untouched(Pending') => Untouched(Pending)
 <2>1. /\ Pending \in Seq(Tasks) /\ Pending # <<>> /\ Pending' = Tail(Pending)
       /\ Pending[1] = Head(exe)
   BY <1>4, PendingRun
 <2>2. Pending[1].op \notin SockOps BY <1>4, <2>1
 <2>3. /\ \A types : MaskAfter(Pending, mask, types) => MaskAfter(Tail(Pending), mask, types)
       /\ Untouched(Tail(Pending)) <=> Untouched(Pending)
   BY <2>1, <2>2, TaskRun
 <2> QED BY <1>4, <2>1, <2>3
<1>5. CASE EnableTask \/ DisableTask BY <1>5, UpEntryTasks
<1>6. CASE EnableTimerTask \/ DisableTimerTask \/ ArmTask
 <2>1. /\ exe # <<>> /\ exe' = Tail(exe) /\ queue' = queue /\ Head(exe).op \notin SockOps
       /\ UNCHANGED <<pc, event_types, started, outcome, send_buf, inbox, sk, room, evs, cb, mask>>
       /\ "sock" \in ready => "sock" \in ready'
       /\ raced' = raced
   BY <1>6 DEF EnableTimerTask, DisableTimerTask, ArmTask, Running, SockOps
 <2>2. (Up' => Up) /\ Same /\ \A l \in Kept : In("io", l) => In("io", l)'
   BY <2>1, SamePc
 <2>3. ToWrite' <=> ToWrite BY <2>1 DEF ToWrite
 <2>4. (ReadyR => ReadyR') /\ (ReadyW => ReadyW')
   BY <2>1, <2>2, <2>3, ReadyStays
 <2>5. /\ \A types : MaskAfter(Pending, mask, types) => MaskAfter(Pending', mask', types)
       /\ Untouched(Pending') => Untouched(Pending)
   BY <1>4, <2>1
 <2> QED BY <1>3, <2>1, <2>2, <2>3, <2>4, <2>5, UpStays
<1>7. CASE SendTaskQueues
 <2>1. /\ pc["io"] = <<>> /\ pc' = [pc EXCEPT !["io"] = <<"insert">>]
       /\ UNCHANGED <<event_types, started, outcome, send_buf, inbox, sk, room, evs,
                      ready, cb, mask, exe, queue, raced>>
   BY <1>7 DEF SendTaskQueues, Running
 <2>2. /\ \A u \in Threads : u # "io" => pc'[u] = pc[u]
       /\ pc' \in [Threads -> Seq(Labels)] /\ pc'["io"] = <<"insert">>
   BY <1>1, <2>1
 <2>3. Up' => Up BY <1>1, <2>1, <2>2, UpBefore
 <2>4. \A l \in Kept : In("io", l) => In("io", l)' BY <1>2, <2>1
 <2>5. ToWrite' <=> ToWrite BY <2>1 DEF ToWrite
 <2>6. (ReadyR => ReadyR') /\ (ReadyW => ReadyW')
   BY <2>1, <2>4, <2>5, ReadyStays
 <2>7. Pending' = Pending BY <2>1 DEF Pending
 <2>8. \A l \in UpdateSteps : In("io", l)' => In("io", l)
  <3>1. \A l : Has(<<"insert">>, l) => l = "insert" BY WhatHas
  <3> QED BY <2>2, <3>1, UpdateStepsAre DEF In
 <2>9. Same BY <1>1, <2>1, <2>2, <2>8, SameStays
 <2> QED BY <1>3, <2>1, <2>3, <2>5, <2>6, <2>7, <2>9, UpStays
<1>8. CASE Insert
 <2>1. /\ At("io", "insert") /\ Goto("io", <<>>) /\ exe' = Tail(exe)
       /\ UNCHANGED <<event_types, started, outcome, inbox, sk, room, evs,
                      ready, cb, mask, queue, raced>>
   BY <1>8 DEF Insert
 <2>2. /\ pc["io"] # <<>> /\ Head(pc["io"]) = "insert"
       /\ exe # <<>> /\ Head(exe).op = "send"
   BY <1>1, <2>1, HeadIn DEF At, InsertInv
 <2>3. /\ \A u \in Threads : u # "io" => pc'[u] = pc[u]
       /\ \A l : In("io", l) /\ Head(pc["io"]) # l => In("io", l)'
       /\ pc' \in [Threads -> Seq(Labels)]
       /\ \A l : In("io", l)' => Has(<< >>, l) \/ In("io", l)
   BY <1>1, <2>1, <2>2, GotoIs, StepSequences
 <2>4. Up' => Up
  <3>1. Head(pc["io"]) \notin StartLabels \cup {"stop post", "callback"}
    BY <2>2 DEF StartLabels
  <3> QED BY <1>1, <2>1, <2>3, <3>1, UpBefore
 <2>5. \A l \in Kept : In("io", l) => In("io", l)' BY <2>2, <2>3 DEF Kept
 <2>6. Up' => (ToWrite' => ToWrite) BY <2>1, <2>4 DEF ToWrite, Tidy, Up
 <2>7. Same
  <3>1. Head(pc["io"]) \notin UpdateSteps BY <2>2, UpdateStepsAre
  <3>2. \A l \in UpdateSteps : In("io", l)' => In("io", l) BY <2>3, WhatHas
  <3> QED BY <1>1, <2>1, <2>3, <3>1, <3>2, SameStays
 <2>8. ASSUME ToWrite' => ToWrite PROVE UpInv'
  <3>1. (ReadyR => ReadyR') /\ (ReadyW => ReadyW')
    BY <2>1, <2>5, <2>8, ReadyStays
  <3>2. Head(exe).op \notin SockOps BY <2>2 DEF SockOps
  <3>3. /\ \A types : MaskAfter(Pending, mask, types) => MaskAfter(Pending', mask', types)
        /\ Untouched(Pending') => Untouched(Pending)
    BY <1>4, <2>1, <2>2, <3>2
  <3> QED BY <1>3, <2>1, <2>4, <2>7, <2>8, <3>1, <3>3, UpStays
 <2>9. ~Up' => UpInv' BY DEF UpInv, ReadInv, WriteInv
 <2> QED BY <2>6, <2>8, <2>9
<1>9. CASE SendTaskSends
 <2>1. /\ exe # <<>> /\ exe' = Tail(exe) /\ Head(exe).op = "send" /\ queue' = queue
       /\ UNCHANGED <<event_types, started, outcome, inbox, sk, evs, ready, cb, mask>>
       /\ send_buf = <<>>
   BY <1>9 DEF SendTaskSends, Running, MustQueue
 <2>2. Head(exe).op \notin SockOps BY <2>1 DEF SockOps
 <2>3. /\ \A types : MaskAfter(Pending, mask, types) => MaskAfter(Pending', mask', types)
       /\ Untouched(Pending') => Untouched(Pending)
   BY <1>4, <2>1, <2>2
 <2>4. pc["io"] = << >> BY <1>9, SendGoes
 <2>5. ReadyR => ReadyR' BY <1>2, <2>1, <2>4 DEF ReadyR, Reported, ToRead
 <2>6. ASSUME \A u \in Threads : u # "io" => pc'[u] = pc[u] PROVE Up' => Up
   BY <1>1, <2>1, <2>4, <2>6, UpBefore
 <2>7. CASE pc' = [pc EXCEPT !["io"] = << >>] /\ UNCHANGED raced
  <3>1. pc' = pc BY <1>1, <2>4, <2>7
  <3>2. (Up' => Up) /\ Same BY <2>1, <3>1, SamePc
  <3>3. ~ToWrite'
   <4>1. SUFFICES ASSUME send_buf' # << >> PROVE FALSE BY DEF ToWrite
   <4>2. \/ send_buf' = send_buf
         \/ AwaitWritable(send_buf')
     BY <1>9 DEF SendTaskSends, Transmit
   <4>3. PICK types \in TypeSets : UpdateEvent(types, << >>)
    <5>1. event_types \cup {"W"} \in TypeSets
      BY UpdateLabels DEF Types, ClientTypes, TypeSets
    <5> QED BY <2>1, <4>1, <4>2, <5>1 DEF AwaitWritable
   <4>4. PICK l \in DOMAIN Updates : pc' = [pc EXCEPT !["io"] = <<l>> \o << >>]
     BY <4>3, UpdateIs
   <4>5. <<l>> \o << >> = << >> BY <1>1, <2>4, <3>1, <4>4
   <4>6. <<l>> \o << >> = <<l>> /\ <<l>> # << >>
    <5>1. l \in Labels BY UpdateLabels DEF UpdateSteps
    <5>2. <<l>> \in Seq(Labels) /\ <<l>> # << >> BY <5>1, FewSteps
    <5> QED BY <5>2
   <4> QED BY <4>5, <4>6
  <3> QED BY <1>3, <2>1, <2>3, <2>5, <2>7, <3>2, <3>3, UpStays
 <2>8. ASSUME NEW k \in DOMAIN Updates, Updates[k] = event_types \cup {"W"},
              pc' = [pc EXCEPT !["io"] = <<k>>], Overlaps
       PROVE  UpInv'
  <3>1. pc'["io"] = <<k>> /\ \A u \in Threads : u # "io" => pc'[u] = pc[u]
    BY <1>1, <2>8
  <3>2. At("io", k)' BY <3>1 DEF At
  <3>3. \A l : ~At("io", l) BY <2>4 DEF At
  <3> QED
    BY <1>1, <1>3, <2>1, <2>3, <2>5, <2>6, <2>8, <3>1, <3>2, <3>3, UpBegins
 <2> QED BY <1>9, <2>7, <2>8, SendGoes
<1> QED BY <1>5, <1>6, <1>7, <1>8, <1>9 DEF RunTask

\* What the state of the table is, when no task is left to change it.
LEMMA UpSettled ==
  ASSUME Up, UpInv, Untouched(Pending), Posted
  PROVE  /\ cb = "stream"
         /\ ~raced => {"R", "E"} \subseteq mask /\ ReadyR
         /\ ToWrite => "W" \in mask /\ ReadyW
<1>1. /\ cb = "stream"
      /\ \A types : MaskAfter(Pending, mask, types) => mask = types
  BY DEF UpInv, Untouched, StreamAfter, MaskAfter, IsStream, SockOps
<1>2. \E types : Now(types) BY DEF Now
<1>3. ~raced => {"R", "E"} \subseteq mask /\ ReadyR
  BY <1>1, <1>2 DEF UpInv, ReadInv
<1>4. ToWrite => "W" \in mask /\ ReadyW BY <1>1 DEF UpInv, WriteInv
<1> QED BY <1>1, <1>3, <1>4

LEMMA UpEvents ==
  ASSUME Types, UpdateInv, UpInv,
         \/ epoll_wait \/ TakeTasks \/ NoHandler \/ SocketCb \/ TimerCb \/ StreamCb
  PROVE  UpInv'
<1> USE DEF client, entry, kernel, ghosts
<1>1. /\ pc \in [Threads -> Seq(Labels)] /\ "io" \in Threads /\ pc["io"] = <<>>
      /\ UNCHANGED <<event_types, started, outcome, send_buf, inbox, sk, room, cb, mask, raced>>
  BY DEF Types, LoopTypes, Threads, epoll_wait, TakeTasks, NoHandler, SocketCb,
     TimerCb, StreamCb, Event
<1>2. \A l : ~In("io", l) BY <1>1, Idle
<1>3. \A u \in Threads : u # "io" => pc'[u] = pc[u]
  BY <1>1 DEF epoll_wait, TakeTasks, NoHandler, SocketCb, TimerCb, StreamCb
<1>4. Up' => Up BY <1>1, <1>3, UpBefore
<1>5. Pending' = Pending
 <2>1. CASE TakeTasks BY <2>1, PendingTaken
 <2>2. CASE ~TakeTasks
  <3>1. UNCHANGED <<exe, queue>>
    BY <2>2 DEF epoll_wait, NoHandler, SocketCb, TimerCb, StreamCb
  <3> QED BY <3>1 DEF Pending
 <2> QED BY <2>1, <2>2
<1>6. (ToWrite' <=> ToWrite) /\ (ToRead' <=> ToRead) BY <1>1 DEF ToWrite, ToRead
<1>7. Same
 <2>1. PICK s \in Seq(Labels) : /\ pc' = [pc EXCEPT !["io"] = s]
                                /\ \A l \in UpdateSteps : ~Has(s, l)
  <3>1. CASE pc' = pc
   <4>1. pc["io"] \in Seq(Labels) /\ pc' = [pc EXCEPT !["io"] = pc["io"]]
     BY <1>1, <3>1
   <4>2. \A l : ~Has(pc["io"], l) BY <1>2 DEF In
   <4> QED BY <4>1, <4>2
  <3>2. CASE StreamCb
   <4>1. PICK p : p = Phases(Head(evs).types) /\ pc' = [pc EXCEPT !["io"] = p]
     BY <3>2 DEF StreamCb, Phases
   <4>2. p \in Seq(Labels) /\ \A l : Has(p, l) => l \in {"read", "write", "error", "split"}
     BY <4>1, PhasesAre
   <4> QED BY <4>1, <4>2, UpdateStepsAre
  <3>3. CASE SocketCb \/ TimerCb
   <4>1. PICK s \in {Failure, Success, <<"unwatch timer">>} : pc' = [pc EXCEPT !["io"] = s]
     BY <3>3 DEF SocketCb, TimerCb, Attempt
   <4>2. /\ s \in Seq(Labels)
         /\ \A l : Has(s, l) => l \in {"disconnected", "unwatch timer", "refuse",
                                       "connected", "start"}
    <5>1. CASE s = Failure BY <5>1, StepSequences, WhatHas
    <5>2. CASE s = Success BY <5>2, StepSequences, WhatHas
    <5>3. CASE s = <<"unwatch timer">> BY <5>3, StepSequences, WhatHas
    <5> QED BY <5>1, <5>2, <5>3
   <4> QED BY <4>1, <4>2, UpdateStepsAre
  <3> QED BY <3>1, <3>2, <3>3 DEF epoll_wait, TakeTasks, NoHandler
 <2>2. /\ pc' \in [Threads -> Seq(Labels)] /\ pc'["io"] = s
       /\ \A l \in UpdateSteps : In("io", l)' => In("io", l)
   BY <1>1, <2>1 DEF In
 <2> QED BY <1>1, <1>3, <2>2, SameStays
<1>8. ASSUME Up /\ cb = "stream" /\ {"R", "E"} \subseteq mask => (ReadyR => ReadyR'),
             Up /\ cb = "stream" /\ "W" \in mask /\ ToWrite => (ReadyW => ReadyW')
      PROVE  UpInv'
  BY <1>1, <1>4, <1>5, <1>6, <1>7, <1>8, UpStays
<1>9. CASE epoll_wait
 <2>1. /\ "sock" \in ready /\ (Level(mask) # {} \/ HangUp) =>
            \E i \in DOMAIN evs' : evs'[i] = SockEvent
   BY <1>9, Fetched
 <2>2. evs = <<>> BY <1>9 DEF epoll_wait
 <2>3. \A type \in Level(mask) : "sock" \in ready => Reported(type)'
  <3>1. SockEvent.src = "sock" /\ SockEvent.types = Level(mask) BY DEF SockEvent
  <3> QED BY <2>1, <3>1 DEF Reported
 <2>4. \A type : Reported(type) => "sock" \in ready BY <2>2 DEF Reported
 <2>5. {"R", "E"} \subseteq mask /\ ReadyR => ReadyR'
  <3>1. SUFFICES ASSUME ReadyR, ToRead, {"R", "E"} \subseteq mask PROVE Reported("R")'
    BY <1>6 DEF ReadyR
  <3>2. "sock" \in ready BY <1>2, <2>4, <3>1 DEF ReadyR
  <3>3. "R" \in Level(mask) BY <3>1 DEF ToRead, Level, Readable
  <3> QED BY <2>3, <3>2, <3>3
 <2>6. "W" \in mask /\ ReadyW => ReadyW'
  <3>1. SUFFICES ASSUME ReadyW, ToWrite, "W" \in mask, sk \in {"established", "fin"}, room > 0
                 PROVE  Reported("W")'
    BY <1>1, <1>6 DEF ReadyW
  <3>2. "sock" \in ready BY <1>2, <2>4, <3>1 DEF ReadyW
  <3>3. "W" \in Level(mask) BY <3>1 DEF Level, Writable
  <3> QED BY <2>3, <3>2, <3>3
 <2> QED BY <1>8, <2>5, <2>6
\* An event is taken from the batch.
<1>10. ASSUME NEW src, Event(src), ready' = ready, NEW type,
              src # "sock" \/ type \notin Head(evs).types
       PROVE  Reported(type) => Reported(type)'
 <2>1. /\ Head(evs) = evs[1] /\ Head(evs).src = src /\ Len(evs) \in Nat
       /\ evs \in Seq(Events) /\ evs' \in Seq(Events)
       /\ Len(evs') = Len(evs) - 1
       /\ \A i \in 1..(Len(evs) - 1) : evs'[i] = evs[i + 1]
   BY <1>10, NextEvent DEF Types, LoopTypes
 <2>2. ASSUME NEW i \in DOMAIN evs, evs[i].src = "sock", type \in evs[i].types
       PROVE  \E k \in DOMAIN evs' : evs'[k].src = "sock" /\ type \in evs'[k].types
  <3>1. i # 1 BY <1>10, <2>1, <2>2
  <3>2. i - 1 \in DOMAIN evs' /\ evs'[i - 1] = evs[(i - 1) + 1] /\ (i - 1) + 1 = i
    BY <2>1, <3>1
  <3> QED BY <2>2, <3>2
 <2> QED BY <1>10, <2>2 DEF Reported
<1>11. CASE TakeTasks \/ NoHandler \/ SocketCb \/ TimerCb
 <2>1. CASE cb = "stream"
  <3>1. PICK src : Event(src) /\ src # "sock"
   <4>1. Event("wake") \/ Event("timer")
     BY <1>11, <2>1 DEF TakeTasks, NoHandler, SocketCb, TimerCb
   <4> QED BY <4>1
  <3>2. ready' = ready BY <1>11 DEF TakeTasks, NoHandler, SocketCb, TimerCb
  <3>3. \A type : Reported(type) => Reported(type)' BY <1>10, <3>1, <3>2
  <3> QED BY <1>1, <1>2, <1>6, <1>8, <3>3 DEF ReadyR, ReadyW
 <2> QED BY <1>8, <2>1
<1>12. CASE StreamCb
 <2>1. Event("sock") /\ ready' = ready BY <1>12 DEF StreamCb
 <2>2. PICK p : p = Phases(Head(evs).types) /\ pc' = [pc EXCEPT !["io"] = p]
   BY <1>12 DEF StreamCb, Phases
 <2>3. /\ "R" \in Head(evs).types => In("io", "read")'
       /\ "W" \in Head(evs).types => In("io", "write")'
  <3>1. pc'["io"] = p BY <1>1, <2>2
  <3> QED BY <2>2, <3>1, PhasesAre DEF In
 <2>4. /\ Reported("R") => Reported("R")' \/ In("io", "read")'
       /\ Reported("W") => Reported("W")' \/ In("io", "write")'
   BY <1>10, <2>1, <2>3
 <2> QED BY <1>1, <1>2, <1>6, <1>8, <2>4 DEF ReadyR, ReadyW
<1> QED BY <1>9, <1>11, <1>12

\* A phase of the stream callback takes the first step off the stack.
LEMMA PhaseGoes ==
  ASSUME Types, UpdateInv, pc["io"] # <<>>,
         Head(pc["io"]) \in {"read", "write", "error", "split", "closed"},
         Disconnected \/ \E steps \in Seq(Labels) : Goto("io", steps),
         UNCHANGED <<started, outcome, event_types>>
  PROVE  /\ Up' => Up
         /\ \A l : In("io", l) /\ Head(pc["io"]) # l => In("io", l)'
         /\ pc'["app"] = pc["app"] /\ \A l \in UpdateSteps : ~At("io", l)
         /\ \/ Disconnected
            \/ \E steps \in {<< >>, <<"refuse">>, <<"stop", "callback">>} : Goto("io", steps)
            => Same
<1>1. /\ pc \in [Threads -> Seq(Labels)] /\ "io" \in Threads /\ "app" \in Threads
      /\ "app" # "io" /\ \A u \in Threads : u # "io" => u = "app"
  BY DEF Types, LoopTypes, Threads
<1>2. Head(pc["io"]) \notin StartLabels \cup {"stop post", "callback"} \cup UpdateSteps
  BY UpdateStepsAre DEF StartLabels
<1>3. \A l \in UpdateSteps : ~At("io", l) BY <1>2 DEF At
<1>4. CASE \E steps \in Seq(Labels) : Goto("io", steps)
 <2>1. /\ \A u \in Threads : u # "io" => pc'[u] = pc[u]
       /\ \A l : In("io", l) /\ Head(pc["io"]) # l => In("io", l)'
   BY <1>1, <1>4, GotoIs
 <2>2. Up' => Up BY <1>1, <1>2, <2>1, UpBefore
 <2>3. ASSUME NEW steps \in {<< >>, <<"refuse">>, <<"stop", "callback">>}, Goto("io", steps)
       PROVE  Same
  <3>1. steps \in Seq(Labels) /\ \A l : Has(steps, l) => l \in {"refuse", "stop", "callback"}
   <4>1. CASE steps = << >> BY <4>1, StepSequences, WhatHas
   <4>2. CASE steps = <<"refuse">> BY <4>2, StepSequences, WhatHas
   <4>3. CASE steps = <<"stop", "callback">> BY <4>3, StepSequences, WhatHas
   <4> QED BY <2>3, <4>1, <4>2, <4>3
  <3>2. /\ pc' \in [Threads -> Seq(Labels)]
        /\ \A l : In("io", l)' => Has(steps, l) \/ In("io", l)
    BY <1>1, <2>3, <3>1, GotoIs
  <3>3. \A l \in UpdateSteps : In("io", l)' => In("io", l)
    BY <3>1, <3>2, UpdateStepsAre
  <3> QED BY <1>1, <1>2, <2>1, <3>2, <3>3, SameStays
 <2>4. Disconnected => Same
  <3>1. SUFFICES ASSUME Disconnected PROVE Same OBVIOUS
  <3>2. /\ pc' \in [Threads -> Seq(Labels)]
        /\ \A l : In("io", l)' => l = "closed" \/ In("io", l)
    BY <1>1, <3>1, DisconnectedIs
  <3>3. \A l \in UpdateSteps : In("io", l)' => In("io", l)
    BY <3>2, UpdateStepsAre
  <3> QED BY <1>1, <1>2, <2>1, <3>2, <3>3, SameStays
 <2> QED BY <1>1, <1>3, <2>1, <2>2, <2>3, <2>4
<1>5. CASE Disconnected
 <2>1. /\ \A u \in Threads : u # "io" => pc'[u] = pc[u]
       /\ \A l : In("io", l) /\ Head(pc["io"]) # l => In("io", l)'
       /\ pc' \in [Threads -> Seq(Labels)]
       /\ \A l : In("io", l)' => l = "closed" \/ In("io", l)
   BY <1>1, <1>5, DisconnectedIs
 <2>2. Up' => Up BY <1>1, <1>2, <2>1, UpBefore
 <2>3. \A l \in UpdateSteps : In("io", l)' => In("io", l)
   BY <2>1, UpdateStepsAre
 <2>4. Same BY <1>1, <1>2, <2>1, <2>3, SameStays
 <2> QED BY <1>1, <1>3, <2>1, <2>2, <2>4
<1> QED BY <1>4, <1>5

\* Everything is read, or the connection closed.
LEMMA ReadEnds ==
  ASSUME Types, ErrorInv, Read
  PROVE  ToRead' => In("io", "closed")'
<1>1. /\ pc \in [Threads -> Seq(Labels)] /\ pc["io"] # <<>> /\ inbox' = <<>> /\ sk' = sk
      /\ sk \in SkStates /\ err \in Errors
  BY DEF Types, LoopTypes, KernelTypes, Read, At
<1>2. CASE Disconnected BY <1>1, <1>2, DisconnectedIs
<1>3. CASE sk \in {"connecting", "established"} BY <1>1, <1>3 DEF ToRead
<1>4. CASE ~EndOfStream /\ sk \notin {"connecting", "established"}
 <2>1. sk = "fin" => EndOfStream BY DEF EndOfStream, ErrorInv
 <2>2. sk = "dead" /\ NetErrors \subseteq {"reset"} => EndOfStream
   BY <1>1 DEF EndOfStream, ErrorInv, Errors
 <2> QED BY <1>1, <1>4, <2>1, <2>2 DEF ToRead
<1> QED BY <1>2, <1>3, <1>4 DEF Read

\* The update is posted.
LEMMA UpPosts ==
  ASSUME Types, UpdateInv, UpdateInv', UpInv, PostUpdate
  PROVE  UpInv'
<1> USE DEF client, entry, kernel, ghosts
<1>1. PICK l \in DOMAIN Updates, k \in DOMAIN Stores :
        /\ At("io", l) /\ Stores[k] = Updates[l]
        /\ Post(<<Update(Updates[l])>>) /\ Goto("io", <<k>>)
  BY PostIs
<1>2. /\ pc \in [Threads -> Seq(Labels)] /\ "io" \in Threads
      /\ UNCHANGED <<event_types, started, outcome, send_buf, exe, cb, mask, raced>>
  BY DEF PostUpdate, Types, LoopTypes, Threads
<1>3. /\ l \in UpdateSteps /\ k \in UpdateSteps /\ k \notin DOMAIN Updates
      /\ Updates[l] \in SUBSET EventTypes
  BY UpdateLabels DEF UpdateSteps
<1>4. pc["io"] # << >> /\ Head(pc["io"]) = l BY <1>1 DEF At
<1>5. /\ \A u \in Threads : u # "io" => pc'[u] = pc[u]
      /\ At("io", k)'
 <2>1. PICK steps \in Seq(Labels) : steps = <<k>> /\ Goto("io", steps)
   BY <1>1, StoreSteps
 <2>2. steps # << >> /\ steps[1] = k BY <2>1
 <2> QED BY <1>2, <1>4, <2>1, <2>2, GotoIs DEF At
<1>6. Up' => Up
 <2>1. Head(pc["io"]) \notin StartLabels \cup {"stop post", "callback"}
   BY <1>3, <1>4, UpdateStepsAre DEF StartLabels
 <2> QED BY <1>2, <1>5, <2>1, UpBefore
<1> SUFFICES ASSUME Up' PROVE StreamAfter(Pending', cb') /\ ReadInv' /\ WriteInv'
  BY DEF UpInv, ReadInv, WriteInv
<1>7. PICK x \in Tasks : x = Update(Updates[l]) /\ x.op = "update" /\ x.types = Updates[l]
  BY <1>3, PostedTask
<1>8. Pending \in Seq(Tasks) /\ Pending' = Pending \o <<x>>
  BY <1>1, <1>2, <1>7, PendingPosted
<1>9. /\ MaskAfter(Pending', mask', Updates[l]) /\ ~Untouched(Pending')
      /\ StreamAfter(Pending', cb')
 <2>1. x.op \in {"enable", "update"} /\ x.op \in SockOps /\ x.op \notin CbOps
   BY <1>7 DEF SockOps, CbOps
 <2>2. /\ MaskAfter(Pending', mask, x.types) /\ ~Untouched(Pending')
       /\ StreamAfter(Pending', cb) <=> StreamAfter(Pending, cb)
   BY <1>8, <2>1, TaskPosted
 <2> QED BY <1>2, <1>6, <1>7, <2>2 DEF UpInv
<1>10. ReadInv'
 <2> SUFFICES ASSUME ~raced'
              PROVE  /\ \A types : Now(types)' => types = Updates[l]
                     /\ \A j \in DOMAIN Updates : ~At("io", j)'
                     /\ {"R", "E"} \subseteq Updates[l]
   BY <1>9 DEF ReadInv
 <2>1. \A u \in Threads : \A j \in UpdateSteps : At(u, j)' => u = "io" /\ j = k
   BY <1>2, <1>3, <1>5, OneUpdates
 <2>2. DOMAIN Stores \subseteq UpdateSteps /\ DOMAIN Updates \subseteq UpdateSteps
   BY DEF UpdateSteps
 <2>3. \A types : Now(types)' => types = Updates[l]
   BY <1>1, <1>2, <1>5, <2>1, <2>2 DEF Now
 <2>4. {"R", "E"} \subseteq Updates[l] BY <1>1, <1>2, <1>6 DEF UpInv, ReadInv
 <2>5. \A j \in DOMAIN Updates : ~At("io", j)' BY <1>2, <1>3, <2>1, <2>2
 <2> QED BY <2>3, <2>4, <2>5
<1>11. WriteInv'
 <2>1. ToWrite' => "W" \in Updates[l] BY <1>1, <1>2 DEF ToWrite, UpdateInv
 <2> QED BY <1>9, <2>1 DEF WriteInv
<1> QED BY <1>9, <1>10, <1>11

LEMMA UpPhases ==
  ASSUME Basics, UpInv, Read \/ Write \/ Error \/ Split \/ Closed
  PROVE  UpInv'
<1> USE DEF client, entry, kernel, ghosts
<1>1. /\ Types /\ ErrorInv /\ UpdateInv /\ pc \in [Threads -> Seq(Labels)]
      /\ exe \in Seq(Tasks) /\ queue \in Seq(Tasks) /\ event_types \in SUBSET EventTypes
      /\ send_buf \in Seq(Messages)
  BY DEF Basics, Types, LoopTypes, ClientTypes, EventTypes
<1>2. /\ pc["io"] # <<>> /\ Head(pc["io"]) \in {"read", "write", "error", "split", "closed"}
      /\ UNCHANGED <<started, outcome, event_types, exe, queue, evs, cb, mask, ready, sk>>
  BY DEF Read, Write, Error, Split, Closed, At
<1>3. Disconnected \/ \E steps \in Seq(Labels) : Goto("io", steps)
 <2>1. CASE Write
  <3>1. \A l \in DOMAIN Updates : <<l>> \in Seq(Labels)
    BY StepSequences, UpdateLabels, FewSteps DEF UpdateSteps
  <3> QED BY <1>1, <2>1, <3>1, WriteGoes, StepSequences
 <2> QED BY <2>1, StepSequences DEF Read, Error, Split, Closed
<1>4. /\ Up' => Up
      /\ \A l : In("io", l) /\ Head(pc["io"]) # l => In("io", l)'
      /\ pc'["app"] = pc["app"] /\ \A l \in UpdateSteps : ~At("io", l)
      /\ \/ Disconnected
         \/ \E steps \in {<< >>, <<"refuse">>, <<"stop", "callback">>} : Goto("io", steps)
         => Same
  BY <1>1, <1>2, <1>3, PhaseGoes
<1>5. (\A type : Reported(type)' <=> Reported(type)) /\ Pending' = Pending
  BY <1>2 DEF Reported, Pending
<1>6. CASE Read
 <2>1. /\ UNCHANGED <<send_buf, room, raced>> /\ Head(pc["io"]) = "read"
       /\ Disconnected \/ Goto("io", << >>)
   BY <1>6 DEF Read, At
 <2>2. ToWrite' <=> ToWrite BY <2>1 DEF ToWrite
 <2>3. ReadyR' BY <1>1, <1>6, ReadEnds DEF ReadyR
 <2>4. In("io", "write") => In("io", "write")' BY <1>4, <2>1
 <2>5. ReadyW => ReadyW' BY <1>2, <1>5, <2>1, <2>2, <2>4 DEF ReadyW
 <2>6. Same BY <1>4, <2>1
 <2> QED BY <1>2, <1>4, <1>5, <2>1, <2>2, <2>3, <2>5, <2>6, UpStays
\* The rest of the phases read nothing.
<1>7. ASSUME Head(pc["io"]) # "read", Head(pc["io"]) # "closed", inbox' = inbox
      PROVE  ReadyR => ReadyR'
 <2>1. /\ In("io", "read") => In("io", "read")'
       /\ In("io", "closed") => In("io", "closed")'
       /\ In("io", "stop") => In("io", "stop")'
   BY <1>2, <1>4, <1>7
 <2>2. ToRead' <=> ToRead BY <1>2, <1>7 DEF ToRead
 <2> QED BY <1>5, <2>1, <2>2 DEF ReadyR
<1>8. CASE Error \/ Split
 <2>1. /\ UNCHANGED <<room, inbox, raced>>
       /\ Head(pc["io"]) \in {"error", "split"}
       /\ send_buf' = send_buf \/ send_buf' = <<>>
       /\ Goto("io", << >>) \/ Goto("io", <<"refuse">>)
   BY <1>8 DEF Error, Split, At
 <2>2. ToWrite' => ToWrite BY <2>1 DEF ToWrite
 <2>3. ReadyR => ReadyR' BY <1>7, <2>1
 <2>4. In("io", "write") => In("io", "write")' BY <1>4, <2>1
 <2>5. ReadyW => ReadyW' BY <1>2, <1>5, <2>1, <2>2, <2>4 DEF ReadyW
 <2>6. Same BY <1>4, <2>1
 <2> QED BY <1>2, <1>4, <1>5, <2>1, <2>2, <2>3, <2>5, <2>6, UpStays
<1>9. CASE Closed
 <2>1. raced' = raced /\ send_buf' = <<>> /\ Goto("io", <<"stop", "callback">>)
   BY <1>9 DEF Closed
 <2>2. ~ToWrite' BY <2>1 DEF ToWrite
 <2>3. In("io", "stop")'
  <3>1. PICK steps \in Seq(Labels) : steps = <<"stop", "callback">> /\ Goto("io", steps)
    BY <2>1, StepSequences
  <3>2. Has(steps, "stop") BY <3>1, WhatHas
  <3> QED BY <1>1, <1>2, <3>1, <3>2, GotoIs DEF Threads
 <2>4. ReadyR' /\ ReadyW' BY <2>2, <2>3 DEF ReadyR, ReadyW
 <2>5. Same BY <1>4, <2>1
 <2> QED BY <1>2, <1>4, <1>5, <2>1, <2>2, <2>4, <2>5, UpStays
<1>10. CASE Write
 <2>1. inbox' = inbox /\ Head(pc["io"]) = "write" BY <1>10 DEF Write, At
 <2>2. ReadyR => ReadyR'
   BY <1>7, <2>1
 \* New types are computed, as nothing is left.
 <2>3. ASSUME NEW k \in DOMAIN Updates, Updates[k] = event_types \ {"W"},
              Goto("io", <<k>>), Overlaps
       PROVE  UpInv'
  <3>1. PICK steps \in Seq(Labels) : steps = <<k>> /\ Goto("io", steps)
    BY <2>3, UpdateLabels, FewSteps DEF UpdateSteps
  <3>2. steps # << >> /\ steps[1] = k BY <3>1
  <3>3. At("io", k)' BY <1>1, <1>2, <3>1, <3>2, GotoIs DEF At, Threads
  <3> QED BY <1>2, <1>4, <1>5, <2>2, <2>3, <3>3, UpBegins
\* Nothing was written, or something is left.
 <2>4. CASE Goto("io", << >>) \/ Disconnected
  <3>1. Same BY <1>4, <2>4
  <3>2. CASE ~Sending /\ UNCHANGED <<send_buf, raced>>
   <4>1. ToWrite' <=> ToWrite BY <3>2 DEF ToWrite
   <4>2. ReadyW' BY <1>2, <3>2 DEF ReadyW, Sending
   <4> QED BY <1>2, <1>4, <1>5, <2>2, <3>1, <3>2, <4>1, <4>2, UpStays
  <3>3. CASE Transmit(send_buf) /\ Drained(Rest(send_buf))
   <4>1. send_buf' = Rest(send_buf) /\ room' = room - Accepted(send_buf)
     BY <3>3 DEF Transmit
   <4>2. raced => raced' BY <3>3 DEF Drained, UpdateEvent, NoUpdate, Overlaps
   <4>3. CASE send_buf' = << >>
     BY <1>2, <1>4, <1>5, <2>2, <3>1, <4>2, <4>3, UpStays DEF ToWrite
   <4>4. CASE Rest(send_buf) # <<>>
    <5>1. Accepted(send_buf) # Len(send_buf) /\ send_buf # <<>>
     <6>1. PICK n \in Nat : n = Len(send_buf) BY <1>1
     <6>2. SubSeq(send_buf, n + 1, n) = <<>> BY <1>1, <6>1
     <6>3. Accepted(send_buf) # Len(send_buf) BY <4>4, <6>1, <6>2 DEF Rest
     <6>4. send_buf = <<>> => Accepted(send_buf) = 0 /\ Len(send_buf) = 0
      <7>1. Accepted(send_buf) \in 0..Len(send_buf) BY <1>1, SendTakes
      <7> QED BY <7>1
     <6> QED BY <6>3, <6>4
    <5>2. sk # "connecting" => room' = 0
     <6>1. room \in Nat BY <1>1, Bounds DEF Types, KernelTypes
     <6>2. sk # "connecting" => Accepted(send_buf) = room BY <5>1 DEF Accepted
     <6> QED BY <4>1, <6>1, <6>2
    <5>3. ReadyW' BY <1>2, <5>2 DEF ReadyW
    <5>4. ToWrite' => ToWrite BY <5>1 DEF ToWrite
    <5> QED BY <1>2, <1>4, <1>5, <2>2, <3>1, <4>2, <5>3, <5>4, UpStays
   <4> QED BY <4>1, <4>3, <4>4
  <3> QED BY <1>10, <3>2, <3>3 DEF Write, NoUpdate
 <2> QED BY <1>1, <1>10, <2>3, <2>4, WriteGoes
<1> QED BY <1>6, <1>8, <1>9, <1>10

\* The application's other calls, the environment, and a step of nobody.
LEMMA UpOthers ==
  ASSUME Types, UpdateInv, UpInv,
         \/ AppConnect \/ AppStop \/ AppStart \/ \E m \in Messages : PostSend(m)
         \/ ConnectEnds \/ PeerSends \/ PeerCloses \/ Drain \/ Expire
         \/ \E e \in NetErrors : Breaks(e)
         \/ UNCHANGED vars
  PROVE  UpInv'
<1> USE DEF client, entry, kernel, ghosts
<1>1. pc \in [Threads -> Seq(Labels)] /\ "io" \in Threads /\ "app" \in Threads
      /\ room \in 0..Room
  BY DEF Types, LoopTypes, KernelTypes, Threads
<1>2. UNCHANGED <<event_types, started, outcome, send_buf, exe, evs, cb, mask, raced>>
  BY DEF AppConnect, AppStop, AppStart, UserCall, PostSend, ConnectEnds, PeerSends,
     PeerCloses, Drain, Expire, Breaks, Quietly, vars
<1>3. ToWrite' <=> ToWrite BY <1>2 DEF ToWrite
<1>4. CASE AppConnect \/ AppStop \/ AppStart
 <2>1. PICK k \in {"cas", "stop", "start"} : UserCall(<<k>>)
   BY <1>4 DEF AppConnect, AppStop, AppStart
 <2>2. /\ pc["app"] = <<>> /\ \A u \in Threads : u # "app" => pc'[u] = pc[u]
       /\ UNCHANGED <<inbox, sk, room, ready, queue>>
       /\ pc' = [pc EXCEPT !["app"] = <<k>>]
   BY <1>1, <2>1 DEF UserCall
 <2>3. Up' => Up BY <1>1, <1>2, <2>2, UpBefore
 <2>4. \A l \in Kept : In("io", l) => In("io", l)' BY <1>1, <2>2 DEF In
 <2>5. (ReadyR => ReadyR') /\ (ReadyW => ReadyW')
   BY <1>2, <1>3, <2>2, <2>4, ReadyStays
 <2>6. Pending' = Pending BY <1>2, <2>2 DEF Pending
 <2>7. Same
  <3>1. /\ pc' \in [Threads -> Seq(Labels)] /\ pc'["app"] = <<k>>
    BY <1>1, <2>2, StepSequences
  <3>2. \A l : Has(<<k>>, l) => l = k BY WhatHas
  <3>3. \A l \in UpdateSteps : In("app", l)' => In("app", l)
    BY <3>1, <3>2, UpdateStepsAre DEF In
  <3> QED BY <1>1, <1>2, <2>2, <3>1, <3>3, SameStays
 <2> QED BY <1>2, <1>3, <2>3, <2>5, <2>6, <2>7, UpStays
\* The stacks are not touched.
<1>5. ASSUME pc' = pc
      PROVE  (Up' => Up) /\ Same /\ \A l : In("io", l)' <=> In("io", l)
  BY <1>2, <1>5, SamePc
<1>6. ASSUME NEW m \in Messages, PostSend(m) PROVE UpInv'
 <2>1. Post(<<Send(m)>>) /\ pc' = pc /\ UNCHANGED <<inbox, sk, room, ready>>
   BY <1>6 DEF PostSend
 <2>2. PICK x \in Tasks : x = Send(m) /\ x.op \notin SockOps
   BY PostedTask DEF SockOps
 <2>3. /\ StreamAfter(Pending', cb) <=> StreamAfter(Pending, cb)
       /\ \A types : MaskAfter(Pending', mask', types) <=> MaskAfter(Pending, mask, types)
       /\ Untouched(Pending') <=> Untouched(Pending)
   BY <1>2, <2>1, <2>2, OtherPosted
 <2>4. (ReadyR => ReadyR') /\ (ReadyW => ReadyW')
   BY <1>2, <1>3, <1>5, <2>1, ReadyStays
 <2> QED BY <1>2, <1>3, <1>5, <2>1, <2>3, <2>4, UpStays
<1>7. ASSUME pc' = pc, UNCHANGED queue,
             {"R", "E"} \subseteq mask => (ReadyR => ReadyR'),
             "W" \in mask /\ ToWrite => (ReadyW => ReadyW')
      PROVE  UpInv'
 <2>1. Pending' = Pending BY <1>2, <1>7 DEF Pending
 <2> QED BY <1>2, <1>3, <1>5, <1>7, <2>1, UpStays
<1>8. CASE Expire \/ UNCHANGED vars
 <2>1. /\ pc' = pc /\ UNCHANGED <<inbox, sk, room, queue>>
       /\ "sock" \in ready => "sock" \in ready'
   BY <1>8 DEF Expire, Quietly, Signal, vars
 <2>2. (ReadyR => ReadyR') /\ (ReadyW => ReadyW')
   BY <1>2, <1>3, <1>5, <2>1, ReadyStays
 <2> QED BY <1>7, <2>1, <2>2
\* What happens to the socket is signalled.
<1>9. ASSUME pc' = pc, UNCHANGED queue,
             "R" \in mask \/ "W" \in mask => "sock" \in ready'
      PROVE  UpInv'
 <2>1. "sock" \in ready' => ReadyR' /\ ReadyW' BY DEF ReadyR, ReadyW, Reported
 <2> QED BY <1>7, <1>9, <2>1
<1>10. ASSUME PeerSends, "R" \notin mask
       PROVE  UpInv'
 <2>1. /\ pc' = pc /\ UNCHANGED <<queue, sk, room>>
       /\ "sock" \in ready => "sock" \in ready'
   BY <1>10 DEF PeerSends, Quietly, Signal
 <2>2. \A type : Reported(type) => Reported(type)' BY <1>2, <2>1 DEF Reported
 <2>3. ReadyW => ReadyW' BY <1>3, <1>5, <2>1, <2>2 DEF ReadyW
 <2> QED BY <1>7, <1>10, <2>1, <2>3
<1>11. CASE ConnectEnds \/ PeerSends \/ PeerCloses \/ \E e \in NetErrors : Breaks(e)
 <2>1. pc' = pc /\ UNCHANGED queue
   BY <1>11 DEF ConnectEnds, PeerSends, PeerCloses, Breaks, Quietly
 <2>2. PeerSends => "R" \in mask \/ UpInv' BY <1>10
 <2>3. "R" \in mask \/ ~PeerSends => ("R" \in mask \/ "W" \in mask => "sock" \in ready')
   BY <1>11 DEF ConnectEnds, PeerSends, PeerCloses, Breaks, Signal
 <2> QED BY <1>9, <2>1, <2>2, <2>3
<1>12. CASE Drain
 <2>1. /\ pc' = pc /\ UNCHANGED <<queue, inbox, sk>>
       /\ "sock" \in ready => "sock" \in ready'
       /\ room = 0 /\ "W" \in mask => "sock" \in ready'
   BY <1>12 DEF Drain, Quietly, Signal
 <2>2. \A type : Reported(type) => Reported(type)' BY <1>2, <2>1 DEF Reported
 <2>3. ReadyR => ReadyR'
  <3>1. ToRead' <=> ToRead BY <2>1 DEF ToRead
  <3> QED BY <1>5, <2>1, <2>2, <3>1 DEF ReadyR
 <2>4. "W" \in mask /\ ToWrite => (ReadyW => ReadyW')
  <3>1. CASE room = 0
   <4>1. "W" \in mask => "sock" \in ready' BY <2>1, <3>1
   <4> QED BY <1>3, <4>1 DEF ReadyW, Reported
  <3>2. CASE room # 0
   <4>1. room > 0 BY <1>1, <3>2, Bounds
   <4> QED BY <1>3, <1>5, <2>1, <2>2, <4>1 DEF ReadyW
  <3> QED BY <3>1, <3>2
 <2> QED BY <1>7, <2>1, <2>3, <2>4
<1> QED BY <1>4, <1>6, <1>8, <1>11, <1>12

LEMMA UpInductive == Basics /\ Tidy /\ UpInv /\ [Next]_vars => UpInv'
<1> SUFFICES ASSUME Basics, Tidy, UpInv, [Next]_vars PROVE UpInv' OBVIOUS
<1>1. Types /\ InsertInv /\ ErrorInv /\ UpdateInv /\ UpdateInv'
  BY BasicsInductive DEF Basics
<1>2. \A t \in Threads : ThreadStep(t) => UpInv' BY <1>1, UpCalls
<1>3. ThreadStep("io") \/ ThreadStep("app") => UpInv' BY <1>2 DEF Threads
<1>4. RunTask => UpInv' BY <1>1, UpTasks
<1>5. epoll_wait \/ TakeTasks \/ NoHandler \/ SocketCb \/ TimerCb \/ StreamCb => UpInv'
  BY <1>1, UpEvents
<1>6. Read \/ Write \/ Error \/ Split \/ Closed => UpInv' BY UpPhases
<1>8. PostUpdate => UpInv' BY <1>1, UpPosts
<1>7. CASE \/ AppConnect \/ AppStop \/ AppStart \/ \E m \in Messages : PostSend(m)
           \/ ConnectEnds \/ PeerSends \/ PeerCloses \/ Drain \/ Expire
           \/ \E e \in NetErrors : Breaks(e)
           \/ UNCHANGED vars
  BY <1>1, <1>7, UpOthers
<1> QED BY <1>3, <1>4, <1>5, <1>6, <1>7, <1>8 DEF Next, IoStep

\* Between the steps of the library.
LEMMA UpShows ==
  ASSUME UpInv, Quiet, started, outcome = "connected"
  PROVE  /\ cb = "stream"
         /\ ~raced => {"R", "E"} \subseteq mask /\ (ToRead => "sock" \in ready)
         /\ ToWrite => "W" \in mask
         /\ ToWrite /\ sk \in {"established", "fin"} /\ room > 0 => "sock" \in ready
<1>1. /\ \A t \in Threads : pc[t] = <<>>
      /\ queue = <<>> /\ exe = <<>> /\ evs = <<>> /\ "io" \in Threads
  BY DEF Quiet, Threads
<1>2. \A t \in Threads : \A l : ~At(t, l) BY <1>1 DEF At
<1>3. Up /\ Posted BY <1>1, <1>2 DEF Up, Starting, Posted
<1>4. Untouched(Pending) BY <1>1 DEF Untouched, Pending
<1>5. \A l : ~In("io", l) BY <1>1, Idle
<1>6. \A type : Reported(type) => "sock" \in ready BY <1>1 DEF Reported
<1>7. /\ cb = "stream"
      /\ ~raced => {"R", "E"} \subseteq mask /\ ReadyR
      /\ ToWrite => "W" \in mask /\ ReadyW
  BY <1>3, <1>4, UpSettled
<1> QED BY <1>5, <1>6, <1>7 DEF ReadyR, ReadyW

LEMMA UpInit == Init => UpInv
  BY DEF Init, UpInv, ReadInv, WriteInv, Up

----------------------------------------
\* The client over TCP.

LEMMA TcpIsTidy ==
  ASSUME Types, InsertInv, TcpInv
  PROVE  Tidy
<1>1. TcpApp /\ TcpIo BY DEF TcpInv
<1>2. Fresh => ~started BY DEF Fresh
<1>3. \A l \in {"watch sock", "syscall", "stop post", "watch RE"} :
        At("app", l) => Fresh /\ l # "watch RE"
 <2>1. /\ Head(<<"storeW", "watch timer", "arm">>) = "storeW"
       /\ Head(<<"watch timer", "arm">>) = "watch timer" /\ Head(<<"arm">>) = "arm"
       /\ Head(InProgress) = "watch sock"
   BY DEF InProgress
 <2>2. /\ Head(<<"cas">>) = "cas" /\ Head(<<"syscall">>) = "syscall"
       /\ Head(<<"refuse", "disconnected">>) = "refuse"
       /\ Head(<<"stop", "callback", "disconnected">>) = "stop"
       /\ Head(<<"stop post", "callback", "disconnected">>) = "stop post"
       /\ Head(<<"callback", "disconnected">>) = "callback"
       /\ Head(<<"cas", "disconnected">>) = "cas"
       /\ Head(<<"disconnected">>) = "disconnected"
   OBVIOUS
 <2>3. Attempting => ~At("app", "watch RE") BY <2>2 DEF Attempting, Attempts, At
 <2>4. pc["app"] = InProgress => ~At("app", "watch RE") BY <2>1 DEF At
 <2>5. pc["app"] \in {<<>>, <<"storeW", "watch timer", "arm">>,
                     <<"watch timer", "arm">>, <<"arm">>} =>
         \A l \in {"watch sock", "syscall", "stop post", "watch RE"} : ~At("app", l)
   BY <2>1 DEF At
 <2> QED BY <1>1, <2>3, <2>4, <2>5 DEF TcpApp
<1>4. \A l \in {"watch sock", "syscall", "stop post"} : At("io", l) => ~started
  BY <1>1 DEF TcpIo, Down
<1>5. started => outcome = "connected" BY <1>1 DEF TcpIo
<1>6. At("io", "insert") /\ started => send_buf # <<>>
 <2>1. SUFFICES ASSUME At("io", "insert"), started, connected # "Connected" PROVE FALSE
   BY <1>1 DEF TcpIo, MustQueue
 <2>2. pc["io"] = <<"insert">> BY <2>1, HeadIn DEF Threads, InsertInv
 <2>3. \A l : Has(<<"insert">>, l) => l = "insert" BY WhatHas
 <2>4. \A l \in {"refuse", "fail", "stop"} : ~In("io", l) BY <2>2, <2>3 DEF In
 <2>5. ~In("io", "refuse") /\ ~In("io", "fail") /\ ~In("io", "stop") BY <2>4
 <2> QED BY <1>1, <2>1, <2>5 DEF TcpIo
<1>7. At("io", "watch RE") => send_buf = <<>> BY <1>1 DEF TcpIo
<1> QED BY <1>2, <1>3, <1>4, <1>5, <1>6, <1>7 DEF Tidy, Threads

LEMMA TcpAlways ==
  ASSUME Tcp
  PROVE  Spec => [](Basics /\ TcpInv /\ UpInv)
<1>1. Init => Basics /\ TcpInv /\ UpInv BY BasicsInit, TcpInit, UpInit
<1>2. Basics /\ TcpInv /\ UpInv /\ [Next]_vars
        => (Basics /\ TcpInv /\ UpInv)'
 <2> SUFFICES ASSUME Basics, TcpInv, UpInv, [Next]_vars
              PROVE  Basics' /\ TcpInv' /\ UpInv'
   OBVIOUS
 <2>1. Types /\ InsertInv BY DEF Basics
 <2>2. Basics' BY BasicsInductive
 <2>3. TcpInv' BY TcpInductive
 <2>4. UpInv' BY <2>1, TcpIsTidy, UpInductive
 <2> QED BY <2>2, <2>3, <2>4
<1> QED BY <1>1, <1>2, PTL DEF Spec

\* Data that waits on an open TCP connection is watched for room: whatever is
\* in the tasks and events, the write event is requested as long as send_buf_
\* is not empty, and reported when the kernel has room.
THEOREM WaitingDataIsWatchedOverTcp ==
  ASSUME Tcp
  PROVE  Spec => []PendingDataIsWatched
<1>1. Types /\ TcpInv /\ UpInv => PendingDataIsWatched
 <2> SUFFICES ASSUME Types, TcpInv, UpInv, Quiet, Serving, send_buf # <<>>,
                     sk \in {"established", "fin"}
              PROVE  cb = "stream" /\ "W" \in mask /\ (room > 0 => "sock" \in ready)
   BY DEF PendingDataIsWatched
 <2>1. started /\ outcome = "connected" /\ ToWrite
   BY DEF Serving, TcpInv, TcpIo, ToWrite, Tcp
 <2> QED BY <2>1, UpShows
<1> QED BY <1>1, TcpAlways, PTL DEF Basics

----------------------------------------
\* The client of a local socket.

LEMMA LocalSocket ==
  ASSUME Immediate, sk \in LocalStates, [Next]_vars
  PROVE  sk' \in LocalStates
<1> USE DEF client, entry, kernel, ghosts, LocalStates
<1>1. CASE sk' = sk BY <1>1
<1>2. ASSUME NEW t \in Threads, ThreadStep(t) PROVE sk' \in LocalStates
 <2>1. CASE Syscall(t) BY <2>1 DEF Syscall
 <2>2. CASE ~Syscall(t)
  <3>1. sk' = sk
    BY <1>2, <2>2 DEF ThreadStep, ConnectIgnored, ConnectBegins, SetConnected,
       SetDisconnected, WatchSock, StoreTypes, PostTimer, Start, SetStarted,
       StartTest, StartPost, Stop, StopPost, OnError, Callback
  <3> QED BY <3>1
 <2> QED BY <2>1, <2>2
<1>3. CASE RunTask
  BY <1>1, <1>3 DEF RunTask, EnableTask, DisableTask, EnableTimerTask,
     DisableTimerTask, ArmTask, SendTaskQueues, Insert, SendTaskSends
<1>4. CASE \/ epoll_wait \/ TakeTasks \/ NoHandler \/ SocketCb \/ TimerCb \/ StreamCb
           \/ Read \/ Write \/ PostUpdate \/ Error \/ Split \/ Closed
  BY <1>1, <1>4 DEF epoll_wait, TakeTasks, NoHandler, SocketCb, TimerCb, StreamCb,
     Read, Write, PostUpdate, Error, Split, Closed
<1>5. CASE AppConnect \/ AppStop \/ AppStart \/ \E m \in Messages : PostSend(m)
  BY <1>1, <1>5 DEF AppConnect, AppStop, AppStart, UserCall, PostSend
<1>6. CASE ConnectEnds \/ PeerSends \/ PeerCloses \/ Drain \/ Expire
           \/ \E e \in NetErrors : Breaks(e)
  BY <1>6 DEF ConnectEnds, PeerSends, PeerCloses, Drain, Expire, Breaks
<1>7. CASE UNCHANGED vars BY <1>1, <1>7 DEF vars
<1>8. ThreadStep("io") \/ ThreadStep("app") => sk' \in LocalStates
  BY <1>2 DEF Threads
<1> QED BY <1>3, <1>4, <1>5, <1>6, <1>7, <1>8 DEF Next, IoStep

LEMMA FreshIsLocal == Fresh /\ LocalSocketState => LocalIo /\ LocalEntry
<1> SUFFICES ASSUME Fresh, LocalSocketState PROVE LocalIo /\ LocalEntry OBVIOUS
<1>1. \A l : In("io", l) => l = "insert"
 <2>1. \A l : ~Has(<<>>, l) BY WhatHas
 <2>2. \A l : Has(<<"insert">>, l) <=> l = "insert" BY WhatHas
 <2> QED BY <2>1, <2>2 DEF Fresh, In
<1>2. \A i \in DOMAIN pc["io"] : pc["io"][i] = "insert" BY <1>1 DEF In, Has
<1>3. LocalIo
 <2>1. ~IsStop("insert") /\ "insert" \in LocalSteps BY DEF IsStop, LocalSteps
 <2>2. CalledBack(pc["io"]) BY <1>2, <2>1 DEF CalledBack
 <2> QED BY <1>1, <2>1, <2>2 DEF LocalIo
<1>4. ~In("io", "write")
 <2>1. \A l \in {"write"} : ~In("io", l) BY <1>1
 <2> QED BY <2>1
<1>5. LocalEntry BY <1>4 DEF LocalEntry, Fresh, LocalSocketState, LocalStates
<1> QED BY <1>3, <1>5

LEMMA FreshIsLocalNext == Fresh' /\ LocalSocketState' => LocalIo' /\ LocalEntry'
  BY FreshIsLocal, PTL

LEMMA StackCalled ==
  ASSUME NEW s \in Seq(Labels), s # <<>>, CalledBack(s),
         NEW steps \in Seq(Labels), CalledAfter(steps, Head(s))
  PROVE  CalledBack(steps \o Tail(s))
<1>1. PICK q : q = steps \o Tail(s) OBVIOUS
<1>2. /\ s[1] = Head(s) /\ q \in Seq(Labels) /\ Len(q) = Len(steps) + Len(s) - 1
      /\ \A i \in 1..Len(steps) : q[i] = steps[i]
      /\ \A i \in 2..Len(s) : q[Len(steps) + i - 1] = s[i]
  BY <1>1, Stacked
<1>3. PICK n, k \in Nat : n = Len(s) /\ k = Len(steps) /\ n > 0 OBVIOUS
<1>4. /\ Len(q) = k + n - 1 /\ DOMAIN q = 1..(k + n - 1)
      /\ DOMAIN s = 1..n /\ DOMAIN steps = 1..k
      /\ \A i \in 1..k : q[i] = steps[i]
      /\ \A i \in 2..n : q[k + i - 1] = s[i]
  BY <1>2, <1>3
<1>5. /\ \A i \in 1..k : IsStop(steps[i]) =>
           /\ i < k => IsBack(steps[i + 1])
           /\ i >= k => IsStop(s[1])
      /\ \A i \in 1..n : IsStop(s[i]) => i < n /\ IsBack(s[i + 1])
  BY <1>2, <1>3, <1>4 DEF CalledAfter, CalledBack
<1>6. ASSUME NEW i \in 1..(k + n - 1), IsStop(q[i])
      PROVE  i < k + n - 1 /\ IsBack(q[i + 1])
 <2>1. CASE i < k
  <3>1. i \in 1..k /\ i + 1 \in 1..k BY <1>6, <2>1
  <3>2. q[i] = steps[i] /\ q[i + 1] = steps[i + 1] BY <1>4, <3>1
  <3> QED BY <1>3, <1>5, <1>6, <2>1, <3>1, <3>2
 <2>2. CASE i = k
  <3>1. i \in 1..k /\ 1 \in 1..n BY <1>3, <1>6, <2>2
  <3>2. IsStop(s[1]) BY <1>4, <1>5, <1>6, <2>2, <3>1
  <3>3. 1 < n /\ IsBack(s[1 + 1]) BY <1>5, <3>1, <3>2
  <3>4. 2 \in 2..n /\ k + 2 - 1 = i + 1 /\ 1 + 1 = 2 BY <2>2, <3>3
  <3>5. q[i + 1] = s[2] BY <1>4, <3>4
  <3> QED BY <1>3, <2>2, <3>3, <3>4, <3>5
 <2>3. CASE i > k
  <3>1. PICK j \in 2..n : j = i - k + 1
   <4>1. i - k + 1 \in 2..n BY <1>6, <2>3
   <4> QED BY <4>1
  <3>2. k + j - 1 = i /\ j \in 1..n BY <3>1
  <3>3. q[i] = s[j] BY <1>4, <3>2
  <3>4. j < n /\ IsBack(s[j + 1]) BY <1>5, <1>6, <3>2, <3>3
  <3>5. j + 1 \in 2..n /\ k + (j + 1) - 1 = i + 1 BY <3>1, <3>4
  <3>6. q[i + 1] = s[j + 1] BY <1>4, <3>5
  <3> QED BY <1>3, <3>1, <3>4, <3>6
 <2> QED BY <1>3, <1>6, <2>1, <2>2, <2>3
<1> QED BY <1>1, <1>4, <1>6 DEF CalledBack

\* The steps that are put on the stack.
LEMMA CalledSequences ==
  /\ \A h : /\ CalledAfter(<< >>, h) /\ CalledAfter(<<"refuse">>, h)
           /\ CalledAfter(<<"cas">>, h) /\ CalledAfter(<<"stop", "callback">>, h)
           /\ \A l \in UpdateSteps : CalledAfter(<<l>>, h)
  /\ CalledAfter(<<"stop post">>, "stop")
<1>1. ASSUME NEW h PROVE CalledAfter(<< >>, h) BY DEF CalledAfter
<1>2. ASSUME NEW a, NEW h, IsStop(a) => IsStop(h) PROVE CalledAfter(<<a>>, h)
 <2>1. DOMAIN <<a>> = 1..1 /\ <<a>>[1] = a /\ Len(<<a>>) = 1 OBVIOUS
 <2>2. \A i \in 1..1 : i = 1 OBVIOUS
 <2> QED BY <1>2, <2>1, <2>2 DEF CalledAfter
<1>3. ASSUME NEW a, NEW b, NEW h, IsBack(b), ~IsStop(b) PROVE CalledAfter(<<a, b>>, h)
 <2>1. DOMAIN <<a, b>> = 1..2 /\ <<a, b>>[1] = a /\ <<a, b>>[2] = b /\ Len(<<a, b>>) = 2
   OBVIOUS
 <2>2. \A i \in 1..2 : i = 1 \/ i = 2 OBVIOUS
 <2> QED BY <1>3, <2>1, <2>2 DEF CalledAfter
<1>4. /\ ~IsStop("refuse") /\ ~IsStop("cas") /\ IsBack("callback") /\ ~IsStop("callback")
      /\ IsStop("stop")
  BY DEF IsStop, IsBack
<1>5. ASSUME NEW h
      PROVE  /\ CalledAfter(<<"refuse">>, h) /\ CalledAfter(<<"cas">>, h)
             /\ CalledAfter(<<"stop", "callback">>, h)
  BY <1>2, <1>3, <1>4
<1>7. ASSUME NEW h, NEW l \in UpdateSteps PROVE CalledAfter(<<l>>, h)
  BY <1>2, UpdateStepsAre DEF IsStop
<1>6. CalledAfter(<<"stop post">>, "stop") BY <1>2, <1>4
<1> QED BY <1>1, <1>5, <1>6, <1>7

LEMMA LocalGoes ==
  ASSUME Types, LocalIo, pc["io"] # <<>>, NEW steps \in Seq(Labels), Goto("io", steps),
         \A l : Has(steps, l) => l \in LocalSteps, CalledAfter(steps, Head(pc["io"]))
  PROVE  /\ LocalIo' /\ pc'["app"] = pc["app"]
         /\ In("io", "write")' => Has(steps, "write") \/ In("io", "write")
<1>1. pc \in [Threads -> Seq(Labels)] /\ "io" \in Threads /\ "app" \in Threads
  BY DEF Types, LoopTypes, Threads
<1>2. /\ pc'["io"] = steps \o Tail(pc["io"]) /\ pc'["app"] = pc["app"]
      /\ \A l : In("io", l)' => Has(steps, l) \/ In("io", l)
  BY <1>1, GotoIs
<1>3. CalledBack(pc'["io"]) BY <1>1, <1>2, StackCalled DEF LocalIo
<1> QED BY <1>2, <1>3 DEF LocalIo

LEMMA LocalEntryKept ==
  ASSUME LocalEntry, LocalSocketState', ~timer_on', cb' \in {cb, "none", "stream"},
         \A i \in DOMAIN Pending' :
           \/ \E j \in DOMAIN Pending : Pending'[i] = Pending[j]
           \/ LocalTask(Pending'[i]),
         In("io", "write")' => cb' = "stream"
  PROVE  LocalEntry'
<1>1. sk' \in {"idle", "established", "fin", "dead"} /\ cb' # "connect"
  BY DEF LocalSocketState, LocalStates, LocalEntry
<1>2. ASSUME NEW i \in DOMAIN Pending'
      PROVE  /\ Pending'[i].op \notin {"enable timer", "arm"}
             /\ Pending'[i].op = "enable" => IsStream(Pending'[i])
  BY DEF LocalTask, IsStream, LocalEntry
<1> QED BY <1>1, <1>2 DEF LocalEntry

LEMMA LocalAppKept ==
  ASSUME LocalApp, connected = "Connected", connected' = connected,
         outcome' \in {"connected", "closed"}, pc'["app"] = pc["app"],
         started' => started
  PROVE  LocalApp'
  BY DEF LocalApp, At

\* The calls of the io thread: on_error and on_disconnect, and a connect() that
\* is ignored.
LEMMA LocalCalls ==
  ASSUME Types, LocalInv, LocalSocketState', connected = "Connected", ThreadStep("io")
  PROVE  LocalInv'
<1> USE DEF client, entry, kernel, ghosts
<1>1. /\ pc \in [Threads -> Seq(Labels)] /\ pc["io"] # <<>> /\ "io" \in Threads
      /\ LocalApp /\ LocalIo /\ LocalEntry
      /\ outcome \in {"connected", "closed"} /\ ~timer_on
      /\ UNCHANGED <<exe, cb, timer_on>>
  BY CallSteps, CallFrame DEF Types, LoopTypes, Threads, LocalInv, LocalApp, LocalEntry
<1>2. \A l : At("io", l) => l \in LocalSteps BY <1>1, HeadIn DEF LocalIo
<1>3. \A l \in {"syscall", "connected", "disconnected", "watch sock", "watch timer", "arm",
                "unwatch timer", "start", "set", "test", "watch RE", "watch RWE", "fail"} :
        ~At("io", l)
  BY <1>2, UpdateStepsAre DEF LocalSteps
<1>4. ASSUME NEW steps \in Seq(Labels), Goto("io", steps),
             \A l : Has(steps, l) => l \in LocalSteps, ~Has(steps, "write"),
             CalledAfter(steps, Head(pc["io"])),
             UNCHANGED connected, started' => started,
             outcome' \in {"connected", "closed"},
             \A i \in DOMAIN Pending' :
               \/ \E j \in DOMAIN Pending : Pending'[i] = Pending[j]
               \/ LocalTask(Pending'[i])
      PROVE  LocalInv'
 <2>1. /\ LocalIo' /\ pc'["app"] = pc["app"]
       /\ In("io", "write")' => In("io", "write")
   BY <1>1, <1>4, LocalGoes
 <2>2. LocalApp' BY <1>1, <1>4, <2>1, LocalAppKept
 <2>3. In("io", "write")' => cb' = "stream" BY <1>1, <2>1 DEF LocalEntry
 <2>4. LocalEntry' BY <1>1, <1>4, <2>3, LocalEntryKept
 <2> QED BY <2>1, <2>2, <2>4 DEF LocalInv
<1>5. UNCHANGED queue => Pending' = Pending BY <1>1 DEF Pending
<1>6. /\ \A l : Has(<<>>, l) => l \in LocalSteps
      /\ ~Has(<<>>, "write")
  BY WhatHas
<1>7. /\ \A l : Has(<<"stop", "callback">>, l) => l \in LocalSteps
      /\ ~Has(<<"stop", "callback">>, "write")
 <2>1. \A l : Has(<<"stop", "callback">>, l) <=> l \in {"stop", "callback"}
   BY WhatHas
 <2>2. \A l \in {"stop", "callback"} : l \in LocalSteps /\ l # "write"
   BY DEF LocalSteps
 <2> QED BY <2>1, <2>2
<1>8. \A k \in {"cas", "stop post"} :
        /\ \A l : Has(<<k>>, l) => l \in LocalSteps
        /\ ~Has(<<k>>, "write")
 <2>1. \A k \in {"cas", "stop post"} : \A l : Has(<<k>>, l) <=> l = k BY WhatHas
 <2>2. \A k \in {"cas", "stop post"} : k \in LocalSteps /\ k # "write"
   BY DEF LocalSteps
 <2> QED BY <2>1, <2>2
<1>9. CASE ConnectIgnored("io") \/ StoreTypes("io")
 <2>1. Goto("io", <<>>) /\ UNCHANGED <<connected, started, outcome, queue>>
   BY <1>9 DEF ConnectIgnored, StoreTypes
 <2> QED BY <1>1, <1>4, <1>5, <1>6, <2>1, CalledSequences, StepSequences
<1>10. CASE Callback("io")
 <2>1. /\ Goto("io", <<>>) \/ Goto("io", <<"cas">>)
       /\ UNCHANGED <<connected, event_types, started, queue>>
       /\ outcome' = "closed"
   BY <1>1, <1>10 DEF Callback
 <2>2. CASE Goto("io", <<>>)
   BY <1>4, <1>5, <1>6, <2>1, <2>2, CalledSequences, StepSequences
 <2>3. CASE Goto("io", <<"cas">>)
   BY <1>4, <1>5, <1>8, <2>1, <2>3, CalledSequences, StepSequences
 <2> QED BY <2>1, <2>2, <2>3
<1>11. CASE Stop("io")
 <2>1. /\ Goto("io", <<"stop post">>) /\ started' = FALSE
       /\ UNCHANGED <<connected, event_types, outcome, queue>> /\ Head(pc["io"]) = "stop"
   BY <1>11 DEF Stop, At
 <2>2. CalledAfter(<<"stop post">>, Head(pc["io"])) BY <2>1, CalledSequences
 <2> QED BY <1>1, <1>4, <1>5, <1>8, <2>1, <2>2, StepSequences
<1>12. CASE StopPost("io")
 <2>1. /\ Goto("io", <<>>) /\ Post(<<Plain("disable"), Plain("disable timer")>>)
       /\ UNCHANGED <<connected, event_types, started, outcome>>
   BY <1>12 DEF StopPost
 <2>2. /\ Plain("disable") \in Tasks /\ Plain("disable").op = "disable"
       /\ Plain("disable timer") \in Tasks
       /\ Plain("disable timer").op = "disable timer"
   BY PostedTask
 <2>3. \A i \in DOMAIN Pending' :
         \/ Pending'[i] \in {Plain("disable"), Plain("disable timer")}
         \/ \E j \in DOMAIN Pending : Pending'[i] = Pending[j]
   BY <1>1, <2>1, <2>2, BothPosted
 <2>4. \A i \in DOMAIN Pending' :
         \/ \E j \in DOMAIN Pending : Pending'[i] = Pending[j]
         \/ LocalTask(Pending'[i])
   BY <2>2, <2>3 DEF LocalTask
 <2> QED BY <1>1, <1>4, <1>6, <2>1, <2>4, CalledSequences, StepSequences
<1>13. CASE OnError("io")
 <2>1. /\ Goto("io", <<"stop", "callback">>)
       /\ UNCHANGED <<connected, event_types, started, outcome, queue>>
  <3>1. ~At("io", "fail") BY <1>3
  <3> QED BY <1>13, <3>1 DEF OnError
 <2> QED BY <1>1, <1>4, <1>5, <1>7, <2>1, CalledSequences, StepSequences
<1>14. ~ConnectBegins("io") BY DEF ConnectBegins
<1>15. /\ ~Syscall("io") /\ ~SetConnected("io") /\ ~SetDisconnected("io")
       /\ ~WatchSock("io") /\ ~PostTimer("io") /\ ~Start("io") /\ ~SetStarted("io")
       /\ ~StartTest("io") /\ ~StartPost("io")
  BY <1>3 DEF Syscall, SetConnected, SetDisconnected, WatchSock, PostTimer, Start,
     SetStarted, StartTest, StartPost
<1> QED BY <1>9, <1>10, <1>11, <1>12, <1>13, <1>14, <1>15 DEF ThreadStep

\* The application's thread, on a connection.
LEMMA LocalControls ==
  ASSUME Types, LocalInv, LocalSocketState', connected = "Connected", ThreadStep("app")
  PROVE  LocalInv'
<1> USE DEF client, entry, kernel, ghosts
<1> DEFINE s == pc["app"]
           q == pc'["app"]
<1>1. /\ pc \in [Threads -> Seq(Labels)] /\ s # <<>> /\ "io" \in Threads /\ "app" \in Threads
      /\ LocalApp /\ LocalIo /\ LocalEntry
      /\ s \in Controls /\ outcome \in {"connected", "closed"} /\ ~timer_on
      /\ UNCHANGED <<exe, cb, timer_on>> /\ pc'["io"] = pc["io"]
  BY CallSteps, CallFrame DEF Types, LoopTypes, Threads, LocalInv, LocalApp, LocalEntry
<1>2. \A l : At("app", l) => l \in {"start", "set", "test", "watch RE", "watch RWE", "storeRE",
                                 "storeRWE", "stop", "stop post"}
 <2>1. /\ Head(<<"start">>) = "start" /\ Head(<<"test">>) = "test"
       /\ Head(<<"set">>) = "set" /\ Head(<<"storeRE">>) = "storeRE"
       /\ Head(<<"storeRWE">>) = "storeRWE"
       /\ Head(<<"watch RE">>) = "watch RE" /\ Head(<<"watch RWE">>) = "watch RWE"
       /\ Head(<<"stop">>) = "stop" /\ Head(<<"stop post">>) = "stop post"
   OBVIOUS
 <2> QED BY <1>1, <2>1 DEF Controls, At
<1>3. \A l \in {"cas", "syscall", "connected", "disconnected", "watch sock", "watch timer", "arm",
                "unwatch timer", "fail", "refuse", "callback"} : ~At("app", l)
  BY <1>2
<1>4. \A k \in Labels : <<k>> \o Tail(s) = <<k>>
 <2>1. \A k, j \in Labels : <<k>> \o Tail(<<j>>) = <<k>> OBVIOUS
 <2>2. \E j \in Labels : s = <<j>> BY <1>1, UpdateLabels DEF Controls, Labels
 <2> QED BY <2>1, <2>2
<1>5. << >> \o Tail(s) = << >>
 <2>1. \A j \in Labels : << >> \o Tail(<<j>>) = << >> OBVIOUS
 <2>2. \E j \in Labels : s = <<j>> BY <1>1, UpdateLabels DEF Controls, Labels
 <2> QED BY <2>1, <2>2
<1>6. ASSUME NEW steps, Goto("app", steps) PROVE q = steps \o Tail(s)
  BY <1>1, <1>6 DEF Goto
<1>7. LocalIo' /\ (In("io", "write")' => cb' = "stream")
  BY <1>1 DEF LocalIo, LocalEntry, In
<1>8. ASSUME UNCHANGED <<connected, outcome>>, q \in Controls,
             At("app", "stop post")' => ~started',
             \A i \in DOMAIN Pending' :
               \/ \E j \in DOMAIN Pending : Pending'[i] = Pending[j]
               \/ LocalTask(Pending'[i])
      PROVE  LocalInv'
 <2>1. LocalApp' BY <1>1, <1>8 DEF LocalApp
 <2>2. LocalEntry' BY <1>1, <1>7, <1>8, LocalEntryKept
 <2> QED BY <1>7, <2>1, <2>2 DEF LocalInv
<1>9. UNCHANGED queue => Pending' = Pending BY <1>1 DEF Pending
<1>10. \A k \in {"start", "set", "test", "watch RE", "watch RWE", "storeRE", "storeRWE", "stop",
                 "stop post"} :
         /\ k \in Labels /\ <<k>> \in Controls
         /\ q = <<k>> => (At("app", "stop post")' => k = "stop post")
 <2>1. \A k \in {"start", "set", "test", "watch RE", "watch RWE", "storeRE", "storeRWE", "stop",
                 "stop post"} :
         k \in Labels /\ <<k>> \in Controls
   BY UpdateLabels DEF Labels, Controls
 <2>2. \A k \in Labels : Head(<<k>>) = k OBVIOUS
 <2> QED BY <2>1, <2>2 DEF At
<1>11. <<>> \in Controls /\ (q = <<>> => ~At("app", "stop post")')
  BY DEF Controls, At
<1>12. CASE Start("app") \/ SetStarted("app") \/ StartTest("app") \/ StoreTypes("app")
 <2>1. UNCHANGED <<connected, outcome, queue>>
   BY <1>12 DEF Start, SetStarted, StartTest, StoreTypes
 <2>2. q \in {<<>>, <<"set">>, <<"test">>, <<"watch RE">>, <<"watch RWE">>}
  <3>1. \A k \in {"set", "test", "watch RE", "watch RWE"} : <<k>> \o Tail(s) = <<k>>
    BY <1>4, <1>10
  <3> QED
    BY <1>5, <1>6, <1>12, <3>1 DEF Start, SetStarted, StartTest, StoreTypes
 <2>3. q \in Controls /\ ~At("app", "stop post")'
  <3>1. CASE q = <<>> BY <1>11, <3>1
  <3>2. ASSUME NEW k \in {"set", "test", "watch RE", "watch RWE"}, q = <<k>>
        PROVE  q \in Controls /\ ~At("app", "stop post")'
   <4>1. k # "stop post" BY <3>2
   <4> QED BY <1>10, <3>2, <4>1
  <3> QED BY <2>2, <3>1, <3>2
 <2> QED BY <1>8, <1>9, <2>1, <2>3
<1>13. CASE StartPost("app")
 <2>1. PICK k \in {"storeRE", "storeRWE"} : Goto("app", <<k>>)
   BY <1>13 DEF StartPost
 <2>6. k # "stop post" /\ k \in Labels /\ q = <<k>> /\ UNCHANGED <<connected, outcome>>
   BY <1>4, <1>6, <1>10, <1>13, <2>1 DEF StartPost
 <2>2. PICK types \in SUBSET EventTypes :
         Post(<<Enable("stream", types)>>)
  <3>1. {"R", "E"} \in SUBSET EventTypes /\ {"R", "W", "E"} \in SUBSET EventTypes
    BY DEF EventTypes
  <3>2. \/ Post(<<Enable("stream", {"R", "E"})>>)
        \/ Post(<<Enable("stream", {"R", "W", "E"})>>)
    BY <1>13 DEF StartPost
  <3> QED BY <3>1, <3>2
 <2>3. PICK x \in Tasks : x = Enable("stream", types) /\ x.op = "enable" /\ x.cb = "stream"
   BY PostedTask
 <2>4. \A i \in DOMAIN Pending' :
         Pending'[i] = x \/ \E j \in DOMAIN Pending : Pending'[i] = Pending[j]
   BY <1>1, <2>2, <2>3, PendingPosted
 <2>5. LocalTask(x) BY <2>2, <2>3 DEF LocalTask, IsStream
 <2> QED BY <1>8, <1>10, <2>1, <2>4, <2>5, <2>6
<1>14. CASE Stop("app")
 <2>1. /\ Goto("app", <<"stop post">>) /\ started' = FALSE
       /\ UNCHANGED <<connected, outcome, event_types, queue>>
   BY <1>14 DEF Stop
 <2>2. q = <<"stop post">> BY <1>4, <1>6, <1>10, <2>1
 <2> QED BY <1>8, <1>9, <1>10, <2>1, <2>2
<1>15. CASE StopPost("app")
 <2>1. /\ q = <<>> /\ Post(<<Plain("disable"), Plain("disable timer")>>)
       /\ UNCHANGED <<connected, event_types, outcome>>
   BY <1>5, <1>6, <1>15 DEF StopPost
 <2>2. /\ Plain("disable") \in Tasks /\ Plain("disable").op = "disable"
       /\ Plain("disable timer") \in Tasks
       /\ Plain("disable timer").op = "disable timer"
   BY PostedTask
 <2>3. \A i \in DOMAIN Pending' :
         \/ Pending'[i] \in {Plain("disable"), Plain("disable timer")}
         \/ \E j \in DOMAIN Pending : Pending'[i] = Pending[j]
   BY <1>1, <2>1, <2>2, BothPosted
 <2>4. \A i \in DOMAIN Pending' :
         \/ \E j \in DOMAIN Pending : Pending'[i] = Pending[j]
         \/ LocalTask(Pending'[i])
   BY <2>2, <2>3 DEF LocalTask
 <2> QED BY <1>8, <1>11, <2>1, <2>4
<1>16. /\ ~ConnectIgnored("app") /\ ~ConnectBegins("app") /\ ~Syscall("app")
       /\ ~SetConnected("app") /\ ~SetDisconnected("app") /\ ~WatchSock("app")
       /\ ~PostTimer("app") /\ ~OnError("app") /\ ~Callback("app")
  BY <1>3 DEF ConnectIgnored, ConnectBegins, Syscall, SetConnected, SetDisconnected,
     WatchSock, PostTimer, OnError, Callback
<1> QED BY <1>12, <1>13, <1>14, <1>15, <1>16 DEF ThreadStep

\* The tasks.
LEMMA LocalTasks ==
  ASSUME Types, InsertInv, LocalInv, LocalSocketState', connected = "Connected", RunTask
  PROVE  LocalInv'
<1> USE DEF client, entry, kernel, ghosts
<1>1. /\ pc \in [Threads -> Seq(Labels)] /\ "io" \in Threads /\ "app" \in Threads
      /\ exe \in Seq(Tasks) /\ queue \in Seq(Tasks)
      /\ LocalApp /\ LocalIo /\ LocalEntry
      /\ outcome \in {"connected", "closed"} /\ ~timer_on
  BY DEF Types, LoopTypes, ClientTypes, Threads, LocalInv, LocalApp, LocalEntry
<1>2. UNCHANGED <<connected, started, outcome>>
  BY DEF RunTask, EnableTask, DisableTask, EnableTimerTask, DisableTimerTask, ArmTask,
     SendTaskQueues, Insert, SendTaskSends
\* The stack is empty before, and no phase is on it after the task.
<1>3. ASSUME pc'["app"] = pc["app"], NEW k \in {"insert"} \cup UpdateSteps, pc'["io"] \in {<<>>, <<k>>}
      PROVE  LocalApp' /\ LocalIo' /\ ~In("io", "write")'
 <2>1. LocalApp' BY <1>1, <1>2, <1>3, LocalAppKept
 <2>2. \A l : In("io", l)' => l = k
  <3>1. \A l : ~Has(<<>>, l) BY WhatHas
  <3>2. \A l : Has(<<k>>, l) <=> l = k BY WhatHas
  <3> QED BY <1>3, <3>1, <3>2 DEF In
 <2>3. \A i \in DOMAIN pc'["io"] : pc'["io"][i] = k BY <2>2 DEF In, Has
 <2>4. ~IsStop(k) /\ k \in LocalSteps /\ k # "write"
   BY UpdateStepsAre DEF IsStop, LocalSteps
 <2>5. CalledBack(pc'["io"]) BY <2>3, <2>4 DEF CalledBack
 <2>6. \A l \in {"write"} : ~In("io", l)' BY <2>2, <2>4
 <2> QED BY <2>1, <2>2, <2>4, <2>5, <2>6 DEF LocalIo
<1>4. ASSUME pc'["app"] = pc["app"], NEW k \in {"insert"} \cup UpdateSteps,
             pc'["io"] \in {<<>>, <<k>>}, ~timer_on', cb' \in {cb, "none", "stream"},
             \A i \in DOMAIN Pending' :
               \/ \E j \in DOMAIN Pending : Pending'[i] = Pending[j]
               \/ LocalTask(Pending'[i])
      PROVE  LocalInv'
 <2>1. LocalApp' /\ LocalIo' /\ ~In("io", "write")' BY <1>3, <1>4
 <2>2. LocalEntry' BY <1>1, <1>4, <2>1, LocalEntryKept
 <2> QED BY <2>1, <2>2 DEF LocalInv
<1>5. ASSUME exe # <<>>
      PROVE  \E j \in DOMAIN Pending : Pending[j] = Head(exe)
 <2>1. /\ exe \o queue \in Seq(Tasks) /\ exe \o queue # <<>>
       /\ (exe \o queue)[1] = Head(exe)
   BY <1>1, <1>5, TailOfBoth
 <2>2. 1 \in DOMAIN (exe \o queue) BY <2>1
 <2> QED BY <2>1, <2>2 DEF Pending
<1>6. exe # <<>> => /\ Head(exe).op \notin {"enable timer", "arm"}
                    /\ Head(exe).op = "enable" => Head(exe).cb = "stream"
  BY <1>1, <1>5 DEF LocalEntry, IsStream
<1>7. ASSUME exe # <<>>, exe' = Tail(exe), queue' = queue
      PROVE  \A i \in DOMAIN Pending' : \E j \in DOMAIN Pending : Pending'[i] = Pending[j]
  BY <1>7, PendingRun
<1>8. CASE EnableTask
 <2>1. /\ exe # <<>> /\ exe' = Tail(exe) /\ queue' = queue /\ pc["io"] = <<>>
       /\ UNCHANGED <<pc, timer_on>>
       /\ cb' = cb \/ (Head(exe).op = "enable" /\ cb' = Head(exe).cb)
   BY <1>8 DEF EnableTask, Running
 <2>2. cb' \in {cb, "stream"} BY <1>6, <2>1
 <2> QED BY <1>1, <1>4, <1>7, <2>1, <2>2
<1>9. CASE DisableTask \/ DisableTimerTask
 <2>1. /\ exe # <<>> /\ exe' = Tail(exe) /\ queue' = queue /\ pc["io"] = <<>>
       /\ UNCHANGED pc /\ cb' \in {cb, "none"}
       /\ timer_on' = timer_on \/ timer_on' = FALSE
   BY <1>9 DEF DisableTask, DisableTimerTask, Running
 <2>2. /\ pc'["app"] = pc["app"] /\ pc'["io"] \in {<<>>, <<"insert">>} /\ ~timer_on'
       /\ cb' \in {cb, "none", "stream"}
   BY <1>1, <2>1
 <2>3. "insert" \in {"insert"} \cup UpdateSteps OBVIOUS
 <2> QED BY <1>4, <1>7, <2>1, <2>2, <2>3
<1>10. ~EnableTimerTask /\ ~ArmTask
  BY <1>6 DEF EnableTimerTask, ArmTask, Running
<1>11. CASE SendTaskQueues
 <2>1. /\ pc'["io"] = <<"insert">> /\ pc'["app"] = pc["app"]
       /\ UNCHANGED <<exe, queue, cb, timer_on>>
   BY <1>1, <1>11 DEF SendTaskQueues
 <2>2. Pending' = Pending BY <2>1 DEF Pending
 <2> QED BY <1>1, <1>4, <2>1, <2>2
<1>12. CASE Insert
 <2>1. exe # <<>> /\ pc["io"] = <<"insert">>
   BY <1>1, <1>12, HeadIn DEF Insert, InsertInv
 <2>2. /\ exe' = Tail(exe) /\ pc' = [pc EXCEPT !["io"] = <<>> \o Tail(pc["io"])]
       /\ UNCHANGED <<queue, cb, timer_on>>
   BY <1>12 DEF Insert, Goto
 <2>3. <<>> \o Tail(<<"insert">>) = <<>> OBVIOUS
 <2>4. pc'["io"] = <<>> /\ pc'["app"] = pc["app"] BY <1>1, <2>1, <2>2, <2>3
 <2> QED BY <1>1, <1>4, <1>7, <2>1, <2>2, <2>4
<1>13. CASE SendTaskSends
 <2>1. /\ exe # <<>> /\ exe' = Tail(exe) /\ UNCHANGED <<queue, cb, timer_on>>
   BY <1>13 DEF SendTaskSends, Running
 <2>2. pc' = [pc EXCEPT !["io"] = <<>>] \/ \E l \in UpdateSteps : pc' = [pc EXCEPT !["io"] = <<l>>]
   BY <1>13, SendGoes DEF UpdateSteps
 <2>3. PICK l \in UpdateSteps : pc'["io"] \in {<<>>, <<l>>} /\ pc'["app"] = pc["app"]
  <3>1. UpdateSteps # {} BY UpdateStepsAre
  <3> QED BY <1>1, <2>2, <3>1
 <2> QED BY <1>1, <1>4, <1>7, <2>1, <2>3
<1> QED BY <1>8, <1>9, <1>10, <1>11, <1>12, <1>13 DEF RunTask

\* The events and the phases of the stream callback.
LEMMA LocalEvents ==
  ASSUME Types, LocalInv, LocalSocketState', connected = "Connected",
         \/ epoll_wait \/ TakeTasks \/ NoHandler \/ SocketCb \/ TimerCb \/ StreamCb
  PROVE  LocalInv'
<1> USE DEF client, entry, kernel, ghosts
<1>1. /\ pc \in [Threads -> Seq(Labels)] /\ "io" \in Threads /\ "app" \in Threads
      /\ LocalApp /\ LocalIo /\ LocalEntry
      /\ outcome \in {"connected", "closed"} /\ ~timer_on /\ cb # "connect"
      /\ UNCHANGED <<connected, started, outcome, event_types, cb, timer_on>>
      /\ pc["io"] = <<>>
  BY DEF Types, LoopTypes, Threads, LocalInv, LocalApp, LocalEntry,
     epoll_wait, TakeTasks, NoHandler, SocketCb, TimerCb, StreamCb, Event
<1>2. Pending' = Pending
 <2>1. CASE TakeTasks BY <2>1, PendingTaken
 <2>2. CASE ~TakeTasks
  <3>1. UNCHANGED <<exe, queue>>
    BY <2>2 DEF epoll_wait, NoHandler, SocketCb, TimerCb, StreamCb
  <3> QED BY <3>1 DEF Pending
 <2> QED BY <2>1, <2>2
<1>3. ASSUME LocalIo', pc'["app"] = pc["app"], In("io", "write")' => cb' = "stream"
      PROVE  LocalInv'
 <2>1. LocalApp' BY <1>1, <1>3, LocalAppKept
 <2>2. LocalEntry' BY <1>1, <1>2, <1>3, LocalEntryKept
 <2> QED BY <1>3, <2>1, <2>2 DEF LocalInv
<1>4. CASE epoll_wait \/ TakeTasks \/ NoHandler
 <2>1. pc' = pc BY <1>4 DEF epoll_wait, TakeTasks, NoHandler
 <2>2. LocalIo' /\ (In("io", "write")' => cb' = "stream")
   BY <1>1, <2>1 DEF LocalIo, LocalEntry, In
 <2> QED BY <1>3, <2>1, <2>2
<1>5. CASE StreamCb
 <2>1. PICK p : p = Phases(Head(evs).types) /\ pc' = [pc EXCEPT !["io"] = p]
   BY <1>5 DEF StreamCb, Phases
 <2>2. /\ p \in Seq(Labels)
       /\ \A l : Has(p, l) => l \in {"read", "write", "error", "split"}
   BY <2>1, PhasesAre
 <2>3. pc'["io"] = p /\ pc'["app"] = pc["app"] BY <1>1, <2>1
 <2>4. \A l \in {"read", "write", "error", "split"} : l \in LocalSteps /\ ~IsStop(l)
   BY DEF LocalSteps, IsStop
 <2>5. CalledBack(p)
  <3>1. \A i \in DOMAIN p : ~IsStop(p[i]) BY <2>2, <2>4 DEF Has
  <3> QED BY <3>1 DEF CalledBack
 <2>6. LocalIo' BY <2>2, <2>3, <2>4, <2>5 DEF LocalIo, In
 <2>7. cb' = "stream" BY <1>1, <1>5 DEF StreamCb
 <2> QED BY <1>3, <2>3, <2>6, <2>7
<1>6. ~SocketCb /\ ~TimerCb BY <1>1 DEF SocketCb, TimerCb
<1> QED BY <1>4, <1>5, <1>6

LEMMA LocalPhases ==
  ASSUME Types, LocalInv, LocalSocketState', connected = "Connected",
         Read \/ Write \/ PostUpdate \/ Error \/ Split \/ Closed
  PROVE  LocalInv'
<1> USE DEF client, entry, kernel, ghosts
<1>1. /\ pc \in [Threads -> Seq(Labels)] /\ "io" \in Threads /\ "app" \in Threads
      /\ exe \in Seq(Tasks) /\ queue \in Seq(Tasks)
      /\ LocalApp /\ LocalIo /\ LocalEntry
      /\ outcome \in {"connected", "closed"} /\ ~timer_on
      /\ UNCHANGED <<connected, started, outcome, exe, cb, timer_on>>
      /\ pc["io"] # <<>>
  BY DEF Types, LoopTypes, ClientTypes, Threads, LocalInv, LocalApp, LocalEntry,
     Read, Write, PostUpdate, Error, Split, Closed, At
<1>2. \/ Goto("io", <<>>) \/ Goto("io", <<"refuse">>) \/ Goto("io", <<"stop", "callback">>)
      \/ Disconnected \/ \E l \in UpdateSteps : Goto("io", <<l>>)
 <2>1. CASE Write BY <2>1, WriteGoes DEF UpdateSteps
 <2>2. CASE PostUpdate BY <2>2, PostIs DEF UpdateSteps
 <2> QED BY <2>1, <2>2 DEF Read, Error, Split, Closed
<1>3. LocalIo' /\ pc'["app"] = pc["app"] /\ (In("io", "write")' => In("io", "write"))
 <2>1. CASE Goto("io", <<>>)
  <3>1. \A l : ~Has(<<>>, l) BY WhatHas
  <3> QED BY <1>1, <2>1, <3>1, LocalGoes, CalledSequences, StepSequences
 <2>2. CASE Goto("io", <<"refuse">>)
  <3>1. \A l : Has(<<"refuse">>, l) <=> l = "refuse" BY WhatHas
  <3>2. "refuse" \in LocalSteps /\ "write" # "refuse" BY DEF LocalSteps
  <3>3. /\ \A l : Has(<<"refuse">>, l) => l \in LocalSteps
        /\ ~Has(<<"refuse">>, "write")
    BY <3>1, <3>2
  <3> QED BY <1>1, <2>2, <3>3, LocalGoes, CalledSequences, StepSequences
 <2>3. CASE Goto("io", <<"stop", "callback">>)
  <3>1. \A l : Has(<<"stop", "callback">>, l) <=> l \in {"stop", "callback"}
    BY WhatHas
  <3>2. \A l \in {"stop", "callback"} : l \in LocalSteps /\ l # "write"
    BY DEF LocalSteps
  <3>3. /\ \A l : Has(<<"stop", "callback">>, l) => l \in LocalSteps
        /\ ~Has(<<"stop", "callback">>, "write")
    BY <3>1, <3>2
  <3> QED BY <1>1, <2>3, <3>3, LocalGoes, CalledSequences, StepSequences
 <2>4. CASE Disconnected
  <3>1. /\ pc'["app"] = pc["app"]
        /\ \/ pc'["io"] = Tail(pc["io"])
           \/ pc'["io"] = Tail(pc["io"]) \o <<"closed">>
        /\ \A l : In("io", l)' => l = "closed" \/ In("io", l)
    BY <1>1, <2>4, DisconnectedIs
  <3>2. PICK r \in Seq(Labels) : r = Tail(pc["io"]) BY <1>1, HeadTailProperties
  <3>3. CalledBack(r)
   <4>1. CalledBack(<<>> \o Tail(pc["io"]))
     BY <1>1, CalledSequences, StepSequences, StackCalled DEF LocalIo
   <4>2. <<>> \o Tail(pc["io"]) = Tail(pc["io"]) BY <1>1, StackPopped
   <4> QED BY <3>2, <4>1, <4>2
  <3>4. CalledBack(r \o <<"closed">>)
   <4>1. PICK q : q = r \o <<"closed">> OBVIOUS
   <4>2. PICK n \in Nat : n = Len(r) /\ DOMAIN r = 1..n BY <3>2
   <4>3. DOMAIN q = 1..(n + 1) /\ Len(q) = n + 1 /\ q[n + 1] = "closed"
         /\ \A i \in 1..n : q[i] = r[i]
     BY <3>2, <4>1, <4>2
   <4>4. ~IsStop(q[n + 1]) BY <4>3 DEF IsStop
   <4>5. ASSUME NEW i \in 1..(n + 1), IsStop(q[i]) PROVE i < n + 1 /\ IsBack(q[i + 1])
    <5>1. i \in 1..n BY <4>2, <4>4, <4>5
    <5>2. i < n /\ IsBack(r[i + 1])
      BY <3>3, <4>2, <4>3, <4>5, <5>1 DEF CalledBack
    <5>3. i + 1 \in 1..n BY <5>1, <5>2
    <5> QED BY <4>3, <5>2, <5>3
   <4> QED BY <4>1, <4>3, <4>5 DEF CalledBack
  <3>5. "closed" \in LocalSteps BY DEF LocalSteps
  <3>6. \A l : In("io", l)' => l \in LocalSteps BY <1>1, <3>1, <3>5 DEF LocalIo
  <3> QED BY <3>1, <3>2, <3>3, <3>4, <3>6 DEF LocalIo
 <2>5. ASSUME NEW l \in UpdateSteps, Goto("io", <<l>>)
       PROVE  LocalIo' /\ pc'["app"] = pc["app"] /\ (In("io", "write")' => In("io", "write"))
  <3>1. l \in LocalSteps /\ l # "write" BY UpdateStepsAre DEF LocalSteps
  <3>2. /\ \A k : Has(<<l>>, k) => k \in LocalSteps
        /\ ~Has(<<l>>, "write")
    BY <3>1, WhatHas
  <3> QED BY <1>1, <2>5, <3>2, LocalGoes, CalledSequences, StepSequences
 <2> QED BY <1>2, <2>1, <2>2, <2>3, <2>4, <2>5
<1>4. LocalApp' BY <1>1, <1>3, LocalAppKept
<1>5. In("io", "write")' => cb' = "stream" BY <1>1, <1>3 DEF LocalEntry
<1>6. \A i \in DOMAIN Pending' :
        \/ \E j \in DOMAIN Pending : Pending'[i] = Pending[j]
        \/ LocalTask(Pending'[i])
 <2>1. CASE PostUpdate
  <3>1. PICK l \in DOMAIN Updates : Post(<<Update(Updates[l])>>) BY <2>1, PostIs
  <3>2. Updates[l] \in SUBSET EventTypes BY UpdateLabels
  <3>3. PICK x \in Tasks : x = Update(Updates[l]) /\ x.op = "update"
    BY <3>2, PostedTask
  <3>4. LocalTask(x) BY <3>3 DEF LocalTask
  <3> QED BY <1>1, <3>1, <3>3, <3>4, PendingPosted
 <2>2. CASE ~PostUpdate
  <3>1. UNCHANGED queue BY <2>2 DEF Read, Write, Error, Split, Closed
  <3>2. Pending' = Pending BY <1>1, <3>1 DEF Pending
  <3> QED BY <3>2
 <2> QED BY <2>1, <2>2
<1>7. LocalEntry' BY <1>1, <1>5, <1>6, LocalEntryKept
<1> QED BY <1>3, <1>4, <1>7 DEF LocalInv

\* The send tasks of the application, and the network.
LEMMA LocalNet ==
  ASSUME Types, LocalInv, LocalSocketState', connected = "Connected",
         \/ \E m \in Messages : PostSend(m)
         \/ ConnectEnds \/ PeerSends \/ PeerCloses \/ Drain \/ Expire
         \/ \E e \in NetErrors : Breaks(e)
         \/ UNCHANGED vars
  PROVE  LocalInv'
<1> USE DEF client, entry, kernel, ghosts
<1>1. /\ LocalApp /\ LocalIo /\ LocalEntry
      /\ outcome \in {"connected", "closed"} /\ ~timer_on
  BY DEF LocalInv, LocalApp, LocalEntry
<1>2. UNCHANGED <<pc, connected, started, outcome, event_types, exe, cb, timer_on>>
  BY DEF PostSend, ConnectEnds, PeerSends, PeerCloses, Drain, Expire, Breaks, Quietly, vars
<1>3. LocalApp' BY <1>1, <1>2, LocalAppKept
<1>4. LocalIo' /\ (In("io", "write")' => cb' = "stream")
  BY <1>1, <1>2 DEF LocalIo, LocalEntry, In
<1>5. \A i \in DOMAIN Pending' :
        \/ \E j \in DOMAIN Pending : Pending'[i] = Pending[j]
        \/ LocalTask(Pending'[i])
 <2>1. CASE UNCHANGED queue
  <3>1. Pending' = Pending BY <1>2, <2>1 DEF Pending
  <3> QED BY <3>1
 <2>2. ASSUME NEW m \in Messages, PostSend(m)
       PROVE  \A i \in DOMAIN Pending' :
                \/ \E j \in DOMAIN Pending : Pending'[i] = Pending[j]
                \/ LocalTask(Pending'[i])
  <3>1. PICK x \in Tasks : x = Send(m) /\ x.op = "send" /\ Post(<<x>>)
    BY <2>2, PostedTask DEF PostSend
  <3>2. LocalTask(x) BY <3>1 DEF LocalTask
  <3> QED BY <1>2, <3>1, <3>2, PendingPosted
 <2>3. UNCHANGED queue \/ \E m \in Messages : PostSend(m)
   BY DEF ConnectEnds, PeerSends, PeerCloses, Drain, Expire, Breaks, Quietly, vars
 <2> QED BY <2>1, <2>2, <2>3
<1>6. LocalEntry' BY <1>1, <1>2, <1>4, <1>5, LocalEntryKept
<1> QED BY <1>3, <1>4, <1>6 DEF LocalInv

\* The application's thread, while it connects.
LEMMA LocalConnects ==
  ASSUME Immediate, Types, LocalInv, LocalSocketState', connected # "Connected",
         ThreadStep("app")
  PROVE  LocalInv'
<1> USE DEF client, entry, kernel, ghosts
<1>1. /\ pc \in [Threads -> Seq(Labels)] /\ pc["app"] # <<>> /\ "io" \in Threads
      /\ "app" \in Threads /\ LocalApp /\ LocalIo /\ LocalEntry /\ Fresh
      /\ UNCHANGED <<exe, cb, mask, timer_on>> /\ pc'["io"] = pc["io"]
  BY CallSteps, CallFrame DEF Types, LoopTypes, Threads, LocalInv, LocalApp
<1>2. ~started BY <1>1 DEF Fresh
<1>3. CASE Attempting /\ sk = "idle"
 <2>1. /\ Fresh'
       /\ \/ sk' = "idle" /\ (pc'["app"] = <<>> \/ Attempting')
          \/ pc'["app"] = <<"connected", "start">>
   BY <1>1, <1>3, AttemptGoes
 <2>2. connected' # "Connected" /\ ~started' BY <2>1 DEF Fresh
 <2>3. LocalApp' BY <2>1, <2>2 DEF LocalApp
 <2>4. LocalIo' /\ LocalEntry' BY <2>1, FreshIsLocalNext
 <2> QED BY <2>3, <2>4 DEF LocalInv
<1>4. CASE pc["app"] = <<"connected", "start">>
 <2>1. /\ Head(<<"connected", "start">>) = "connected"
       /\ << >> \o Tail(<<"connected", "start">>) = <<"start">>
       /\ Head(<<"start">>) = "start"
   OBVIOUS
 <2>2. Head(pc["app"]) = "connected" BY <1>4, <2>1
 <2>3. SetConnected("app")
   BY <1>1, <2>2, UpdateLabels DEF ThreadStep, At, ConnectIgnored, ConnectBegins, Syscall, SetDisconnected,
      WatchSock, StoreTypes, PostTimer, Start, SetStarted, StartTest, StartPost, Stop, StopPost,
      OnError, Callback
 <2>4. /\ pc'["app"] = <<"start">> /\ connected' = "Connected" /\ outcome' = "connected"
       /\ UNCHANGED <<queue, started, event_types>>
   BY <1>1, <1>4, <2>1, <2>3 DEF SetConnected, Goto
 <2>5. LocalApp'
  <3>1. ~At("app", "stop post")' BY <2>1, <2>4 DEF At
  <3> QED BY <2>4, <3>1 DEF LocalApp, Controls
 <2>6. LocalIo' /\ (In("io", "write")' => cb' = "stream")
   BY <1>1 DEF LocalIo, LocalEntry, In
 <2>7. Pending' = Pending BY <1>1, <2>4 DEF Pending
 <2>8. LocalEntry'
   BY <1>1, <2>4, <2>6, <2>7 DEF LocalEntry, LocalSocketState, LocalStates
 <2> QED BY <2>5, <2>6, <2>8 DEF LocalInv
<1> QED BY <1>1, <1>3, <1>4 DEF LocalApp

\* The rest, while the client is not connected: only send tasks and the tasks
\* of stop() are posted or run.
LEMMA LocalWaits ==
  ASSUME Types, InsertInv, LocalInv, LocalSocketState', connected # "Connected",
         \/ IoStep \/ \E m \in Messages : PostSend(m)
         \/ ConnectEnds \/ PeerSends \/ PeerCloses \/ Drain \/ Expire
         \/ \E e \in NetErrors : Breaks(e)
  PROVE  LocalInv'
<1>1. LocalApp /\ Fresh BY DEF LocalInv, LocalApp
<1>2. /\ Fresh' /\ UNCHANGED <<connected, outcome>> /\ pc'["app"] = pc["app"]
      /\ sk = "idle" => sk' = "idle"
  BY <1>1, FreshKept
<1>3. ~started' /\ connected' # "Connected" BY <1>2 DEF Fresh
<1>4. Attempting => Attempting' BY <1>2 DEF Attempting
<1>5. LocalApp' BY <1>1, <1>2, <1>3, <1>4 DEF LocalApp
<1>6. LocalIo' /\ LocalEntry' BY <1>2, FreshIsLocalNext
<1> QED BY <1>5, <1>6 DEF LocalInv

\* connect(), stop() and start(), as the application calls them.
LEMMA LocalUser ==
  ASSUME Local, Types, LocalInv, LocalSocketState', AppConnect \/ AppStop \/ AppStart
  PROVE  LocalInv'
<1> USE DEF client, entry, kernel, ghosts
<1>1. /\ pc \in [Threads -> Seq(Labels)] /\ "io" \in Threads /\ "app" \in Threads
      /\ LocalApp /\ LocalIo /\ LocalEntry
  BY DEF Types, LoopTypes, Threads, LocalInv
<1>2. /\ pc["app"] = <<>> /\ pc'["io"] = pc["io"]
      /\ UNCHANGED <<connected, started, outcome, event_types, exe, queue, sk, cb, mask,
                     timer_on>>
  BY <1>1 DEF AppConnect, AppStop, AppStart, UserCall
<1>3. Pending' = Pending BY <1>2 DEF Pending
<1>4. Fresh => Fresh' BY <1>2, <1>3 DEF Fresh
<1>5. LocalIo' /\ LocalEntry' BY <1>1, <1>2, <1>3 DEF LocalIo, LocalEntry, In
<1>6. CASE AppConnect
 <2>1. pc'["app"] = <<"cas">> /\ connected # "Connected"
   BY <1>1, <1>6 DEF AppConnect, UserCall, LocalApp
 <2>2. <<"cas">> # <<"connected", "start">> /\ Head(<<"cas">>) = "cas" /\ pc["app"] = <<>>
   BY <1>2
 <2>3. pc["app"] # <<"connected", "start">> BY <1>2
 <2>4. Fresh /\ sk = "idle"
  <3>1. ~Attempting BY <1>2 DEF Attempting, Attempts
  <3> QED BY <1>1, <2>1, <2>3 DEF LocalApp
 <2>5. ~At("app", "stop post")' BY <2>1, <2>2 DEF At
 <2>6. LocalApp' BY <1>2, <1>4, <2>1, <2>4, <2>5 DEF LocalApp, Attempting
 <2> QED BY <1>5, <2>6 DEF LocalInv
<1>7. CASE AppStop
 <2>1. pc'["app"] = <<"stop">> /\ started BY <1>1, <1>7 DEF AppStop, UserCall
 <2>2. connected = "Connected" BY <1>1, <2>1 DEF LocalApp, Fresh
 <2>3. ~At("app", "stop post")'
  <3>1. Head(<<"stop">>) = "stop" OBVIOUS
  <3> QED BY <2>1, <3>1 DEF At
 <2>4. LocalApp' BY <1>1, <1>2, <2>1, <2>2, <2>3 DEF LocalApp, Controls
 <2> QED BY <1>5, <2>4 DEF LocalInv
<1>8. CASE AppStart
 <2>1. pc'["app"] = <<"start">> /\ connected = "Connected"
   BY <1>1, <1>8 DEF AppStart, UserCall, Local
 <2>2. ~At("app", "stop post")'
  <3>1. Head(<<"start">>) = "start" OBVIOUS
  <3> QED BY <2>1, <3>1 DEF At
 <2>3. LocalApp' BY <1>1, <1>2, <2>1, <2>2 DEF LocalApp, Controls
 <2> QED BY <1>5, <2>3 DEF LocalInv
<1> QED BY <1>6, <1>7, <1>8

LEMMA LocalInductive ==
  ASSUME Local, Types, InsertInv, LocalInv, [Next]_vars
  PROVE  LocalInv'
<1>1. LocalSocketState'
 <2>1. sk \in LocalStates /\ Immediate
   BY DEF LocalInv, LocalEntry, LocalStates, Local
 <2>2. sk' \in LocalStates BY <2>1, LocalSocket
 <2> QED BY <2>2 DEF LocalSocketState
<1>2. Immediate BY DEF Local
<1>3. CASE ThreadStep("app") BY <1>1, <1>2, <1>3, LocalControls, LocalConnects
<1>4. CASE AppConnect \/ AppStop \/ AppStart BY <1>1, <1>4, LocalUser
<1>5. CASE IoStep /\ connected = "Connected"
 <2>1. CASE ThreadStep("io") BY <1>1, <1>5, <2>1, LocalCalls
 <2>2. CASE RunTask BY <1>1, <1>5, <2>2, LocalTasks
 <2>3. CASE Read \/ Write \/ PostUpdate \/ Error \/ Split \/ Closed
   BY <1>1, <1>5, <2>3, LocalPhases
 <2>4. CASE epoll_wait \/ TakeTasks \/ NoHandler \/ SocketCb \/ TimerCb \/ StreamCb
   BY <1>1, <1>5, <2>4, LocalEvents
 <2> QED BY <1>5, <2>1, <2>2, <2>3, <2>4 DEF IoStep
<1>6. CASE \/ \E m \in Messages : PostSend(m)
           \/ ConnectEnds \/ PeerSends \/ PeerCloses \/ Drain \/ Expire
           \/ \E e \in NetErrors : Breaks(e)
  BY <1>1, <1>6, LocalNet, LocalWaits
<1>7. CASE IoStep /\ connected # "Connected" BY <1>1, <1>7, LocalWaits
<1>8. CASE UNCHANGED vars
 <2>1. CASE connected = "Connected" BY <1>1, <1>8, <2>1, LocalNet
 <2>2. CASE connected # "Connected"
  <3>1. LocalApp /\ Fresh BY <2>2 DEF LocalInv, LocalApp
  <3>2. UNCHANGED <<pc, connected, started, outcome, exe, queue, sk, cb, mask, timer_on>>
    BY <1>8 DEF vars, client, entry, kernel, ghosts
  <3>3. Fresh' BY <3>1, <3>2 DEF Fresh, Pending
  <3>4. LocalApp' BY <3>1, <3>2, <3>3 DEF LocalApp, Attempting, At
  <3> QED BY <1>1, <3>3, <3>4, FreshIsLocalNext DEF LocalInv
 <2> QED BY <2>1, <2>2
<1> QED BY <1>3, <1>4, <1>5, <1>6, <1>7, <1>8 DEF Next

LEMMA LocalInit == Init => LocalInv
<1> SUFFICES ASSUME Init PROVE LocalInv OBVIOUS
<1>1. /\ pc["app"] = <<>> /\ pc["io"] = <<>> /\ sk = "idle" /\ connected = "Disconnected"
  BY DEF Init, Threads
<1>2. Pending = <<>> BY DEF Init, Pending
<1>3. Fresh BY <1>1, <1>2 DEF Init, Fresh
<1>4. LocalIo /\ LocalEntry
  BY <1>1, <1>3, FreshIsLocal DEF LocalSocketState, LocalStates
<1>5. LocalApp BY <1>1, <1>3 DEF LocalApp, At
<1> QED BY <1>4, <1>5 DEF LocalInv

LEMMA LocalIsTidy ==
  ASSUME Local, Types, LocalInv
  PROVE  Tidy
<1>1. LocalApp /\ LocalIo /\ LocalEntry /\ Immediate BY DEF LocalInv, Local
<1>2. \A l : At("io", l) => l \in LocalSteps
  BY <1>1, HeadIn DEF Threads, LocalIo
<1>3. \A l \in {"watch sock", "syscall", "connected"} : ~At("io", l)
  BY <1>2, UpdateStepsAre DEF LocalSteps
<1>4. \A l \in {"watch sock", "syscall", "stop post", "connected"} : At("app", l) => ~started
 <2>1. CASE connected = "Connected"
  <3>1. /\ Head(<<"start">>) = "start" /\ Head(<<"test">>) = "test"
        /\ Head(<<"watch RE">>) = "watch RE" /\ Head(<<"watch RWE">>) = "watch RWE"
        /\ Head(<<"set">>) = "set" /\ Head(<<"storeRE">>) = "storeRE"
        /\ Head(<<"storeRWE">>) = "storeRWE"
        /\ Head(<<"stop">>) = "stop" /\ Head(<<"stop post">>) = "stop post"
    OBVIOUS
  <3>2. pc["app"] \in Controls BY <1>1, <2>1 DEF LocalApp
  <3>3. \A l \in {"watch sock", "syscall", "connected"} : ~At("app", l)
    BY <3>1, <3>2 DEF At, Controls
  <3> QED BY <1>1, <3>3 DEF LocalApp
 <2>2. CASE connected # "Connected" BY <1>1, <2>2 DEF LocalApp, Fresh
 <2> QED BY <2>1, <2>2
<1>5. At("io", "stop post") => Len(pc["io"]) > 1 /\ pc["io"][2] = "callback"
 <2>1. SUFFICES ASSUME At("io", "stop post")
                PROVE  Len(pc["io"]) > 1 /\ pc["io"][2] = "callback"
   OBVIOUS
 <2>2. PICK s \in Seq(Labels) : s = pc["io"] /\ s # <<>> /\ Head(s) = "stop post"
   BY <2>1 DEF At, Types, LoopTypes, Threads
 <2>3. PICK n \in Nat : n = Len(s) OBVIOUS
 <2>4. DOMAIN s = 1..n /\ 1 \in 1..n /\ s[1] = "stop post"
  <3>1. \A q \in Seq(Labels) : q # <<>> => Len(q) > 0 /\ q[1] = Head(q) OBVIOUS
  <3>2. Len(s) > 0 /\ s[1] = Head(s) BY <2>2, <3>1
  <3>3. DOMAIN s = 1..n /\ 1 \in 1..n BY <2>3, <3>2
  <3> QED BY <2>2, <3>2, <3>3
 <2>5. IsStop(s[1]) BY <2>4 DEF IsStop
 <2>6. 1 < n /\ IsBack(s[1 + 1])
  <3>1. CalledBack(s) BY <1>1, <2>2 DEF LocalIo
  <3> QED BY <2>3, <2>5, <2>4, <3>1 DEF CalledBack
 <2>7. 1 + 1 = 2 OBVIOUS
 <2>8. s[2] = "callback" BY <2>6, <2>7 DEF IsBack
 <2> QED BY <2>2, <2>3, <2>6, <2>8
<1> QED BY <1>1, <1>3, <1>4, <1>5 DEF Tidy, Threads

LEMMA LocalAlways ==
  ASSUME Local
  PROVE  Spec => [](Basics /\ LocalInv /\ UpInv)
<1>1. Init => Basics /\ LocalInv /\ UpInv BY BasicsInit, LocalInit, UpInit
<1>2. Basics /\ LocalInv /\ UpInv /\ [Next]_vars
        => (Basics /\ LocalInv /\ UpInv)'
 <2> SUFFICES ASSUME Basics, LocalInv, UpInv, [Next]_vars
              PROVE  Basics' /\ LocalInv' /\ UpInv'
   OBVIOUS
 <2>1. Types /\ InsertInv BY DEF Basics
 <2>2. Basics' BY BasicsInductive
 <2>3. LocalInv' BY <2>1, LocalInductive
 <2>4. UpInv' BY <2>1, LocalIsTidy, UpInductive
 <2> QED BY <2>2, <2>3, <2>4
<1> QED BY <1>1, <1>2, PTL DEF Spec

----------------------------------------
\* Either way.

LEMMA UsageAlways ==
  ASSUME Usage
  PROVE  Spec => [](Types /\ UpInv)
<1>1. CASE Tcp BY <1>1, TcpAlways, PTL DEF Basics
<1>2. CASE Local BY <1>2, LocalAlways, PTL DEF Basics
<1> QED BY <1>1, <1>2 DEF Usage

\* Input and the peer's end of stream are not overlooked: while one of them is
\* unread on a connection that is up, the stream callback is installed and its
\* event on its way; unless two updates of event_types_ have overlapped.
THEOREM InputIsAlwaysHandled ==
  ASSUME Usage
  PROVE  Spec => []InputIsHandled
<1>1. UpInv => InputIsHandled
 <2> SUFFICES ASSUME UpInv, Quiet, Serving, outcome = "connected",
                     inbox # <<>> \/ sk = "fin", ~raced
              PROVE  cb = "stream" /\ "R" \in mask /\ "sock" \in ready
   BY DEF InputIsHandled
 <2>1. started /\ ToRead BY DEF Serving, ToRead
 <2> QED BY <2>1, UpShows
<1> QED BY <1>1, UsageAlways, PTL

\* A connection that the peer reset is reported, with the same exception: the
\* client does not go on as started with nothing on its way to a callback.
THEOREM LostConnectionIsAlwaysReported ==
  ASSUME Usage, NetErrors \subseteq {"reset"}
  PROVE  Spec => []LostConnectionIsReported
<1>1. UpInv => LostConnectionIsReported
 <2> SUFFICES ASSUME UpInv, Quiet, Serving, outcome = "connected", sk = "dead", ~raced
              PROVE  "sock" \in ready
   BY DEF LostConnectionIsReported
 <2>1. started /\ ToRead BY DEF Serving, ToRead
 <2> QED BY <2>1, UpShows
<1> QED BY <1>1, UsageAlways, PTL

----------------------------------------
\* The peer's stream, where the connection does not break.

LEMMA Positions ==
  ASSUME NEW s \in Seq(Labels), s # <<>>, NEW steps \in Seq(Labels), NEW l,
         ~Has(steps, l)
  PROVE  /\ AtFront(s, l) => ~Has(steps \o Tail(s), l)
         /\ AtBack(s, l) => AtBack(steps \o Tail(s), l)
<1>1. PICK q : q = steps \o Tail(s) OBVIOUS
<1>2. PICK n, k \in Nat : n = Len(s) /\ k = Len(steps) OBVIOUS
<1>3. /\ q \in Seq(Labels) /\ Len(q) = k + n - 1
      /\ \A i \in 1..k : q[i] = steps[i]
      /\ \A i \in 2..n : q[k + i - 1] = s[i]
  BY <1>1, <1>2, Stacked
<1>4. n > 0 /\ DOMAIN s = 1..n /\ DOMAIN steps = 1..k /\ DOMAIN q = 1..(k + n - 1)
  BY <1>2, <1>3
<1>5. ASSUME NEW j \in DOMAIN q, q[j] = l
      PROVE  \E i \in 2..n : j = k + i - 1 /\ s[i] = l
 <2>1. j \notin 1..k BY <1>3, <1>4, <1>5 DEF Has
 <2>2. PICK i \in 2..n : i = j - k + 1 BY <1>2, <1>4, <2>1
 <2>3. j = k + i - 1 BY <1>2, <1>4, <2>2
 <2> QED BY <1>3, <1>5, <2>2, <2>3
<1>6. ASSUME AtFront(s, l) PROVE ~Has(q, l)
 <2>1. \A i \in 2..n : i # 1 /\ i \in DOMAIN s BY <1>4
 <2> QED BY <1>5, <1>6, <2>1 DEF AtFront, Has
<1>7. ASSUME AtBack(s, l) PROVE AtBack(q, l)
 <2>1. \A i \in 2..n : i \in DOMAIN s /\ (i = n => k + i - 1 = k + n - 1)
   BY <1>4
 <2> QED BY <1>2, <1>3, <1>5, <1>7, <2>1 DEF AtBack
<1> QED BY <1>1, <1>6, <1>7

\* A step of the io thread that begins no phase.
LEMMA PhasesGo ==
  ASSUME Types, PhasesInv, pc["io"] # <<>>, NEW steps \in Seq(Labels), Goto("io", steps),
         ~Has(steps, "read"), ~Has(steps, "closed")
  PROVE  PhasesInv' /\ ~In("io", "read")'
<1>1. PICK s \in Seq(Labels) : s = pc["io"] /\ s # <<>>
  BY DEF Types, LoopTypes, Threads
<1>2. pc'["io"] = steps \o Tail(s) BY <1>1, GotoIs DEF Types, LoopTypes, Threads
<1>3. AtFront(s, "read") /\ AtBack(s, "closed") BY <1>1 DEF PhasesInv
<1>4. ~Has(pc'["io"], "read") /\ AtBack(pc'["io"], "closed")
  BY <1>1, <1>2, <1>3, Positions
<1>5. AtFront(pc'["io"], "read") BY <1>4 DEF AtFront, Has
<1> QED BY <1>4, <1>5 DEF PhasesInv, In

\* The end of the connection waits behind the other phases.
LEMMA PhasesDisconnect ==
  ASSUME Types, PhasesInv, pc["io"] # <<>>, Disconnected
  PROVE  PhasesInv' /\ ~In("io", "read")'
<1>1. PICK s \in Seq(Labels) : s = pc["io"] /\ s # <<>>
  BY DEF Types, LoopTypes, Threads
<1>2. PICK r \in Seq(Labels) : r = Tail(s)
 <2>1. Tail(s) \in Seq(Labels) BY ONLY s \in Seq(Labels), <1>1
 <2> QED BY <2>1
<1>3. ~Has(r, "read") /\ AtBack(r, "closed")
 <2>1. << >> \in Seq(Labels) /\ << >> \o Tail(s) = r /\ \A l : ~Has(<< >>, l)
   BY <1>1, <1>2, StackPopped DEF Has
 <2>2. AtFront(s, "read") /\ AtBack(s, "closed") BY <1>1 DEF PhasesInv
 <2> QED BY <1>1, <2>1, <2>2, Positions
<1>4. PICK q : /\ q = (IF Has(r, "closed") THEN r ELSE r \o <<"closed">>)
               /\ pc' = [pc EXCEPT !["io"] = q]
  BY <1>1, <1>2 DEF Disconnected, Has
<1>5. ~Has(q, "read") /\ AtBack(q, "closed")
 <2>1. CASE Has(r, "closed") BY <1>3, <1>4, <2>1
 <2>2. CASE ~Has(r, "closed")
  <3>1. PICK c \in Labels : c = "closed" BY DEF Labels
  <3>2. PICK n \in Nat : n = Len(r) BY <1>2
  <3>3. /\ q \in Seq(Labels) /\ Len(q) = n + 1 /\ \A i \in 1..n : q[i] = r[i]
        /\ \A x : Has(q, x) <=> Has(r, x) \/ x = c
   <4>1. q = r \o <<c>> BY <1>4, <2>2, <3>1
   <4> QED
     BY ONLY <4>1, <3>2, r \in Seq(Labels), c \in Labels, n \in Nat, Extended
  <3>4. DOMAIN q = 1..(n + 1) /\ DOMAIN r = 1..n BY <1>2, <3>2, <3>3
  <3>5. \A i \in 1..(n + 1) : i \in 1..n \/ i = n + 1 OBVIOUS
  <3>6. AtBack(q, c) BY <2>2, <3>1, <3>3, <3>4, <3>5 DEF AtBack, Has
  <3> QED BY <1>3, <3>1, <3>3, <3>6
 <2> QED BY <2>1, <2>2
<1>6. pc'["io"] = q BY <1>4 DEF Types, LoopTypes, Threads
<1>7. AtFront(q, "read") BY <1>5 DEF AtFront, Has
<1> QED BY <1>5, <1>6, <1>7 DEF PhasesInv, In

\* The stream callback begins.
LEMMA PhasesBegin ==
  ASSUME NEW types
  PROVE  LET p == Phases(types)
         IN /\ AtFront(p, "read") /\ AtBack(p, "closed")
            /\ Has(p, "split") /\ ~Has(p, "closed")
<1>1. PICK p \in Seq(Labels) :
        /\ p = Phases(types) /\ Len(p) > 0 /\ p[Len(p)] = "split" /\ Shaped(p)
        /\ \A l : Has(p, l) => l \in {"read", "write", "error", "split"}
  BY PhasesAre
<1>2. ~Has(p, "closed") BY <1>1
<1>3. AtBack(p, "closed") BY <1>2 DEF AtBack, Has
<1>4. Len(p) \in DOMAIN p BY <1>1
<1>5. Before("read") = {} BY DEF Before
<1>6. AtFront(p, "read")
 <2>1. \A i \in DOMAIN p : ~(i > 1) => i = 1 BY <1>1
 <2> QED BY <1>1, <1>5, <2>1 DEF AtFront, Shaped
<1> QED BY <1>1, <1>2, <1>3, <1>4, <1>6 DEF Has

LEMMA PhasesInductive ==
  ASSUME Types, PhasesInv, [Next]_vars
  PROVE  PhasesInv'
<1> USE DEF client, entry, kernel, ghosts
<1>1. CASE pc'["io"] = pc["io"] BY <1>1 DEF PhasesInv, In
<1>2. CASE ThreadStep("io")
 <2>1. PICK steps \in Seq(Labels) : /\ Goto("io", steps)
                                    /\ ~Has(steps, "read") /\ ~Has(steps, "closed")
   BY <1>2, CallGoes DEF Threads, OwnSteps
 <2> QED BY <1>2, <2>1, PhasesGo, CallSteps DEF Threads
<1>3. CASE ThreadStep("app") BY <1>1, <1>3, CallSteps DEF Threads
<1>4. ASSUME NEW q, pc' = [pc EXCEPT !["io"] = q], AtFront(q, "read"), AtBack(q, "closed"),
             Has(q, "read") => Has(q, "split") /\ ~Has(q, "closed")
      PROVE  PhasesInv'
 <2>1. pc'["io"] = q BY <1>4 DEF Types, LoopTypes, Threads
 <2> QED BY <1>4, <2>1 DEF PhasesInv, In
<1>5. ASSUME NEW q, pc' = [pc EXCEPT !["io"] = q], ~Has(q, "read"), ~Has(q, "closed")
      PROVE  PhasesInv'
 <2>1. AtFront(q, "read") /\ AtBack(q, "closed")
   BY <1>5 DEF AtFront, AtBack, Has
 <2> QED BY <1>4, <1>5, <2>1
<1>6. CASE SendTaskQueues
 <2>1. ~Has(<<"insert">>, "read") /\ ~Has(<<"insert">>, "closed") BY WhatHas
 <2> QED BY <1>5, <1>6, <2>1 DEF SendTaskQueues
<1>7. CASE SocketCb \/ TimerCb
 <2>1. \A l \in {"read", "closed"} :
         ~Has(Failure, l) /\ ~Has(Success, l) /\ ~Has(<<"unwatch timer">>, l)
   BY WhatHas
 <2>2. \A l \in {"read", "closed"} : ~Has(Attempt, l) BY <2>1 DEF Attempt
 <2>3. PICK q : /\ q \in {Attempt, Failure, <<"unwatch timer">>}
                /\ pc' = [pc EXCEPT !["io"] = q]
   BY <1>7 DEF SocketCb, TimerCb
 <2>4. ~Has(q, "read") /\ ~Has(q, "closed") BY <2>1, <2>2, <2>3
 <2> QED BY <1>5, <2>3, <2>4
<1>8. CASE StreamCb
 <2>1. pc' = [pc EXCEPT !["io"] = Phases(Head(evs).types)]
   BY <1>8 DEF StreamCb, Phases
 <2> QED BY <1>4, <2>1, PhasesBegin
<1>14. ASSUME NEW l \in UpdateSteps
       PROVE  <<l>> \in Seq(Labels) /\ ~Has(<<l>>, "read") /\ ~Has(<<l>>, "closed")
 <2>1. l # "read" /\ l # "closed" BY UpdateStepsAre
 <2> QED BY <2>1, WhatHas, StepSequences
<1>9. CASE Read \/ Write \/ PostUpdate \/ Error \/ Split \/ Closed \/ Insert
 <2>1. /\ pc["io"] # <<>>
       /\ \/ Disconnected
          \/ \E steps \in {<<>>, <<"refuse">>, <<"stop", "callback">>} : Goto("io", steps)
          \/ \E l \in UpdateSteps : Goto("io", <<l>>)
  <3>1. CASE Write BY <3>1, WriteGoes DEF UpdateSteps, At
  <3>2. CASE PostUpdate BY <3>2, PostIs DEF UpdateSteps, At
  <3> QED BY <1>9, <3>1, <3>2 DEF Read, Error, Split, Closed, Insert, At
 <2>2. \A steps \in {<<>>, <<"refuse">>, <<"stop", "callback">>} :
         steps \in Seq(Labels) /\ ~Has(steps, "read") /\ ~Has(steps, "closed")
  <3>1. \A steps \in {<<>>, <<"refuse">>, <<"stop", "callback">>} : steps \in Seq(Labels)
    BY StepSequences
  <3>2. ~Has(<<>>, "read") /\ ~Has(<<>>, "closed") BY WhatHas
  <3>3. ~Has(<<"refuse">>, "read") /\ ~Has(<<"refuse">>, "closed") BY WhatHas
  <3>4. ~Has(<<"stop", "callback">>, "read") /\ ~Has(<<"stop", "callback">>, "closed")
   <4>1. \A l : Has(<<"stop", "callback">>, l) <=> l \in {"stop", "callback"}
     BY WhatHas
   <4> QED BY <4>1
  <3> QED BY <3>1, <3>2, <3>3, <3>4
 <2> QED BY <1>14, <2>1, <2>2, PhasesGo, PhasesDisconnect
<1>10. CASE \/ EnableTask \/ DisableTask \/ EnableTimerTask \/ DisableTimerTask
            \/ ArmTask \/ epoll_wait \/ TakeTasks \/ NoHandler
  BY <1>1, <1>10 DEF EnableTask, DisableTask, EnableTimerTask, DisableTimerTask,
     ArmTask, epoll_wait, TakeTasks, NoHandler
<1>15. CASE SendTaskSends
 <2>1. \/ pc' = [pc EXCEPT !["io"] = << >>]
       \/ \E l \in UpdateSteps : pc' = [pc EXCEPT !["io"] = <<l>>]
   BY <1>15, SendGoes DEF UpdateSteps
 <2>2. ~Has(<< >>, "read") /\ ~Has(<< >>, "closed") BY WhatHas
 <2> QED BY <1>5, <1>14, <2>1, <2>2
<1>11. CASE AppConnect \/ AppStop \/ AppStart \/ \E m \in Messages : PostSend(m)
 <2>1. pc' = pc \/ \E steps : pc' = [pc EXCEPT !["app"] = steps]
   BY <1>11 DEF AppConnect, AppStop, AppStart, UserCall, PostSend
 <2> QED BY <1>1, <2>1 DEF Types, LoopTypes, Threads
<1>12. CASE ConnectEnds \/ PeerSends \/ PeerCloses \/ Drain \/ Expire
            \/ \E e \in NetErrors : Breaks(e)
  BY <1>1, <1>12 DEF ConnectEnds, PeerSends, PeerCloses, Drain, Expire, Breaks, Quietly
<1>13. CASE UNCHANGED vars BY <1>1, <1>13 DEF vars
<1> QED
  BY <1>2, <1>3, <1>6, <1>7, <1>8, <1>9, <1>10, <1>11, <1>12, <1>13, <1>15
     DEF Next, IoStep, RunTask

\* What the provers want to be told about sequences and even numbers.
LEMMA SmallFacts ==
  /\ \A S : \A x \in S : <<x>> \in Seq(S)
  /\ \A S : \A a, b \in Seq(S) : a \o b \in Seq(S)
  /\ \A i, j \in Nat : i % 2 = 0 /\ j % 2 = 0 => (i + j) % 2 = 0
<1>1. ASSUME NEW S, NEW x \in S PROVE <<x>> \in Seq(S) OBVIOUS
<1>2. ASSUME NEW S, NEW a \in Seq(S), NEW b \in Seq(S) PROVE a \o b \in Seq(S)
  BY ConcatProperties
<1>3. ASSUME NEW i \in Nat, NEW j \in Nat, i % 2 = 0, j % 2 = 0 PROVE (i + j) % 2 = 0
  BY <1>3
<1> QED BY <1>1, <1>2, <1>3

LEMMA Joins ==
  \A a, b, c \in Seq(1..MaxPeer) : (a \o b) \o c = a \o (b \o c)
<1> TAKE a, b, c \in Seq(1..MaxPeer)
<1> QED BY Associative, SMTT(30)

LEMMA StreamParts ==
  ASSUME NEW S, NEW a \in Seq(S), NEW b \in Seq(S), NEW c \in Seq(S)
  PROVE  LET q == a \o (b \o c)
         IN /\ q \in Seq(S) /\ Len(q) = Len(a) + Len(b) + Len(c)
            /\ \A i \in 1..Len(a) : q[i] = a[i]
            /\ q = <<>> => a = <<>> /\ b = <<>> /\ c = <<>>
            /\ Numbered(q) => Numbered(a)
<1>1. PICK d : d = b \o c OBVIOUS
<1>2. d \in Seq(S) /\ Len(d) = Len(b) + Len(c) BY <1>1
<1>3. PICK q : q = a \o d OBVIOUS
<1>4. q \in Seq(S) /\ Len(q) = Len(a) + Len(d) /\ \A i \in 1..Len(a) : q[i] = a[i]
 <2>1. /\ a \o d \in Seq(S) /\ Len(a \o d) = Len(a) + Len(d)
       /\ \A i \in 1..(Len(a) + Len(d)) :
            (a \o d)[i] = IF i <= Len(a) THEN a[i] ELSE d[i - Len(a)]
  <3>1. d \in Seq(S) BY <1>2
  <3> QED BY ONLY <3>1, a \in Seq(S), ConcatProperties
 <2>2. PICK m, n \in Nat : m = Len(a) /\ n = Len(d) BY <1>2
 <2>3. \A i \in 1..m : i \in 1..(m + n) /\ i <= m OBVIOUS
 <2> QED BY <1>3, <2>1, <2>2, <2>3
<1>5. PICK m, n, k \in Nat : m = Len(a) /\ n = Len(b) /\ k = Len(c) OBVIOUS
<1>6. Len(q) = m + n + k BY <1>2, <1>4, <1>5
<1>7. ASSUME q = <<>> PROVE a = <<>> /\ b = <<>> /\ c = <<>>
 <2>1. m + n + k = 0 BY <1>6, <1>7
 <2>2. m = 0 /\ n = 0 /\ k = 0 BY <1>5, <2>1
 <2>3. \A w \in Seq(S) : Len(w) = 0 => w = <<>> OBVIOUS
 <2> QED BY <1>5, <2>2, <2>3
<1>8. ASSUME Numbered(q) PROVE Numbered(a)
 <2>1. DOMAIN a = 1..m /\ DOMAIN q = 1..(m + n + k) /\ 1..m \subseteq 1..(m + n + k)
  <3>1. DOMAIN a = 1..Len(a) OBVIOUS
  <3>2. DOMAIN q = 1..Len(q) BY ONLY <1>4
  <3>3. 1..m \subseteq 1..(m + n + k) OBVIOUS
  <3> QED BY ONLY <1>5, <1>6, <3>1, <3>2, <3>3
 <2> QED BY <1>4, <1>5, <1>8, <2>1 DEF Numbered
<1> QED BY <1>1, <1>3, <1>4, <1>5, <1>6, <1>7, <1>8

LEMMA StreamTypes ==
  ASSUME Types
  PROVE  /\ frames \in Seq(1..MaxPeer) /\ recv_buf \in Seq(1..MaxPeer)
         /\ inbox \in Seq(1..MaxPeer) /\ stream \in Seq(1..MaxPeer)
         /\ Len(stream) = Len(frames) + Len(recv_buf) + Len(inbox)
         /\ stream = <<>> => frames = <<>> /\ recv_buf = <<>> /\ inbox = <<>>
         /\ Numbered(stream) => Numbered(frames)
<1>1. PICK a, b, c \in Seq(1..MaxPeer) : a = frames /\ b = recv_buf /\ c = inbox
  BY DEF Types, ClientTypes, KernelTypes, GhostTypes
<1>2. /\ a \o (b \o c) \in Seq(1..MaxPeer)
      /\ Len(a \o (b \o c)) = Len(a) + Len(b) + Len(c)
      /\ a \o (b \o c) = <<>> => a = <<>> /\ b = <<>> /\ c = <<>>
      /\ Numbered(a \o (b \o c)) => Numbered(a)
  BY StreamParts
<1> QED BY <1>1, <1>2 DEF stream

\* Before a connection there is no stream.
LEMMA StreamEmpty ==
  ASSUME Types, FlowInv, sk \in NotYet
  PROVE  frames = <<>> /\ recv_buf = <<>> /\ inbox = <<>>
<1>1. sk # "fin" BY DEF NotYet
<1>2. Len(stream) = 0 BY <1>1 DEF FlowInv
<1>3. stream = <<>> BY <1>2, StreamTypes
<1> QED BY <1>3, StreamTypes

\* A step that leaves the stream alone.
LEMMA FlowStays ==
  ASSUME Types, FlowInv, UNCHANGED <<frames, recv_buf, inbox, peer>>,
         \/ sk' = sk
         \/ sk \in NotYet /\ sk' \in NotYet \cup {"established"}
         \/ sk = "established" /\ sk' = "fin",
         In("io", "closed")' =>
           \/ recv_buf = <<>>
           \/ In("io", "closed") /\ (In("io", "split") => In("io", "split")')
  PROVE  FlowInv'
<1>1. stream' = stream /\ (AllRead' <=> AllRead) BY DEF stream, AllRead
<1>2. /\ Numbered(stream') /\ Len(frames') % 2 = 0
      /\ sk' # "dead" /\ (sk' \in NotYet => peer' = 0)
  BY <1>1 DEF FlowInv, NotYet
<1>3. peer' = Len(stream') \/ (sk' = "fin" /\ AllRead')
 <2>1. sk = "fin" => sk' = "fin" BY DEF NotYet
 <2> QED BY <1>1, <2>1 DEF FlowInv
<1>4. In("io", "closed")' => recv_buf' = <<>> \/ (sk' = "fin" /\ inbox' = <<>>)
 <2>1. sk = "fin" => sk' = "fin" BY DEF NotYet
 <2> QED BY <2>1 DEF FlowInv
<1>5. In("io", "closed")' /\ ~In("io", "split")' => Len(recv_buf') < 2
 <2>1. Len(<<>>) = 0 OBVIOUS
 <2> QED BY <2>1 DEF FlowInv
<1> QED BY <1>2, <1>3, <1>4, <1>5 DEF FlowInv

\* "closed" is the last step.
LEMMA ClosedAlone ==
  ASSUME Types, PhasesInv, At("io", "closed")
  PROVE  /\ ~In("io", "split")
         /\ Goto("io", <<"stop", "callback">>) => ~In("io", "closed")'
<1>1. PICK s \in Seq(Labels) : s = pc["io"] /\ s # <<>> /\ Head(s) = "closed"
  BY DEF At, Types, LoopTypes, Threads
<1>2. Len(s) = 1 /\ s[1] = "closed" /\ DOMAIN s = {1} /\ Tail(s) = <<>>
 <2>1. 1 \in DOMAIN s /\ s[1] = Head(s) BY ONLY <1>1, s \in Seq(Labels)
 <2>2. 1 = Len(s) BY <1>1, <2>1 DEF PhasesInv, AtBack
 <2>3. DOMAIN s = 1..1 /\ 1..1 = {1} BY <2>2
 <2>4. Tail(s) = <<>>
  <3>1. Tail(s) \in Seq(Labels) /\ Len(Tail(s)) = Len(s) - 1
    BY ONLY <1>1, s \in Seq(Labels)
  <3>2. Len(Tail(s)) = 0 BY <2>2, <3>1
  <3>3. \A w \in Seq(Labels) : Len(w) = 0 => w = <<>> OBVIOUS
  <3> QED BY <3>1, <3>2, <3>3
 <2> QED BY <1>1, <2>1, <2>2, <2>3, <2>4
<1>3. ~Has(s, "split") BY <1>2 DEF Has
<1>4. ASSUME Goto("io", <<"stop", "callback">>) PROVE ~In("io", "closed")'
 <2>1. <<"stop", "callback">> \in Seq(Labels) BY StepSequences
 <2>2. pc'["io"] = <<"stop", "callback">> \o Tail(s)
   BY <1>1, <1>4, <2>1, GotoIs DEF Types, LoopTypes, Threads
 <2>3. pc'["io"] = <<"stop", "callback">>
  <3>1. PICK w \in Seq(Labels) : w = <<"stop", "callback">> BY <2>1
  <3>2. w \o <<>> = w OBVIOUS
  <3> QED BY <1>2, <2>2, <3>1, <3>2
 <2>4. \A l : Has(<<"stop", "callback">>, l) <=> l \in {"stop", "callback"}
   BY WhatHas
 <2> QED BY <2>3, <2>4 DEF In
<1> QED BY <1>1, <1>3, <1>4 DEF In

\* The stream callback reads everything there is ...
LEMMA FlowRead ==
  ASSUME Basics, PhasesInv, FlowInv, Read
  PROVE  FlowInv' /\ (AllRead => AllRead')
<1> USE DEF client, entry, kernel, ghosts
<1>1. /\ Types /\ ErrorInv /\ pc["io"] # <<>> /\ Head(pc["io"]) = "read"
      /\ pc \in [Threads -> Seq(Labels)] /\ "io" \in Threads
      /\ sk \in SkStates /\ sk # "dead"
      /\ UNCHANGED <<sk, peer, frames>> /\ inbox' = <<>>
  BY DEF Basics, Types, LoopTypes, KernelTypes, Threads, Read, At, FlowInv
<1>2. In("io", "split") /\ ~In("io", "closed")
 <2>1. In("io", "read") BY <1>1, HeadIn DEF At
 <2> QED BY <2>1 DEF PhasesInv
<1>3. recv_buf' = recv_buf \o inbox
 <2>1. CASE recv_buf' = <<>> /\ ~EndOfStream /\ sk \notin {"connecting", "established"}
  <3>1. sk \in NotYet BY <1>1, <2>1 DEF EndOfStream, ErrorInv, SkStates, NotYet
  <3>2. recv_buf = <<>> /\ inbox = <<>> BY <1>1, <3>1, StreamEmpty
  <3>3. <<>> \o <<>> = <<>> OBVIOUS
  <3> QED BY <2>1, <3>2, <3>3
 <2> QED BY <2>1 DEF Read
<1>4. stream' = stream
 <2>1. PICK a, b, c \in Seq(1..MaxPeer) : a = frames /\ b = recv_buf /\ c = inbox
   BY <1>1, StreamTypes
 <2>2. (b \o c) \o <<>> = b \o c OBVIOUS
 <2> QED BY <1>1, <1>3, <2>1, <2>2 DEF stream
<1>5. AllRead => AllRead'
 <2>1. <<>> \o <<>> = <<>> OBVIOUS
 <2> QED BY <1>1, <1>3, <2>1 DEF AllRead
<1>6. In("io", "closed")' =>
        /\ In("io", "split")'
        /\ recv_buf' = <<>> \/ sk' = "fin"
 <2>1. CASE Goto("io", <<>>)
  <3>1. \A l : In("io", l)' => Has(<<>>, l) \/ In("io", l)
    BY <1>1, <2>1, StepSequences, GotoIs
  <3>2. ~Has(<<>>, "closed") BY WhatHas
  <3>3. ~In("io", "closed")' BY <1>2, <3>1, <3>2
  <3> QED BY <3>3
 <2>2. CASE EndOfStream /\ Disconnected
  <3>1. \A l : In("io", l) /\ Head(pc["io"]) # l => In("io", l)'
    BY <1>1, <2>2, DisconnectedIs
  <3>2. "read" # "split" OBVIOUS
  <3>3. In("io", "split")' BY <1>1, <1>2, <3>1, <3>2
  <3>4. sk \in NotYet \/ sk' = "fin" BY <1>1, <2>2 DEF EndOfStream, NotYet
  <3>5. ASSUME sk \in NotYet PROVE recv_buf' = <<>>
   <4>1. recv_buf = <<>> /\ inbox = <<>> BY <1>1, <3>5, StreamEmpty
   <4>2. <<>> \o <<>> = <<>> OBVIOUS
   <4> QED BY <1>3, <4>1, <4>2
  <3> QED BY <3>3, <3>4, <3>5
 <2> QED BY <2>1, <2>2 DEF Read
<1> QED BY <1>1, <1>4, <1>5, <1>6 DEF FlowInv

\* ... cuts it into frames, and keeps what is less than a frame ...
LEMMA FlowSplit ==
  ASSUME Types, FlowInv, Split
  PROVE  FlowInv' /\ (AllRead => AllRead')
<1> USE DEF client, entry, kernel, ghosts
<1>1. /\ pc["io"] # <<>> /\ Goto("io", <<>>)
      /\ pc \in [Threads -> Seq(Labels)] /\ "io" \in Threads
      /\ UNCHANGED <<sk, peer, inbox>>
  BY DEF Types, LoopTypes, Threads, Split, At
<1>2. PICK a, b, c \in Seq(1..MaxPeer) : a = frames /\ b = recv_buf /\ c = inbox
  BY StreamTypes
<1>3. PICK k \in Nat : k = Whole(b) /\ k % 2 = 0 BY SplitParts
<1>4. PICK p, q \in Seq(1..MaxPeer) :
        /\ p = SubSeq(b, 1, Whole(b)) /\ q = Unsplit(b) /\ p \o q = b
        /\ Len(p) = k /\ Len(q) < 2 /\ Len(q) = Len(b) - k
  BY <1>3, SplitParts
<1>5. frames' = a \o p /\ recv_buf' = q /\ inbox' = c
  BY <1>1, <1>2, <1>4 DEF Split
<1>6. stream' = stream
 <2>1. \A z \in Seq(1..MaxPeer) : (a \o p) \o z = a \o (p \o z) BY Joins
 <2>2. \A z \in Seq(1..MaxPeer) : (p \o q) \o z = p \o (q \o z) BY Joins
 <2>3. q \o c \in Seq(1..MaxPeer) BY SmallFacts
 <2>4. (a \o p) \o (q \o c) = a \o (p \o (q \o c)) BY <2>1, <2>3
 <2>5. (p \o q) \o c = p \o (q \o c) BY <2>2
 <2> QED BY <1>2, <1>4, <1>5, <2>4, <2>5 DEF stream
<1>7. Len(frames') = Len(a) + k
 <2>1. Len(a \o p) = Len(a) + Len(p) OBVIOUS
 <2> QED BY <1>4, <1>5, <2>1
<1>8. Len(frames') % 2 = 0
 <2>1. \A i, j \in Nat : i % 2 = 0 /\ j % 2 = 0 => (i + j) % 2 = 0 BY SmallFacts
 <2>2. Len(a) \in Nat /\ Len(a) % 2 = 0
  <3>1. Len(frames) % 2 = 0 BY DEF FlowInv
  <3>2. Len(a) \in Nat OBVIOUS
  <3> QED BY <1>2, <3>1, <3>2
 <2> QED BY <1>3, <1>7, <2>1, <2>2
<1>9. ASSUME b = <<>> PROVE q = <<>> /\ Len(frames') = Len(a)
 <2>1. Len(b) = 0 /\ Len(q) \in Nat BY <1>9
 <2>2. Len(q) = 0 /\ k = 0 BY <1>3, <1>4, <2>1
 <2>3. \A w \in Seq(1..MaxPeer) : Len(w) = 0 => w = <<>> OBVIOUS
 <2>4. Len(a) \in Nat OBVIOUS
 <2> QED BY <1>7, <2>2, <2>3, <2>4
<1>10. AllRead => AllRead' BY <1>1, <1>2, <1>5, <1>9 DEF AllRead
<1>11. In("io", "closed")' => In("io", "closed")
 <2>1. \A l : In("io", l)' => Has(<<>>, l) \/ In("io", l)
   BY <1>1, StepSequences, GotoIs
 <2>2. ~Has(<<>>, "closed") BY WhatHas
 <2> QED BY <2>1, <2>2
<1>12. recv_buf = <<>> => recv_buf' = <<>> BY <1>2, <1>5, <1>9
<1>13. Len(recv_buf') < 2 BY <1>4, <1>5
<1> QED BY <1>1, <1>6, <1>8, <1>10, <1>11, <1>12, <1>13 DEF FlowInv

\* ... and reports the end of the connection when all of it was cut.
LEMMA ClosedAtEnd ==
  ASSUME Types, PhasesInv, FlowInv, Closed
  PROVE  /\ FlowInv'
         /\ sk = "fin" /\ inbox = <<>> => AllRead'
<1> USE DEF client, entry, kernel, ghosts
<1>1. /\ At("io", "closed") /\ pc["io"] # <<>> /\ Goto("io", <<"stop", "callback">>)
      /\ recv_buf' = <<>> /\ UNCHANGED <<sk, peer, inbox, frames>>
  BY DEF Closed, At
<1>2. ~In("io", "split") /\ ~In("io", "closed")' BY <1>1, ClosedAlone
<1>3. PICK f, b, c \in Seq(1..MaxPeer) : f = frames /\ b = recv_buf /\ c = inbox
  BY StreamTypes
<1>4. In("io", "closed") BY <1>1, HeadIn DEF Threads
<1>5. /\ Len(b) < 2 /\ (b = <<>> \/ (sk = "fin" /\ c = <<>>))
      /\ Len(f) % 2 = 0 /\ Numbered(stream)
  BY <1>2, <1>3, <1>4 DEF FlowInv
<1>6. ASSUME sk = "fin", c = <<>> PROVE AllRead'
 <2>1. CASE AllRead BY <1>1, <2>1 DEF AllRead
 <2>2. CASE peer = Len(stream)
  <3>1. Len(stream) = Len(f) + Len(b) + Len(c) /\ Len(c) = 0
    BY <1>3, <1>6, StreamTypes
  <3>2. PICK i, j \in Nat : i = Len(f) /\ j = Len(b) OBVIOUS
  <3>3. peer = i + j /\ j < 2 /\ i % 2 = 0 BY <1>5, <2>2, <3>1, <3>2
  <3>4. \A x, y \in Nat : y < 2 /\ x % 2 = 0 => x = 2 * ((x + y) \div 2) OBVIOUS
  <3>5. i = 2 * (peer \div 2) BY <3>2, <3>3, <3>4
  <3> QED BY <1>1, <1>3, <1>6, <3>2, <3>5 DEF AllRead
 <2> QED BY <1>6, <2>1, <2>2 DEF FlowInv
<1>7. Numbered(stream')
 <2>1. CASE b = <<>> BY <1>1, <1>3, <1>5, <2>1 DEF stream
 <2>2. CASE c = <<>>
  <3>1. stream' = f
   <4>1. <<>> \o <<>> = <<>> /\ f \o <<>> = f OBVIOUS
   <4> QED BY <1>1, <1>3, <2>2, <4>1 DEF stream
  <3> QED BY <1>3, <1>5, <3>1, StreamTypes
 <2> QED BY <1>5, <2>1, <2>2
<1>8. peer' = Len(stream') \/ (sk' = "fin" /\ AllRead')
 <2>1. CASE b = <<>>
  <3>1. stream' = stream /\ (AllRead => AllRead')
    BY <1>1, <1>3, <2>1 DEF stream, AllRead
  <3> QED BY <1>1, <3>1 DEF FlowInv
 <2>2. CASE sk = "fin" /\ c = <<>> BY <1>1, <1>6, <2>2
 <2> QED BY <1>5, <2>1, <2>2
<1> QED BY <1>1, <1>2, <1>3, <1>5, <1>6, <1>7, <1>8 DEF FlowInv

\* The peer goes on.
LEMMA FlowSends ==
  ASSUME Types, FlowInv, PeerSends
  PROVE  FlowInv'
<1> USE DEF client, entry, kernel, ghosts
<1>1. /\ sk = "established" /\ peer' = peer + 1 /\ inbox' = Append(inbox, peer')
      /\ UNCHANGED <<sk, frames, recv_buf, pc>>
      /\ peer \in 0..MaxPeer /\ peer < MaxPeer /\ MaxPeer \in Nat
  BY Bounds DEF PeerSends, Quietly, Types, GhostTypes
<1>2. peer = Len(stream) BY <1>1 DEF FlowInv
<1>3. PICK f, b, c \in Seq(1..MaxPeer) : f = frames /\ b = recv_buf /\ c = inbox
  BY StreamTypes
<1>4. PICK x \in 1..MaxPeer : x = peer + 1 BY <1>1
<1>5. f \o (b \o (c \o <<x>>)) = (f \o (b \o c)) \o <<x>>
 <2>1. PICK e \in Seq(1..MaxPeer) : e = <<x>> BY SmallFacts
 <2>2. PICK d \in Seq(1..MaxPeer) : d = b \o c BY SmallFacts
 <2>3. (b \o c) \o e = b \o (c \o e) BY Joins, SMTT(30)
 <2>4. (f \o d) \o e = f \o (d \o e) BY Joins, SMTT(30)
 <2> QED BY <2>1, <2>2, <2>3, <2>4
<1>6. PICK s \in Seq(1..MaxPeer) : s = stream BY StreamTypes
<1>7. stream' = s \o <<x>>
 <2>1. Append(c, x) = c \o <<x>> OBVIOUS
 <2> QED BY <1>1, <1>3, <1>4, <1>5, <1>6, <2>1 DEF stream
<1>8. PICK n \in Nat : n = Len(s) /\ x = n + 1 BY <1>1, <1>2, <1>4, <1>6
<1>9. PICK q : q = s \o <<x>> OBVIOUS
<1>10. Len(q) = n + 1 /\ q[n + 1] = x /\ DOMAIN q = 1..(n + 1) /\ DOMAIN s = 1..n
       /\ \A i \in 1..n : q[i] = s[i]
  BY <1>8, <1>9
<1>11. Numbered(q)
 <2>1. \A i \in 1..(n + 1) : i \in 1..n \/ i = n + 1 OBVIOUS
 <2>2. Numbered(s) BY <1>6 DEF FlowInv
 <2> QED BY <1>8, <1>10, <2>1, <2>2 DEF Numbered
<1>12. peer' = Len(stream') /\ Numbered(stream')
  BY <1>1, <1>4, <1>7, <1>8, <1>9, <1>10, <1>11
<1>13. In("io", "closed")' => recv_buf' = <<>> BY <1>1 DEF FlowInv, In
<1>14. Len(<<>>) = 0 OBVIOUS
<1> QED BY <1>1, <1>12, <1>13, <1>14 DEF FlowInv, NotYet

LEMMA ShortHas ==
  ASSUME NEW steps \in ShortSteps
  PROVE  steps \in Seq(Labels) /\ \A l : Has(steps, l) => l \in {"refuse"} \cup UpdateSteps
<1>1. << >> \in Seq(Labels) /\ <<"refuse">> \in Seq(Labels)
      /\ \A l \in UpdateSteps : <<l>> \in Seq(Labels)
  BY StepSequences
<1>2. /\ \A l : ~Has(<< >>, l) /\ (Has(<<"refuse">>, l) => l = "refuse")
      /\ \A k \in UpdateSteps : \A l : Has(<<k>>, l) => l = k
  BY WhatHas
<1> QED BY <1>1, <1>2 DEF ShortSteps

LEMMA SocketCalls ==
  ASSUME Basics, NEW t \in Threads, ThreadStep(t)
  PROVE  \/ sk' = sk
         \/ /\ Syscall(t) /\ sk \in {"idle", "failed"}
            /\ sk' \in NotYet \cup {"established"}
<1>1. CASE Syscall(t)
 <2>1. err = "refused" => sk = "failed" BY DEF Basics, ErrorInv
 <2> QED BY <1>1, <2>1 DEF Syscall, NotYet
<1>2. CASE ~Syscall(t)
  BY <1>2 DEF ThreadStep, ConnectIgnored, ConnectBegins, SetConnected, SetDisconnected,
     WatchSock, StoreTypes, PostTimer, Start, SetStarted, StartTest, StartPost, Stop, StopPost,
     OnError, Callback, kernel
<1> QED BY <1>1, <1>2

LEMMA FlowInductive ==
  ASSUME Basics, PhasesInv, FlowInv, [Next]_vars, sk' # "dead"
  PROVE  FlowInv'
<1> USE DEF client, entry, kernel, ghosts
<1>1. /\ Types /\ InsertInv /\ ErrorInv /\ pc \in [Threads -> Seq(Labels)]
      /\ "io" \in Threads /\ "app" \in Threads
  BY DEF Basics, Types, LoopTypes, Threads
<1>2. CASE ThreadStep("io") \/ ThreadStep("app")
 <2>1. PICK t \in Threads : ThreadStep(t) BY <1>1, <1>2
 <2>2. UNCHANGED <<frames, recv_buf, inbox, peer>> BY <2>1, CallFrame
 <2>3. sk' = sk \/ (sk \in NotYet /\ sk' \in NotYet \cup {"established"})
   BY <2>1, SocketCalls DEF NotYet
 <2>4. \A l \in OwnSteps : In("io", l)' <=> In("io", l)
  <3>1. CASE t = "io" BY <1>1, <2>1, <3>1, CallSteps
  <3>2. CASE t # "io"
   <4>1. pc'["io"] = pc["io"] BY <1>1, <2>1, <3>2, CallSteps
   <4> QED BY <4>1 DEF In
  <3> QED BY <3>1, <3>2
 <2>5. In("io", "closed")' => In("io", "closed") /\ (In("io", "split") => In("io", "split")')
   BY <2>4 DEF OwnSteps
 <2> QED BY <1>1, <2>2, <2>3, <2>5, FlowStays
<1>3. ASSUME UNCHANGED <<frames, recv_buf, inbox, peer, sk>>, pc'["io"] = pc["io"]
      PROVE  FlowInv'
 <2>1. In("io", "closed")' => In("io", "closed") /\ (In("io", "split") => In("io", "split")')
   BY <1>3 DEF In
 <2> QED BY <1>1, <1>3, <2>1, FlowStays
<1>4. ASSUME UNCHANGED <<frames, recv_buf, inbox, peer, sk>>, ~In("io", "closed")'
      PROVE  FlowInv'
  BY <1>1, <1>4, FlowStays
<1>5. CASE \/ EnableTask \/ DisableTask \/ EnableTimerTask \/ DisableTimerTask
           \/ ArmTask \/ epoll_wait \/ TakeTasks \/ NoHandler
 <2>1. UNCHANGED <<frames, recv_buf, inbox, peer, sk, pc>>
   BY <1>5 DEF EnableTask, DisableTask, EnableTimerTask, DisableTimerTask,
      ArmTask, epoll_wait, TakeTasks, NoHandler
 <2> QED BY <1>3, <2>1
<1>21. CASE SendTaskSends
 <2>1. PICK steps \in ShortSteps : pc' = [pc EXCEPT !["io"] = steps]
   BY <1>1, <1>21, SendGoes DEF ShortSteps, UpdateSteps
 <2>2. pc'["io"] = steps /\ ~Has(steps, "closed")
  <3>1. \A l : Has(steps, l) => l \in {"refuse"} \cup UpdateSteps
    BY ONLY <2>1, ShortHas
  <3>2. "closed" \notin {"refuse"} \cup UpdateSteps BY UpdateStepsAre
  <3> QED BY <1>1, <2>1, <3>1, <3>2
 <2>3. UNCHANGED <<frames, recv_buf, inbox, peer, sk>>
   BY <1>21 DEF SendTaskSends
 <2> QED BY <1>4, <2>2, <2>3 DEF In
<1>6. CASE SendTaskQueues
 <2>1. ~Has(<<"insert">>, "closed") BY WhatHas
 <2>2. ~In("io", "closed")' /\ UNCHANGED <<frames, recv_buf, inbox, peer, sk>>
   BY <1>1, <1>6, <2>1 DEF SendTaskQueues, In
 <2> QED BY <1>4, <2>2
<1>7. CASE SocketCb \/ TimerCb
 <2>1. ~Has(Failure, "closed") /\ ~Has(Success, "closed") /\ ~Has(<<"unwatch timer">>, "closed")
   BY WhatHas
 <2>2. PICK q : /\ q \in {Success, Failure, <<"unwatch timer">>}
                /\ pc' = [pc EXCEPT !["io"] = q]
   BY <1>7 DEF SocketCb, TimerCb, Attempt
 <2>3. ~In("io", "closed")' BY <1>1, <2>1, <2>2 DEF In
 <2>4. UNCHANGED <<frames, recv_buf, inbox, peer, sk>>
   BY <1>7 DEF SocketCb, TimerCb
 <2> QED BY <1>4, <2>3, <2>4
<1>8. CASE StreamCb
 <2>1. /\ pc' = [pc EXCEPT !["io"] = Phases(Head(evs).types)]
       /\ UNCHANGED <<frames, recv_buf, inbox, peer, sk>>
   BY <1>8 DEF StreamCb, Phases
 <2>2. ~Has(Phases(Head(evs).types), "closed") BY PhasesBegin
 <2>3. ~In("io", "closed")' BY <1>1, <2>1, <2>2 DEF In
 <2> QED BY <1>4, <2>1, <2>3
<1>9. CASE Read BY <1>9, FlowRead
<1>10. CASE Split BY <1>1, <1>10, FlowSplit
<1>11. CASE Closed BY <1>1, <1>11, ClosedAtEnd
<1>20. ASSUME NEW steps \in ShortSteps, Goto("io", steps), pc["io"] # << >>,
              Head(pc["io"]) # "split", UNCHANGED <<frames, recv_buf, inbox, peer, sk>>
       PROVE  FlowInv'
 <2>1. /\ steps \in Seq(Labels) /\ ~Has(steps, "closed")
   BY ShortHas, UpdateStepsAre
 <2>2. \A l : /\ In("io", l)' => Has(steps, l) \/ In("io", l)
              /\ In("io", l) /\ Head(pc["io"]) # l => In("io", l)'
   BY <1>1, <1>20, <2>1, GotoIs
 <2>3. In("io", "closed")' => In("io", "closed") /\ (In("io", "split") => In("io", "split")')
   BY <1>20, <2>1, <2>2
 <2> QED BY <1>1, <1>20, <2>3, FlowStays
<1>12. CASE Insert \/ PostUpdate
 <2>1. /\ pc["io"] # << >> /\ Head(pc["io"]) # "split"
       /\ UNCHANGED <<frames, recv_buf, inbox, peer, sk>>
   BY <1>12, UpdateLabels DEF Insert, PostUpdate, At
 <2>2. PICK steps \in ShortSteps : Goto("io", steps)
   BY <1>12, PostIs DEF Insert, ShortSteps, UpdateSteps
 <2> QED BY <1>20, <2>1, <2>2
<1>13. CASE Write
 <2>1. /\ pc["io"] # <<>> /\ Head(pc["io"]) = "write"
       /\ UNCHANGED <<frames, inbox, peer, sk>> /\ sk # "dead"
   BY <1>13 DEF Write, At, FlowInv
 <2>2. ~Sending => recv_buf = <<>>
  <3>1. ~Sending => sk \in NotYet
    BY <1>1, <2>1 DEF Sending, NotYet, Types, KernelTypes, SkStates
  <3> QED BY <1>1, <3>1, StreamEmpty
 <2>3. recv_buf' = recv_buf BY <1>13, <2>2 DEF Write
 <2>4. (Disconnected /\ ~Sending) \/ \E steps \in ShortSteps : Goto("io", steps)
   BY <1>1, <1>13, WriteGoes DEF ShortSteps, UpdateSteps
 <2>5. CASE Disconnected /\ ~Sending BY <1>1, <2>1, <2>2, <2>3, <2>5, FlowStays
 <2>6. ASSUME NEW steps \in ShortSteps, Goto("io", steps) PROVE FlowInv'
   BY <1>20, <2>1, <2>3, <2>6
 <2> QED BY <2>4, <2>5, <2>6
<1>14. CASE Error
 <2>1. /\ pc["io"] # <<>> /\ Head(pc["io"]) = "error"
       /\ UNCHANGED <<frames, inbox, peer, sk>> /\ sk # "dead"
   BY <1>14 DEF Error, At, FlowInv
 <2>2. recv_buf' = recv_buf
  <3>1. err \notin {"none", "reset"} => sk \in NotYet
    BY <1>1, <2>1 DEF ErrorInv, NotYet
  <3>2. err \notin {"none", "reset"} => recv_buf = <<>>
    BY <1>1, <3>1, StreamEmpty
  <3> QED BY <1>14, <3>2 DEF Error
 <2>3. PICK steps \in ShortSteps : Goto("io", steps)
   BY <1>14 DEF Error, ShortSteps
 <2> QED BY <1>20, <2>1, <2>2, <2>3
<1>15. CASE AppConnect \/ AppStop \/ AppStart \/ \E m \in Messages : PostSend(m)
 <2>1. /\ pc' = pc \/ \E steps : pc' = [pc EXCEPT !["app"] = steps]
       /\ UNCHANGED <<frames, recv_buf, inbox, peer, sk>>
   BY <1>15 DEF AppConnect, AppStop, AppStart, UserCall, PostSend
 <2>2. pc'["io"] = pc["io"] BY <1>1, <2>1
 <2> QED BY <1>3, <2>1, <2>2
<1>16. CASE PeerSends BY <1>1, <1>16, FlowSends
<1>17. CASE ConnectEnds \/ PeerCloses
 <2>1. /\ UNCHANGED <<frames, recv_buf, inbox, peer, pc>>
       /\ \/ sk \in NotYet /\ sk' \in NotYet \cup {"established"}
          \/ sk = "established" /\ sk' = "fin"
   BY <1>17 DEF ConnectEnds, PeerCloses, Quietly, NotYet
 <2>2. In("io", "closed")' => In("io", "closed") /\ (In("io", "split") => In("io", "split")')
   BY <2>1 DEF In
 <2> QED BY <1>1, <2>1, <2>2, FlowStays
<1>18. CASE Drain \/ Expire \/ UNCHANGED vars
 <2>1. UNCHANGED <<frames, recv_buf, inbox, peer, sk, pc>>
   BY <1>18 DEF Drain, Expire, Quietly, vars
 <2> QED BY <1>3, <2>1
<1>19. ~\E e \in NetErrors : Breaks(e) BY DEF Breaks
<1> QED
  BY <1>2, <1>5, <1>6, <1>7, <1>8, <1>9, <1>10, <1>11, <1>12, <1>13, <1>14, <1>15, <1>16,
     <1>17, <1>18, <1>19, <1>21 DEF Next, IoStep, RunTask

LEMMA FlowInit == Init => PhasesInv /\ FlowInv
<1> SUFFICES ASSUME Init PROVE PhasesInv /\ FlowInv OBVIOUS
<1>1. pc["io"] = <<>> BY DEF Init, Threads
<1>2. \A l : ~In("io", l) BY <1>1, Idle
<1>3. AtFront(pc["io"], "read") /\ AtBack(pc["io"], "closed")
  BY <1>2 DEF AtFront, AtBack, In, Has
<1>4. stream = <<>> /\ peer = 0 /\ frames = <<>> /\ sk = "idle"
 <2>1. <<>> \o <<>> = <<>> OBVIOUS
 <2> QED BY <2>1 DEF Init, stream
<1>5. Len(<<>>) = 0 /\ DOMAIN <<>> = {} /\ 0 % 2 = 0 OBVIOUS
<1>6. Numbered(stream) /\ peer = Len(stream) /\ Len(frames) % 2 = 0
  BY <1>4, <1>5 DEF Numbered
<1> QED BY <1>2, <1>3, <1>4, <1>6 DEF PhasesInv, FlowInv

\* A connection breaks for good, and where the net has no errors it does not.
LEMMA BreaksForGood ==
  ASSUME Basics, [Next]_vars
  PROVE  /\ sk = "dead" => sk' = "dead"
         /\ sk' = "dead" => sk = "dead" \/ NetErrors # {}
<1> USE DEF client, entry, kernel, ghosts
<1>1. CASE ThreadStep("io") \/ ThreadStep("app")
 <2>1. PICK t \in Threads : ThreadStep(t) BY <1>1 DEF Threads
 <2> QED BY <2>1, SocketCalls DEF NotYet
<1>2. CASE RunTask \/ epoll_wait \/ TakeTasks
  BY <1>2 DEF RunTask, EnableTask, DisableTask, EnableTimerTask, DisableTimerTask,
     ArmTask, SendTaskQueues, Insert, SendTaskSends, epoll_wait, TakeTasks
<1>3. CASE NoHandler \/ SocketCb \/ TimerCb \/ StreamCb
  BY <1>3 DEF NoHandler, SocketCb, TimerCb, StreamCb, Event
<1>4. CASE Read \/ Write \/ PostUpdate \/ Error \/ Split \/ Closed
  BY <1>4 DEF Read, Write, PostUpdate, Error, Split, Closed
<1>5. CASE AppConnect \/ AppStop \/ AppStart \/ \E m \in Messages : PostSend(m)
  BY <1>5 DEF AppConnect, AppStop, AppStart, UserCall, PostSend
<1>6. CASE ConnectEnds \/ PeerSends \/ PeerCloses \/ Drain \/ Expire \/ UNCHANGED vars
  BY <1>6 DEF ConnectEnds, PeerSends, PeerCloses, Drain, Expire, Quietly, vars
<1>7. ASSUME NEW e \in NetErrors, Breaks(e) PROVE sk # "dead" /\ NetErrors # {}
  BY <1>7 DEF Breaks
<1> QED BY <1>1, <1>2, <1>3, <1>4, <1>5, <1>6, <1>7 DEF Next, IoStep

LEMMA FlowAlways == Spec => [](Basics /\ PhasesInv /\ (Unbroken => FlowInv))
<1> DEFINE Inv == Basics /\ PhasesInv /\ (Unbroken => FlowInv)
<1>1. Init => Inv BY BasicsInit, FlowInit
<1>2. Inv /\ [Next]_vars => Inv'
 <2> SUFFICES ASSUME Inv, [Next]_vars PROVE Inv' OBVIOUS
 <2>1. Basics' /\ PhasesInv' BY BasicsInductive, PhasesInductive DEF Basics
 <2>2. ASSUME sk' # "dead" PROVE FlowInv'
  <3>1. Unbroken BY <2>2, BreaksForGood DEF Unbroken
  <3> QED BY <2>2, <3>1, FlowInductive
 <2> QED BY <2>1, <2>2 DEF Unbroken
<1> QED BY <1>1, <1>2, PTL DEF Spec

LEMMA NeverBroken ==
  ASSUME NetErrors = {}
  PROVE  Spec => []Unbroken
<1>1. Init => Unbroken BY DEF Init, Unbroken
<1>2. Basics /\ Unbroken /\ [Next]_vars => Unbroken'
  BY BreaksForGood DEF Unbroken
<1> QED BY <1>1, <1>2, BasicsAlways, PTL DEF Spec

\* Until the connection breaks, the frames that on_fragment gets are the
\* peer's stream from its beginning, cut at the right places and without a
\* gap: whatever the application calls, on either thread, and however the
\* stream arrives.
THEOREM FramesAreCutRight == Spec => [](Unbroken => FramesAreWhole)
<1>1. Basics /\ FlowInv => FramesAreWhole
 <2> SUFFICES ASSUME Basics, FlowInv PROVE FramesAreWhole OBVIOUS
 <2>1. Numbered(frames) BY StreamTypes DEF Basics, FlowInv
 <2> QED BY <2>1 DEF Numbered, FramesAreWhole
<1> QED BY <1>1, FlowAlways, PTL

----------------------------------------
\* What a connection came to, and the peer's stream.

\* A step that keeps what is said about the latest attempt.
LEMMA OutcomeStays ==
  ASSUME OutcomeInv, outcome' = outcome, Gone => Gone', AtEnd => AtEnd',
         Ended => Gone \/ connected' = connected,
         \A t \in Threads :
           /\ In(t, "syscall")' => In(t, "syscall")
           /\ In(t, "disconnected")' \/ In(t, "refuse")' =>
                In(t, "disconnected") \/ In(t, "refuse") \/ (Ended => Gone)
           /\ In(t, "callback")' =>
                In(t, "callback") \/ In(t, "refuse") \/ (Ended => AtEnd'),
         In("io", "closed")' => Gone' \/ (sk' = "fin" /\ inbox' = <<>>)
  PROVE  OutcomeInv'
<1>1. (Ended' <=> Ended) /\ (Gone => AtEnd) /\ (Gone' => AtEnd')
  BY DEF Ended, AtEnd
<1>2. Ended' => connected' = "Connected" \/ Gone' BY <1>1 DEF OutcomeInv
<1>3. \A t \in Threads : In(t, "syscall")' => outcome' = "connecting"
  BY DEF OutcomeInv
<1>4. \A t \in Threads : In(t, "disconnected")' \/ In(t, "refuse")' => ~Ended' \/ Gone'
  BY <1>1 DEF OutcomeInv
<1>5. \A t \in Threads : In(t, "callback")' => ~Ended' \/ AtEnd'
  BY <1>1 DEF OutcomeInv
<1>6. outcome' = "closed" => AtEnd' BY DEF OutcomeInv
<1> QED BY <1>2, <1>3, <1>4, <1>5, <1>6 DEF OutcomeInv

\* The steps on a stack after an action.
LEMMA Afterwards ==
  ASSUME Types, NEW t \in Threads, pc[t] # <<>>, NEW steps \in Seq(Labels), Goto(t, steps),
         NEW u \in Threads, NEW l, In(u, l)'
  PROVE  Has(steps, l) \/ In(u, l)
<1>1. pc \in [Threads -> Seq(Labels)] BY DEF Types, LoopTypes
<1>2. CASE u = t BY <1>1, <1>2, GotoIs
<1>3. CASE u # t
 <2>1. pc'[u] = pc[u] BY <1>1, <1>3, GotoIs
 <2> QED BY <2>1 DEF In
<1> QED BY <1>2, <1>3

\* The steps of a call, as far as the outcome is concerned.
LEMMA OutcomeCalls ==
  ASSUME Basics, OutcomeInv, Orderly, NEW t \in Threads, ThreadStep(t)
  PROVE  OutcomeInv'
<1> USE DEF client, entry, kernel, ghosts
<1>1. Types /\ pc[t] # <<>> /\ UNCHANGED <<inbox, recv_buf, frames, peer>>
  BY CallFrame, CallSteps DEF Basics
<1>2. AllRead' <=> AllRead BY <1>1 DEF AllRead
<1>3. In("io", "closed")' => In("io", "closed")
 <2>1. CASE t = "io" BY <1>1, <2>1, CallSteps DEF OwnSteps
 <2>2. CASE t # "io"
  <3>1. pc'["io"] = pc["io"] BY <1>1, <2>2, CallSteps DEF Threads
  <3> QED BY <3>1 DEF In
 <2> QED BY <2>1, <2>2
<1>4. ASSUME NEW steps \in Seq(Labels), Goto(t, steps), UNCHANGED <<outcome, sk>>,
             connected' = connected \/ (Ended => Gone),
             ~Has(steps, "syscall"), ~Has(steps, "disconnected"), ~Has(steps, "refuse"),
             Has(steps, "callback") => In(t, "refuse")
      PROVE  OutcomeInv'
 <2>1. (Gone' <=> Gone) /\ (AtEnd' <=> AtEnd) BY <1>2, <1>4 DEF Gone, AtEnd
 <2>2. \A u \in Threads : \A l : In(u, l)' => Has(steps, l) \/ In(u, l)
   BY <1>1, <1>4, Afterwards
 <2>3. Has(steps, "callback") => (Ended => AtEnd')
   BY <1>4, <2>1 DEF OutcomeInv, AtEnd
 <2>4. In("io", "closed")' => Gone' \/ (sk' = "fin" /\ inbox' = <<>>)
   BY <1>1, <1>3, <1>4, <2>1 DEF OutcomeInv
 <2> QED BY <1>4, <2>1, <2>2, <2>3, <2>4, OutcomeStays
<1>5. ASSUME NEW l \in {"syscall", "disconnected", "refuse", "callback"}
      PROVE  /\ ~Has(<< >>, l) /\ ~Has(<<"test">>, l) /\ ~Has(<<"cas">>, l)
             /\ ~Has(<<"watch RE">>, l) /\ ~Has(<<"watch RWE">>, l)
             /\ ~Has(<<"stop post">>, l) /\ ~Has(<<"stop">>, l) /\ ~Has(<<"set">>, l)
             /\ \A k \in DOMAIN Stores : ~Has(<<k>>, l)
 <2>1. \A k \in DOMAIN Stores : k # l BY <1>5, UpdateLabels
 <2> QED BY <1>5, <2>1, WhatHas DEF UpdateSteps
<1>6. /\ \A l : Has(<<"syscall">>, l) <=> l = "syscall"
      /\ \A l : Has(<<"stop", "callback">>, l) <=> l \in {"stop", "callback"}
      /\ \A l : Has(<<"connected", "start">>, l) <=> l \in {"connected", "start"}
      /\ \A l : Has(InProgress, l) <=> l \in {"watch sock", "watch timer", "arm"}
      /\ \A l : Has(<<"refuse", "disconnected">>, l) <=> l \in {"refuse", "disconnected"}
      /\ \A l : Has(<<"fail", "disconnected">>, l) <=> l \in {"fail", "disconnected"}
  BY WhatHas
<1>7. CASE \/ ConnectIgnored(t) \/ WatchSock(t) \/ StoreTypes(t) \/ PostTimer(t) \/ Start(t)
           \/ SetStarted(t) \/ StartTest(t) \/ StartPost(t) \/ Stop(t) \/ StopPost(t)
 <2> DEFINE Few == {<<>>, <<"set">>, <<"test">>, <<"watch RE">>, <<"watch RWE">>,
                    <<"stop post">>} \cup {<<k>> : k \in DOMAIN Stores}
 <2>1. UNCHANGED <<outcome, sk, connected>> /\ \E steps \in Few : Goto(t, steps)
  <3>1. CASE ConnectIgnored(t) \/ StoreTypes(t) \/ PostTimer(t) \/ Start(t) \/ SetStarted(t)
    BY <3>1 DEF ConnectIgnored, StoreTypes, PostTimer, Start, SetStarted
  <3>2. CASE StartTest(t) \/ Stop(t) \/ StopPost(t)
    BY <3>2 DEF StartTest, Stop, StopPost
  <3>3. CASE WatchSock(t) \/ StartPost(t)
    BY <3>3, StoreSteps DEF WatchSock, StartPost
  <3> QED BY <1>7, <3>1, <3>2, <3>3
 <2>2. PICK steps \in Few : Goto(t, steps) BY <2>1
 <2>3. /\ steps \in Seq(Labels)
       /\ \A l \in {"syscall", "disconnected", "refuse", "callback"} : ~Has(steps, l)
   BY <1>5, <2>2, StepSequences, StoreSteps
 <2> QED BY <1>4, <2>1, <2>2, <2>3
<1>8. CASE SetDisconnected(t)
 <2>1. Goto(t, <<>>) /\ UNCHANGED <<outcome, sk>> /\ At(t, "disconnected")
   BY <1>8 DEF SetDisconnected
 <2>2. Ended => Gone BY <1>1, <2>1, HeadIn DEF OutcomeInv
 <2> QED BY <1>4, <1>5, <2>1, <2>2, StepSequences
<1>9. CASE OnError(t)
 <2>1. CASE At(t, "refuse") /\ Goto(t, <<"stop", "callback">>)
  <3>1. In(t, "refuse") /\ UNCHANGED <<outcome, sk, connected>>
    BY <1>1, <1>9, <2>1, HeadIn DEF OnError
  <3>2. <<"stop", "callback">> \in Seq(Labels) BY StepSequences
  <3>3. /\ ~Has(<<"stop", "callback">>, "syscall") /\ ~Has(<<"stop", "callback">>, "refuse")
        /\ ~Has(<<"stop", "callback">>, "disconnected")
    BY <1>6
  <3> QED BY <1>4, <2>1, <3>1, <3>2, <3>3
 <2>2. CASE Goto(t, <<"stop">>)
  <3>1. UNCHANGED <<outcome, sk, connected>> BY <1>9 DEF OnError
  <3> QED BY <1>4, <1>5, <2>2, <3>1, StepSequences
 <2> QED BY <1>9, <2>1, <2>2 DEF OnError
<1>10. ASSUME outcome' = "connecting", In("io", "closed")' => sk' = sk
       PROVE  OutcomeInv'
 <2>1. ~Ended' /\ outcome' # "closed" BY <1>10 DEF Ended
 <2>2. In("io", "closed")' => Gone' \/ (sk' = "fin" /\ inbox' = <<>>)
   BY <1>1, <1>3, <1>10 DEF OutcomeInv, Gone
 <2> QED BY <1>10, <2>1, <2>2 DEF OutcomeInv
<1>11. CASE ConnectBegins(t) BY <1>10, <1>11 DEF ConnectBegins
<1>12. CASE Syscall(t)
 <2>1. In(t, "syscall") /\ UNCHANGED <<outcome, connected>>
   BY <1>1, <1>12, HeadIn DEF Syscall
 <2>2. ~In("io", "closed") BY <2>1 DEF Orderly
 <2>3. outcome' = "connecting" BY <2>1 DEF OutcomeInv
 <2> QED BY <1>3, <1>10, <2>1, <2>2, <2>3
<1>13. CASE SetConnected(t)
 <2>1. /\ Goto(t, <<>>) /\ At(t, "connected") /\ connected' = "Connected"
       /\ outcome' = "connected" /\ sk' = sk
   BY <1>13 DEF SetConnected
 <2>2. \A u \in Threads : \A l : In(u, l)' => Has(<<>>, l) \/ In(u, l)
   BY <1>1, <2>1, Afterwards, StepSequences
 <2>3. \A u \in Threads : /\ ~In(u, "syscall")' /\ ~In(u, "disconnected")'
                          /\ ~In(u, "refuse")' /\ ~In(u, "callback")'
   BY <1>5, <2>1, <2>2 DEF Orderly
 <2>4. In("io", "closed")' => Gone' \/ (sk' = "fin" /\ inbox' = <<>>)
   BY <1>1, <1>3, <2>1 DEF OutcomeInv, Gone
 <2> QED BY <2>1, <2>3, <2>4 DEF OutcomeInv
<1>14. CASE Callback(t)
 <2>1. PICK steps \in {<<>>, <<"cas">>} : Goto(t, steps) BY <1>14 DEF Callback
 <2>2. /\ At(t, "callback") /\ In(t, "callback") /\ UNCHANGED <<connected, sk>>
       /\ outcome' = IF Ended THEN "closed" ELSE "error"
   BY <1>1, <1>14, HeadIn DEF Callback, Ended
 <2>3. steps \in Seq(Labels) /\ \A l \in {"syscall", "disconnected", "refuse", "callback"} : ~Has(steps, l)
   BY <1>5, <2>1, StepSequences
 <2>4. \A u \in Threads : \A l : In(u, l)' => Has(steps, l) \/ In(u, l)
   BY <1>1, <2>1, <2>3, Afterwards
 <2>5. (Gone' <=> Gone) /\ (AtEnd' <=> AtEnd) BY <1>2, <2>2 DEF Gone, AtEnd
 <2>6. (Ended' => Ended) /\ (outcome' = "closed" => Ended) BY <2>2 DEF Ended
 <2>7. \A u \in Threads : ~In(u, "syscall")' BY <2>2, <2>3, <2>4 DEF Orderly
 <2>8. Ended' => connected' = "Connected" \/ Gone'
   BY <2>2, <2>5, <2>6 DEF OutcomeInv
 <2>9. \A u \in Threads : In(u, "disconnected")' \/ In(u, "refuse")' => ~Ended' \/ Gone'
   BY <2>3, <2>4, <2>5, <2>6 DEF OutcomeInv
 <2>10. \A u \in Threads : In(u, "callback")' => ~Ended' \/ AtEnd'
   BY <2>3, <2>4, <2>5, <2>6 DEF OutcomeInv
 <2>11. In("io", "closed")' => Gone' \/ (sk' = "fin" /\ inbox' = <<>>)
   BY <1>1, <1>3, <2>2, <2>5 DEF OutcomeInv
 <2>12. outcome' = "closed" => AtEnd' BY <2>2, <2>5, <2>6 DEF OutcomeInv
 <2> QED BY <2>7, <2>8, <2>9, <2>10, <2>11, <2>12 DEF OutcomeInv
<1> QED BY <1>7, <1>8, <1>9, <1>11, <1>12, <1>13, <1>14 DEF ThreadStep

\* The phases of the stream callback.
LEMMA OutcomePhases ==
  ASSUME Basics, PhasesInv, FlowInv, OutcomeInv,
         Read \/ Write \/ PostUpdate \/ Error \/ Split \/ Closed
  PROVE  OutcomeInv'
<1> USE DEF client, entry, kernel, ghosts
<1>1. /\ Types /\ ErrorInv /\ pc["io"] # <<>> /\ sk \in SkStates /\ sk # "dead"
      /\ pc \in [Threads -> Seq(Labels)] /\ "io" \in Threads
      /\ UNCHANGED <<connected, outcome, sk>> /\ inbox' \in {inbox, <<>>}
  BY DEF Basics, Types, LoopTypes, KernelTypes, Threads, FlowInv,
     Read, Write, PostUpdate, Error, Split, Closed, At
<1>2. AllRead => AllRead'
 <2>1. CASE Read \/ Split BY <1>1, <2>1, FlowRead, FlowSplit
 <2>2. CASE Write \/ PostUpdate \/ Error \/ Closed
  <3>1. UNCHANGED <<inbox, frames, peer>> /\ recv_buf' \in {recv_buf, <<>>}
    BY <2>2 DEF Write, PostUpdate, Error, Closed
  <3> QED BY <3>1 DEF AllRead
 <2> QED BY <2>1, <2>2
<1>3. (Gone' <=> Gone) /\ (AtEnd => AtEnd') BY <1>1, <1>2 DEF Gone, AtEnd
<1>4. (sk = "fin" /\ inbox = <<>>) => (sk' = "fin" /\ inbox' = <<>>) BY <1>1
<1>5. ASSUME NEW steps \in Seq(Labels), Goto("io", steps),
             ~Has(steps, "syscall"), ~Has(steps, "disconnected"), ~Has(steps, "closed"),
             Has(steps, "refuse") => (Ended => Gone),
             Has(steps, "callback") => (Ended => AtEnd')
      PROVE  OutcomeInv'
 <2>1. \A u \in Threads : \A l : In(u, l)' => Has(steps, l) \/ In(u, l)
   BY <1>1, <1>5, Afterwards
 <2>2. In("io", "closed")' => Gone' \/ (sk' = "fin" /\ inbox' = <<>>)
   BY <1>1, <1>3, <1>4, <1>5, <2>1 DEF OutcomeInv
 <2> QED BY <1>1, <1>3, <1>5, <2>1, <2>2, OutcomeStays
<1>6. ASSUME NEW steps \in ShortSteps, Goto("io", steps), Has(steps, "refuse") => Gone
      PROVE  OutcomeInv'
 <2>1. /\ steps \in Seq(Labels)
       /\ \A l \in {"syscall", "disconnected", "closed", "callback"} : ~Has(steps, l)
   BY ShortHas, UpdateStepsAre
 <2> QED BY <1>5, <1>6, <2>1
<1>13. << >> \in ShortSteps /\ ~Has(<< >>, "refuse")
       /\ \A l \in UpdateSteps : <<l>> \in ShortSteps /\ ~Has(<<l>>, "refuse")
  BY WhatHas, UpdateStepsAre DEF ShortSteps
<1>7. ASSUME Disconnected, Gone \/ (sk' = "fin" /\ inbox' = <<>>) PROVE OutcomeInv'
 <2>1. \A l : In("io", l)' => l = "closed" \/ In("io", l)
   BY <1>1, <1>7, DisconnectedIs
 <2>2. pc'["app"] = pc["app"] BY <1>1, <1>7, DisconnectedIs
 <2>3. \A u \in Threads : \A l : In(u, l)' => l = "closed" \/ In(u, l)
  <3>1. ASSUME NEW u \in Threads, NEW l, In(u, l)' PROVE l = "closed" \/ In(u, l)
   <4>1. CASE u = "io" BY <2>1, <3>1, <4>1
   <4>2. CASE u = "app" BY <2>2, <3>1, <4>2 DEF In
   <4> QED BY <4>1, <4>2 DEF Threads
  <3> QED BY <3>1
 <2>4. \A u \in Threads :
         /\ In(u, "syscall")' => In(u, "syscall")
         /\ In(u, "disconnected")' => In(u, "disconnected")
         /\ In(u, "refuse")' => In(u, "refuse")
         /\ In(u, "callback")' => In(u, "callback")
  <3>1. "syscall" # "closed" /\ "disconnected" # "closed" /\ "refuse" # "closed"
        /\ "callback" # "closed"
    OBVIOUS
  <3> QED BY <2>3, <3>1
 <2> QED BY <1>1, <1>3, <1>7, <2>4, OutcomeStays
<1>8. CASE Read
 <2>1. CASE Goto("io", <<>>) BY <1>6, <1>13, <2>1
 <2>2. CASE EndOfStream /\ Disconnected
  <3>1. Gone \/ (sk' = "fin" /\ inbox' = <<>>)
    BY <1>1, <1>8, <2>2 DEF Read, EndOfStream, Gone
  <3> QED BY <1>7, <2>2, <3>1
 <2> QED BY <1>8, <2>1, <2>2 DEF Read
<1>9. CASE Write
 <2>1. CASE Goto("io", <<>>) \/ \E l \in UpdateSteps : Goto("io", <<l>>)
   BY <1>6, <1>13, <2>1
 <2>2. CASE ~Sending /\ Disconnected
  <3>1. Gone BY <1>1, <2>2 DEF Sending, Gone, SkStates
  <3> QED BY <1>7, <2>2, <3>1
 <2> QED BY <1>1, <1>9, <2>1, <2>2, WriteGoes DEF UpdateSteps
<1>14. CASE PostUpdate BY <1>6, <1>13, <1>14, PostIs DEF UpdateSteps
<1>10. CASE Error
 <2>1. CASE Goto("io", <<>>) BY <1>6, <1>13, <2>1
 <2>2. CASE err \notin {"none", "reset"} /\ Goto("io", <<"refuse">>)
  <3>1. Gone BY <1>1, <2>2 DEF ErrorInv, Gone
  <3> QED BY <1>6, <2>2, <3>1 DEF ShortSteps
 <2> QED BY <1>10, <2>1, <2>2 DEF Error
<1>11. CASE Split BY <1>6, <1>11, <1>13 DEF Split
<1>12. CASE Closed
 <2>1. Goto("io", <<"stop", "callback">>) /\ At("io", "closed") /\ inbox' = inbox
   BY <1>12 DEF Closed
 <2>2. Gone \/ (sk = "fin" /\ inbox = <<>>) BY <1>1, <2>1, HeadIn DEF OutcomeInv
 <2>3. AtEnd' BY <1>1, <1>3, <1>12, <2>2, ClosedAtEnd DEF AtEnd
 <2>4. /\ <<"stop", "callback">> \in Seq(Labels)
       /\ \A l : Has(<<"stop", "callback">>, l) <=> l \in {"stop", "callback"}
   BY StepSequences, WhatHas
 <2>5. /\ ~Has(<<"stop", "callback">>, "syscall") /\ ~Has(<<"stop", "callback">>, "refuse")
       /\ ~Has(<<"stop", "callback">>, "disconnected")
       /\ ~Has(<<"stop", "callback">>, "closed")
   BY <2>4
 <2> QED BY <1>5, <2>1, <2>3, <2>4, <2>5
<1> QED BY <1>8, <1>9, <1>10, <1>11, <1>12, <1>14

LEMMA OutcomeInductive ==
  ASSUME Basics, PhasesInv, FlowInv, Orderly, OutcomeInv, [Next]_vars, sk' # "dead"
  PROVE  OutcomeInv'
<1> USE DEF client, entry, kernel, ghosts
<1>1. /\ Types /\ ErrorInv /\ pc \in [Threads -> Seq(Labels)]
      /\ "io" \in Threads /\ "app" \in Threads /\ sk # "dead"
  BY DEF Basics, Types, LoopTypes, Threads, FlowInv
<1>2. CASE ThreadStep("io") \/ ThreadStep("app") BY <1>1, <1>2, OutcomeCalls
<1>3. CASE Read \/ Write \/ PostUpdate \/ Error \/ Split \/ Closed
  BY <1>3, OutcomePhases
<1>4. ASSUME UNCHANGED <<connected, outcome, frames, recv_buf, inbox, peer>>,
             sk' = sk \/ sk \in {"connecting", "established"},
             \A u \in Threads : \A l \in {"syscall", "disconnected", "refuse", "callback", "closed"} :
               In(u, l)' => In(u, l) \/ (l \in {"disconnected", "refuse"} /\ (Ended => Gone))
      PROVE  OutcomeInv'
 <2>1. (Gone => Gone') /\ (AtEnd => AtEnd') BY <1>4 DEF Gone, AtEnd, AllRead
 <2>2. In("io", "closed")' => In("io", "closed") BY <1>1, <1>4
 <2>3. In("io", "closed")' => Gone' \/ (sk' = "fin" /\ inbox' = <<>>)
   BY <1>4, <2>1, <2>2 DEF OutcomeInv, Gone
 <2>4. \A u \in Threads :
          /\ In(u, "syscall")' => In(u, "syscall")
          /\ In(u, "disconnected")' => In(u, "disconnected") \/ (Ended => Gone)
          /\ In(u, "refuse")' => In(u, "refuse") \/ (Ended => Gone)
          /\ In(u, "callback")' => In(u, "callback")
   BY <1>4
 <2> QED BY <1>4, <2>1, <2>3, <2>4, OutcomeStays
<1>5. ASSUME pc' = pc PROVE \A u \in Threads : \A l : In(u, l)' => In(u, l)
  BY <1>5 DEF In
<1>6. CASE \/ EnableTask \/ DisableTask \/ EnableTimerTask \/ DisableTimerTask
           \/ ArmTask \/ epoll_wait \/ TakeTasks \/ NoHandler
           \/ ConnectEnds \/ PeerCloses \/ Drain \/ Expire
           \/ UNCHANGED vars
 <2>1. /\ UNCHANGED <<connected, outcome, frames, recv_buf, inbox, peer, pc>>
       /\ sk' = sk \/ sk \in {"connecting", "established"}
   BY <1>6 DEF EnableTask, DisableTask, EnableTimerTask, DisableTimerTask,
      ArmTask, epoll_wait, TakeTasks, NoHandler, ConnectEnds, PeerCloses,
      Drain, Expire, Quietly, vars
 <2> QED BY <1>4, <1>5, <2>1
<1>7. CASE PeerSends
 <2>1. UNCHANGED <<connected, outcome, sk, pc>> /\ sk = "established"
   BY <1>7 DEF PeerSends, Quietly
 <2>2. ~AtEnd /\ ~Gone BY <2>1 DEF AtEnd, Gone
 <2>3. ~In("io", "closed")'
  <3>1. sk # "fin" BY <2>1
  <3>2. ~In("io", "closed") BY <2>2, <3>1 DEF OutcomeInv
  <3> QED BY <1>1, <1>5, <2>1, <3>2
 <2> QED BY <1>5, <2>1, <2>2, <2>3, OutcomeStays
<1>8. ASSUME NEW q, pc' = [pc EXCEPT !["io"] = q],
             UNCHANGED <<connected, outcome, frames, recv_buf, inbox, peer, sk>>,
             \A l \in {"syscall", "callback", "closed"} : ~Has(q, l),
             Has(q, "disconnected") \/ Has(q, "refuse") => (Ended => Gone)
      PROVE  OutcomeInv'
 <2>1. pc'["io"] = q /\ pc'["app"] = pc["app"] BY <1>1, <1>8
 <2>2. ASSUME NEW u \in Threads,
              NEW l \in {"syscall", "disconnected", "refuse", "callback", "closed"}, In(u, l)'
       PROVE  In(u, l) \/ (l \in {"disconnected", "refuse"} /\ (Ended => Gone))
  <3>1. CASE u = "io" BY <1>8, <2>1, <2>2, <3>1 DEF In
  <3>2. CASE u = "app" BY <2>1, <2>2, <3>2 DEF In
  <3> QED BY <3>1, <3>2 DEF Threads
 <2> QED BY <1>4, <1>8, <2>2
<1>9. CASE SendTaskQueues
 <2>1. \A l : Has(<<"insert">>, l) <=> l = "insert" BY WhatHas
 <2>2. /\ pc' = [pc EXCEPT !["io"] = <<"insert">>]
       /\ UNCHANGED <<connected, outcome, frames, recv_buf, inbox, peer, sk>>
   BY <1>9 DEF SendTaskQueues
 <2> QED BY <1>8, <2>1, <2>2
<1>15. CASE SendTaskSends
 <2>1. PICK steps \in ShortSteps : pc' = [pc EXCEPT !["io"] = steps] /\ ~Has(steps, "refuse")
  <3>1. ~Has(<< >>, "refuse") /\ \A l \in DOMAIN Updates : ~Has(<<l>>, "refuse")
    BY WhatHas, UpdateLabels DEF UpdateSteps
  <3> QED BY <1>1, <1>15, <3>1, SendGoes DEF ShortSteps, UpdateSteps
 <2>2. \A l \in {"syscall", "callback", "closed", "disconnected", "refuse"} : ~Has(steps, l)
   BY <2>1, ShortHas, UpdateStepsAre
 <2>3. UNCHANGED <<connected, outcome, frames, recv_buf, inbox, peer, sk>>
   BY <1>15 DEF SendTaskSends
 <2> QED BY <1>8, <2>1, <2>2, <2>3
<1>10. CASE Insert
 <2>1. /\ pc["io"] # <<>> /\ Goto("io", <<>>)
       /\ UNCHANGED <<connected, outcome, frames, recv_buf, inbox, peer, sk>>
   BY <1>10 DEF Insert, At
 <2>2. \A u \in Threads : \A l : In(u, l)' => Has(<<>>, l) \/ In(u, l)
   BY <1>1, <2>1, StepSequences, Afterwards
 <2>3. \A l : ~Has(<<>>, l) BY WhatHas
 <2> QED BY <1>4, <2>1, <2>2, <2>3
<1>11. CASE SocketCb \/ TimerCb
 <2>1. /\ \A l : Has(Failure, l) <=> l \in {"disconnected", "unwatch timer", "refuse"}
       /\ \A l : Has(Success, l) <=> l \in {"connected", "unwatch timer", "start"}
       /\ \A l : Has(<<"unwatch timer">>, l) <=> l = "unwatch timer"
   BY WhatHas
 <2>2. UNCHANGED <<connected, outcome, frames, recv_buf, inbox, peer, sk>>
   BY <1>11 DEF SocketCb, TimerCb
 <2>3. PICK q : /\ q \in {Success, <<"unwatch timer">>} \/ (q = Failure /\ (Ended => Gone))
                /\ pc' = [pc EXCEPT !["io"] = q]
  <3>1. CASE SocketCb
   <4>1. err # "none" => Gone BY <1>1 DEF ErrorInv, Gone
   <4> QED BY <3>1, <4>1 DEF SocketCb, Attempt
  <3>2. CASE TimerCb
   <4>1. connected # "Connected" => (Ended => Gone) BY DEF OutcomeInv
   <4> QED BY <3>2, <4>1 DEF TimerCb
  <3> QED BY <1>11, <3>1, <3>2
 <2>4. CASE q = Failure BY <1>8, <2>1, <2>2, <2>3, <2>4
 <2>5. CASE q = Success BY <1>8, <2>1, <2>2, <2>3, <2>5
 <2>6. CASE q = <<"unwatch timer">> BY <1>8, <2>1, <2>2, <2>3, <2>6
 <2> QED BY <2>3, <2>4, <2>5, <2>6
<1>12. CASE StreamCb
 <2>1. /\ pc' = [pc EXCEPT !["io"] = Phases(Head(evs).types)]
       /\ UNCHANGED <<connected, outcome, frames, recv_buf, inbox, peer, sk>>
   BY <1>12 DEF StreamCb, Phases
 <2>2. \A l : Has(Phases(Head(evs).types), l) => l \in {"read", "write", "error", "split"}
   BY PhasesAre
 <2>3. PICK q : q = Phases(Head(evs).types) OBVIOUS
 <2>4. \A l \in {"syscall", "callback", "closed", "disconnected", "refuse"} : ~Has(q, l)
   BY <2>2, <2>3
 <2> QED BY <1>8, <2>1, <2>3, <2>4
<1>13. CASE AppConnect \/ AppStop \/ AppStart \/ \E m \in Messages : PostSend(m)
 <2>1. UNCHANGED <<connected, outcome, frames, recv_buf, inbox, peer, sk>>
   BY <1>13 DEF AppConnect, AppStop, AppStart, UserCall, PostSend
 <2>2. PICK q : pc' = pc \/ (pc' = [pc EXCEPT !["app"] = q] /\ q \in {<<"cas">>, <<"stop">>, <<"start">>})
   BY <1>13 DEF AppConnect, AppStop, AppStart, UserCall, PostSend
 <2>3. \A l \in {"syscall", "disconnected", "refuse", "callback", "closed"} :
         ~Has(<<"cas">>, l) /\ ~Has(<<"stop">>, l) /\ ~Has(<<"start">>, l)
   BY WhatHas
 <2>4. CASE pc' = pc BY <1>4, <1>5, <2>1, <2>4
 <2>5. CASE pc' = [pc EXCEPT !["app"] = q] /\ q \in {<<"cas">>, <<"stop">>, <<"start">>}
  <3>1. pc'["app"] = q /\ pc'["io"] = pc["io"] BY <1>1, <2>5
  <3>2. ASSUME NEW u \in Threads,
               NEW l \in {"syscall", "disconnected", "refuse", "callback", "closed"}, In(u, l)'
        PROVE  In(u, l)
   <4>1. CASE u = "app" BY <2>3, <2>5, <3>1, <3>2, <4>1 DEF In
   <4>2. CASE u = "io" BY <3>1, <3>2, <4>2 DEF In
   <4> QED BY <4>1, <4>2 DEF Threads
  <3> QED BY <1>4, <2>1, <3>2
 <2> QED BY <2>2, <2>4, <2>5
<1>14. ~\E e \in NetErrors : Breaks(e) BY DEF Breaks
<1> QED
  BY <1>2, <1>3, <1>6, <1>7, <1>9, <1>10, <1>11, <1>12, <1>13, <1>14, <1>15
     DEF Next, IoStep, RunTask

LEMMA OutcomeInit == Init => OutcomeInv
<1> SUFFICES ASSUME Init PROVE OutcomeInv OBVIOUS
<1>1. outcome = "none" /\ \A t \in Threads : pc[t] = <<>> BY DEF Init
<1>2. \A t \in Threads : \A l : ~In(t, l) BY <1>1 DEF In, Has
<1>3. "io" \in Threads BY DEF Threads
<1> QED BY <1>1, <1>2, <1>3 DEF OutcomeInv, Ended

LEMMA StagesInductive ==
  ASSUME Types, InsertInv, StageInv, [Next]_vars
  PROVE  StageInv'
<1> USE DEF client, entry, kernel, ghosts
<1>1. Stages \subseteq OwnSteps /\ "insert" \notin Stages /\ {"closed", "write"} \subseteq Stages
  BY DEF Stages, OwnSteps
<1>2. pc \in [Threads -> Seq(Labels)] /\ "io" \in Threads /\ "app" \in Threads
  BY DEF Types, LoopTypes, Threads
<1>13. \A l \in Stages : l \notin {"refuse"} \cup UpdateSteps
  BY UpdateStepsAre DEF Stages
<1>3. ASSUME UNCHANGED <<cb, exe>>, \A l \in Stages : In("io", l)' => \E k \in Stages : In("io", k)
      PROVE  StageInv'
  BY <1>3 DEF StageInv
<1>4. ASSUME \A l \in Stages : ~In("io", l)' PROVE StageInv'
  BY <1>4 DEF StageInv
<1>5. CASE ThreadStep("io") \/ ThreadStep("app")
 <2>1. PICK t \in Threads : ThreadStep(t) BY <1>2, <1>5
 <2>2. UNCHANGED <<cb, exe>> BY <2>1, CallFrame
 <2>3. \A l \in OwnSteps : In("io", l)' => In("io", l)
  <3>1. CASE t = "io" BY <2>1, <3>1, CallSteps
  <3>2. CASE t # "io"
   <4>1. pc'["io"] = pc["io"] BY <1>2, <2>1, <3>2, CallSteps
   <4> QED BY <4>1 DEF In
  <3> QED BY <3>1, <3>2
 <2> QED BY <1>1, <1>3, <2>2, <2>3
<1>6. CASE RunTask
 <2>1. CASE Insert
  <3>1. /\ pc["io"] # <<>> /\ Goto("io", <<>>) /\ pc["io"] = <<"insert">>
        /\ Head(pc["io"]) = "insert"
    BY <1>2, <2>1, HeadIn DEF Insert, InsertInv, At
  <3>2. \A l : In("io", l)' => Has(<<>>, l) \/ In("io", l)
    BY <1>2, <3>1, StepSequences, GotoIs
  <3>3. \A l : ~Has(<<>>, l) BY WhatHas
  <3>4. \A l : Has(<<"insert">>, l) <=> l = "insert" BY WhatHas
  <3> QED BY <1>1, <1>4, <3>1, <3>2, <3>3, <3>4 DEF In
 <2>2. CASE SendTaskQueues
  <3>1. \A l : Has(<<"insert">>, l) <=> l = "insert" BY WhatHas
  <3>2. pc'["io"] = <<"insert">> BY <1>2, <2>2 DEF SendTaskQueues
  <3> QED BY <1>1, <1>4, <3>1, <3>2 DEF In
 <2>3. CASE \/ EnableTask \/ DisableTask \/ EnableTimerTask \/ DisableTimerTask
            \/ ArmTask
  <3>1. pc["io"] = <<>> /\ pc' = pc
    BY <2>3 DEF EnableTask, DisableTask, EnableTimerTask, DisableTimerTask,
       ArmTask, Running
  <3>2. \A l : ~In("io", l)' BY <3>1 DEF In, Has
  <3> QED BY <1>4, <3>2
 <2>4. CASE SendTaskSends
  <3>1. PICK steps \in ShortSteps : pc' = [pc EXCEPT !["io"] = steps]
    BY <2>4, SendGoes DEF ShortSteps, UpdateSteps
  <3>2. \A l : Has(steps, l) => l \in {"refuse"} \cup UpdateSteps
    BY ONLY <3>1, ShortHas
  <3>3. pc'["io"] = steps BY <1>2, <3>1
  <3> QED BY <1>4, <1>13, <3>2, <3>3 DEF In
 <2> QED BY <1>6, <2>1, <2>2, <2>3, <2>4 DEF RunTask
<1>7. CASE epoll_wait \/ TakeTasks \/ NoHandler
 <2>1. pc["io"] = <<>> /\ pc' = pc
   BY <1>7 DEF epoll_wait, TakeTasks, NoHandler, Event
 <2>2. \A l : ~In("io", l)' BY <2>1 DEF In, Has
 <2> QED BY <1>4, <2>2
<1>8. CASE SocketCb \/ TimerCb
 <2>1. \A l \in Stages : ~Has(Failure, l) /\ ~Has(Success, l) /\ ~Has(<<"unwatch timer">>, l)
   BY WhatHas DEF Stages
 <2>2. PICK q : /\ q \in {Success, Failure, <<"unwatch timer">>}
                /\ pc' = [pc EXCEPT !["io"] = q]
   BY <1>8 DEF SocketCb, TimerCb, Attempt
 <2>3. pc'["io"] = q BY <1>2, <2>2
 <2> QED BY <1>4, <2>1, <2>2, <2>3 DEF In
<1>9. CASE StreamCb BY <1>9 DEF StreamCb, Event, StageInv
<1>10. CASE Read \/ Write \/ Error \/ Split \/ Closed
 <2>1. pc["io"] # <<>> /\ UNCHANGED <<cb, exe>> /\ \E k \in Stages : At("io", k)
   BY <1>10 DEF Read, Write, Error, Split, Closed, At, Stages
 <2>2. \E k \in Stages : In("io", k) BY <1>2, <2>1, HeadIn
 <2> QED BY <1>3, <2>1, <2>2
<1>14. CASE PostUpdate
 <2>1. PICK steps \in ShortSteps : Goto("io", steps)
   BY <1>14, PostIs DEF ShortSteps, UpdateSteps
 <2>2. pc["io"] # << >> /\ UNCHANGED <<cb, exe>> BY <1>14 DEF PostUpdate, At
 <2>3. steps \in Seq(Labels) /\ \A l \in Stages : ~Has(steps, l)
   BY ONLY <1>13, <2>1, ShortHas
 <2>4. \A l : In("io", l)' => Has(steps, l) \/ In("io", l)
   BY <1>2, <2>1, <2>2, <2>3, GotoIs
 <2> QED BY <1>3, <2>2, <2>3, <2>4
<1>11. CASE AppConnect \/ AppStop \/ AppStart \/ \E m \in Messages : PostSend(m)
 <2>1. /\ pc' = pc \/ \E steps : pc' = [pc EXCEPT !["app"] = steps]
       /\ UNCHANGED <<cb, exe>>
   BY <1>11 DEF AppConnect, AppStop, AppStart, UserCall, PostSend
 <2>2. pc'["io"] = pc["io"] BY <1>2, <2>1
 <2> QED BY <1>3, <2>1, <2>2 DEF In
<1>12. CASE ConnectEnds \/ PeerSends \/ PeerCloses \/ Drain \/ Expire
            \/ (\E e \in NetErrors : Breaks(e)) \/ UNCHANGED vars
 <2>1. UNCHANGED <<cb, exe, pc>>
   BY <1>12 DEF ConnectEnds, PeerSends, PeerCloses, Drain, Expire, Breaks, Quietly, vars
 <2> QED BY <1>3, <2>1 DEF In
<1> QED
  BY <1>5, <1>6, <1>7, <1>8, <1>9, <1>10, <1>11, <1>12, <1>14 DEF Next, IoStep

LEMMA StagesInit == Init => StageInv
<1> SUFFICES ASSUME Init PROVE StageInv OBVIOUS
<1>1. pc["io"] = <<>> BY DEF Init, Threads
<1> QED BY <1>1, Idle DEF StageInv

\* The steps of a call over TCP.
LEMMA TcpCallsOn ==
  ASSUME Tcp, NEW t \in Threads, ThreadStep(t)
  PROVE  \E steps \in Seq(Labels) : Goto(t, steps) /\ ~Has(steps, "connected")
<1> DEFINE Steps == {<< >>, <<"syscall">>, InProgress, <<"refuse", "disconnected">>,
                     <<"fail", "disconnected">>, <<"test">>, <<"watch RE">>, <<"watch RWE">>,
                     <<"stop post">>, <<"stop">>, <<"stop", "callback">>, <<"cas">>,
                     <<"set">>} \cup {<<k>> : k \in DOMAIN Stores}
<1>1. Steps \subseteq Seq(Labels) BY StepSequences, StoreSteps
<1>2. \A steps \in Steps : ~Has(steps, "connected")
 <2>1. /\ ~Has(<< >>, "connected") /\ ~Has(<<"syscall">>, "connected")
       /\ ~Has(<<"test">>, "connected") /\ ~Has(<<"watch RE">>, "connected")
       /\ ~Has(<<"watch RWE">>, "connected") /\ ~Has(<<"stop post">>, "connected")
       /\ ~Has(<<"stop">>, "connected") /\ ~Has(<<"cas">>, "connected")
   BY WhatHas
 <2>2. /\ ~Has(InProgress, "connected") /\ ~Has(<<"refuse", "disconnected">>, "connected")
       /\ ~Has(<<"fail", "disconnected">>, "connected")
       /\ ~Has(<<"stop", "callback">>, "connected")
   BY WhatHas
 <2>3. \A k \in DOMAIN Stores : ~Has(<<k>>, "connected")
   BY WhatHas, UpdateLabels DEF UpdateSteps
 <2>4. ~Has(<<"set">>, "connected") BY WhatHas
 <2> QED BY <2>1, <2>2, <2>3, <2>4
<1>3. \E steps \in Steps : Goto(t, steps)
 <2>1. CASE \/ ConnectIgnored(t) \/ ConnectBegins(t) \/ SetConnected(t)
            \/ SetDisconnected(t) \/ PostTimer(t) \/ StoreTypes(t)
   BY <2>1 DEF ConnectIgnored, ConnectBegins, SetConnected, SetDisconnected,
      PostTimer, StoreTypes
 <2>2. CASE Start(t) \/ SetStarted(t) \/ StartTest(t) \/ Stop(t) \/ StopPost(t)
   BY <2>2 DEF Start, SetStarted, StartTest, Stop, StopPost
 <2>5. CASE StartPost(t) \/ WatchSock(t)
   BY <2>5, StoreSteps DEF StartPost, WatchSock
 <2>3. CASE OnError(t) \/ Callback(t) BY <2>3 DEF OnError, Callback
 <2>4. CASE Syscall(t) BY <2>4 DEF Syscall, Tcp
 <2> QED BY <2>1, <2>2, <2>3, <2>4, <2>5 DEF ThreadStep
<1> QED BY <1>1, <1>2, <1>3

LEMMA SuccessInductive ==
  ASSUME Tcp, Types, SuccessInv, [Next]_vars
  PROVE  SuccessInv'
<1> USE DEF client, entry, kernel, ghosts
<1>1. pc \in [Threads -> Seq(Labels)] /\ "io" \in Threads /\ "app" \in Threads
  BY DEF Types, LoopTypes, Threads
<1>15. "connected" \notin {"refuse"} \cup UpdateSteps BY UpdateStepsAre
<1>2. CASE pc'["io"] = pc["io"] BY <1>2 DEF SuccessInv, In
<1>3. ASSUME pc["io"] # <<>>, NEW steps \in Seq(Labels), Goto("io", steps),
             ~Has(steps, "connected"), ~At("io", "connected")
      PROVE  ~In("io", "connected")'
 <2>1. In("io", "connected")' => In("io", "connected") BY <1>1, <1>3, GotoIs
 <2>2. Head(Success) = "connected" BY DEF Success
 <2> QED BY <1>3, <2>1, <2>2 DEF SuccessInv, At
<1>4. CASE ThreadStep("io")
 <2>1. CASE At("io", "connected")
  <3>1. pc["io"] = Success BY <1>1, <2>1, HeadIn DEF SuccessInv
  <3>2. Goto("io", <<>>)
   <4>1. SetConnected("io")
     BY <1>4, <2>1, UpdateLabels DEF At, ThreadStep, ConnectIgnored, ConnectBegins,
        Syscall, SetDisconnected, WatchSock, StoreTypes, PostTimer, Start, SetStarted,
        StartTest, StartPost, Stop, StopPost, OnError, Callback
   <4> QED BY <4>1 DEF SetConnected
  <3>3. pc'["io"] = <<>> \o Tail(Success) BY <1>1, <3>1, <3>2 DEF Goto
  <3>4. Success \in Starts /\ Head(Success) = "connected" BY DEF Starts, Success
  <3>5. pc'["io"] = <<"unwatch timer", "start">> BY <3>3, <3>4, StartStacks
  <3>6. ~Has(<<"unwatch timer", "start">>, "connected")
   <4>1. PICK a, b \in Labels : a = "unwatch timer" /\ b = "start" BY DEF Labels
   <4>2. \A l : Has(<<a, b>>, l) <=> l \in {a, b} BY FewSteps
   <4>3. "connected" # a /\ "connected" # b BY <4>1
   <4>4. ~Has(<<a, b>>, "connected") BY <4>2, <4>3
   <4> QED BY <4>1, <4>4
  <3> QED BY <3>5, <3>6 DEF SuccessInv, In
 <2>2. CASE ~At("io", "connected")
  <3>1. PICK steps \in Seq(Labels) : Goto("io", steps) /\ ~Has(steps, "connected")
    BY <1>1, <1>4, TcpCallsOn
  <3>2. pc["io"] # <<>> BY <1>1, <1>4, CallSteps
  <3> QED BY <1>3, <2>2, <3>1, <3>2 DEF SuccessInv
 <2> QED BY <2>1, <2>2
<1>5. CASE ThreadStep("app") BY <1>1, <1>2, <1>5, CallSteps
<1>6. CASE SendTaskQueues \/ SocketCb \/ TimerCb \/ StreamCb
 <2>1. PICK q : /\ pc' = [pc EXCEPT !["io"] = q]
                /\ \/ q \in {<<"insert">>, Success, Failure, <<"unwatch timer">>}
                   \/ \E types : q = Phases(types)
   BY <1>6 DEF SendTaskQueues, SocketCb, TimerCb, StreamCb, Attempt, Phases
 <2>2. q = Success \/ ~Has(q, "connected")
  <3>1. ~Has(<<"insert">>, "connected") /\ ~Has(<<"unwatch timer">>, "connected")
    BY WhatHas
  <3>2. ~Has(Failure, "connected") BY WhatHas
  <3>3. \A types : ~Has(Phases(types), "connected") BY PhasesAre
  <3> QED BY <2>1, <3>1, <3>2, <3>3
 <2>3. pc'["io"] = q BY <1>1, <2>1
 <2> QED BY <2>2, <2>3 DEF SuccessInv, In
<1>7. CASE Read \/ Write \/ Error \/ Split \/ Closed \/ Insert \/ PostUpdate
 <2>1. /\ pc["io"] # <<>> /\ ~At("io", "connected")
       /\ \/ Disconnected
          \/ \E steps \in ShortSteps \cup {<<"stop", "callback">>} : Goto("io", steps)
  <3>1. CASE Read \/ Error \/ Split \/ Closed \/ Insert
    BY <3>1 DEF Read, Error, Split, Closed, Insert, At, ShortSteps
  <3>2. CASE Write BY <3>2, WriteGoes DEF At, ShortSteps, UpdateSteps
  <3>3. CASE PostUpdate
    BY <3>3, PostIs, UpdateLabels DEF At, ShortSteps, UpdateSteps
  <3> QED BY <1>7, <3>1, <3>2, <3>3
 <2>2. CASE Disconnected
  <3>1. In("io", "connected")' => In("io", "connected")
   <4>1. \A l : In("io", l)' => l = "closed" \/ In("io", l)
     BY <1>1, <2>1, <2>2, DisconnectedIs
   <4> QED BY <4>1
  <3>2. Head(Success) = "connected" BY DEF Success
  <3>3. ~In("io", "connected") BY <2>1, <3>2 DEF SuccessInv, At
  <3> QED BY <3>1, <3>3 DEF SuccessInv
 <2>3. ASSUME NEW steps \in ShortSteps \cup {<<"stop", "callback">>}, Goto("io", steps)
       PROVE  SuccessInv'
  <3>2. steps \in Seq(Labels) /\ ~Has(steps, "connected")
   <4>1. CASE steps \in ShortSteps BY ONLY <1>15, <4>1, ShortHas
   <4>2. CASE steps = <<"stop", "callback">>
     BY ONLY <4>2, StepSequences, WhatHas
   <4> QED BY <2>3, <4>1, <4>2
  <3> QED BY <1>3, <2>1, <2>3, <3>2 DEF SuccessInv
 <2> QED BY <2>1, <2>2, <2>3
<1>8. CASE \/ EnableTask \/ DisableTask \/ EnableTimerTask \/ DisableTimerTask
           \/ ArmTask \/ epoll_wait \/ TakeTasks \/ NoHandler
           \/ ConnectEnds \/ PeerSends \/ PeerCloses \/ Drain \/ Expire
           \/ (\E e \in NetErrors : Breaks(e)) \/ UNCHANGED vars
  BY <1>2, <1>8 DEF EnableTask, DisableTask, EnableTimerTask, DisableTimerTask,
     ArmTask, epoll_wait, TakeTasks, NoHandler, ConnectEnds, PeerSends,
     PeerCloses, Drain, Expire, Breaks, Quietly, vars
<1>10. CASE SendTaskSends
 <2>1. PICK steps \in ShortSteps : pc' = [pc EXCEPT !["io"] = steps]
   BY <1>10, SendGoes DEF ShortSteps, UpdateSteps
 <2>2. ~Has(steps, "connected") BY ONLY <1>15, <2>1, ShortHas
 <2> QED BY <1>1, <2>1, <2>2 DEF SuccessInv, In
<1>9. CASE AppConnect \/ AppStop \/ AppStart \/ \E m \in Messages : PostSend(m)
 <2>1. pc' = pc \/ \E steps : pc' = [pc EXCEPT !["app"] = steps]
   BY <1>9 DEF AppConnect, AppStop, AppStart, UserCall, PostSend
 <2> QED BY <1>1, <1>2, <2>1
<1> QED BY <1>4, <1>5, <1>6, <1>7, <1>8, <1>9, <1>10 DEF Next, IoStep, RunTask

LEMMA SuccessInit == Init => SuccessInv
<1> SUFFICES ASSUME Init PROVE SuccessInv OBVIOUS
<1>1. pc["io"] = <<>> BY DEF Init, Threads
<1> QED BY <1>1, Idle DEF SuccessInv

LEMMA AppStacks ==
  /\ \A s \in Controls \cup {<<"storeW", "watch timer", "arm">>, <<"watch timer", "arm">>,
                        <<"arm">>, InProgress} :
       \A l \in Leftovers : ~Has(s, l) /\ ~(s # <<>> /\ Head(s) \in {"connected", "callback"})
  /\ \A s \in Attempts \cup {<<"cas">>} :
       /\ s # <<>> /\ Head(s) # "connected"
       /\ Head(s) = "callback" => ~Has(s, "syscall")
  /\ \A l \in Leftovers : ~Has(<<"connected", "start">>, l)
<1>10. Head(InProgress) = "watch sock" BY DEF InProgress
<1>11. Head(<<"watch timer", "arm">>) = "watch timer" OBVIOUS
<1>12. Head(<<"storeW", "watch timer", "arm">>) = "storeW" OBVIOUS
<1>1. ASSUME NEW a \in Labels, a \notin Leftovers, a # "connected"
      PROVE  \A l \in Leftovers : ~Has(<<a>>, l) /\ Head(<<a>>) \notin {"connected", "callback"}
 <2>1. \A l : Has(<<a>>, l) <=> l = a BY FewSteps
 <2>2. Head(<<a>>) = a OBVIOUS
 <2> QED BY <1>1, <2>1, <2>2 DEF Leftovers
<1>2. ASSUME NEW l \in Leftovers, NEW s \in Controls
      PROVE  ~Has(s, l) /\ ~(s # <<>> /\ Head(s) \in {"connected", "callback"})
 <2>1. CASE s = <<>> BY <2>1, WhatHas
 <2>2. CASE s # <<>>
  <3>1. PICK a \in {"start", "set", "test", "watch RE", "watch RWE", "storeRE", "storeRWE",
                   "stop", "stop post"} : s = <<a>>
    BY <1>2, <2>2 DEF Controls
  <3>2. a \in Labels /\ a \notin Leftovers /\ a # "connected"
    BY UpdateLabels DEF Labels, Leftovers, UpdateSteps
  <3> QED BY <1>1, <1>2, <3>1, <3>2
 <2> QED BY <2>1, <2>2
<1>3. ASSUME NEW l \in Leftovers, NEW s \in {<<"storeW", "watch timer", "arm">>, <<"watch timer", "arm">>,
                                       <<"arm">>, InProgress}
      PROVE  ~Has(s, l) /\ ~(s # <<>> /\ Head(s) \in {"connected", "callback"})
 <2>1. CASE s = <<"arm">>
  <3>1. "arm" \in Labels /\ "arm" \notin Leftovers /\ "arm" # "connected"
    BY DEF Labels, Leftovers
  <3> QED BY <1>1, <2>1, <3>1
 <2>2. CASE s = InProgress
  <3>1. \A k : Has(InProgress, k) <=> k \in {"watch sock", "watch timer", "arm"}
    BY WhatHas
  <3> QED BY <1>10, <2>2, <3>1 DEF Leftovers
 <2>3. CASE s = <<"watch timer", "arm">>
  <3>1. PICK a, b \in Labels : a = "watch timer" /\ b = "arm" BY DEF Labels
  <3>2. \A k : Has(<<a, b>>, k) <=> k \in {a, b} BY FewSteps
  <3>3. l # a /\ l # b BY <3>1 DEF Leftovers
  <3>4. ~Has(<<a, b>>, l) BY <3>2, <3>3
  <3> QED BY <1>11, <2>3, <3>1, <3>4
 <2>4. CASE s = <<"storeW", "watch timer", "arm">>
  <3>1. PICK a, b, c \in Labels : a = "storeW" /\ b = "watch timer" /\ c = "arm"
    BY UpdateLabels DEF Labels
  <3>2. \A k : Has(<<a, b, c>>, k) <=> k \in {a, b, c} BY FewSteps
  <3>3. l # a /\ l # b /\ l # c BY <3>1 DEF Leftovers
  <3>4. ~Has(<<a, b, c>>, l) BY <3>2, <3>3
  <3> QED BY <1>12, <2>4, <3>1, <3>4
 <2> QED BY <1>3, <2>1, <2>2, <2>3, <2>4
<1>4. ASSUME NEW s \in Attempts \cup {<<"cas">>}
      PROVE  /\ s # <<>> /\ Head(s) # "connected"
             /\ Head(s) = "callback" => ~Has(s, "syscall")
 <2>1. /\ Head(<<"cas">>) = "cas" /\ Head(<<"syscall">>) = "syscall"
       /\ Head(<<"refuse", "disconnected">>) = "refuse"
       /\ Head(<<"stop", "callback", "disconnected">>) = "stop"
       /\ Head(<<"stop post", "callback", "disconnected">>) = "stop post"
       /\ Head(<<"callback", "disconnected">>) = "callback"
       /\ Head(<<"cas", "disconnected">>) = "cas"
       /\ Head(<<"disconnected">>) = "disconnected"
   OBVIOUS
 <2>2. ~Has(<<"callback", "disconnected">>, "syscall")
  <3>1. PICK a, b \in Labels : a = "callback" /\ b = "disconnected"
    BY DEF Labels
  <3>2. \A k : Has(<<a, b>>, k) <=> k \in {a, b} BY FewSteps
  <3>3. "syscall" # a /\ "syscall" # b BY <3>1
  <3>4. ~Has(<<a, b>>, "syscall") BY <3>2, <3>3
  <3> QED BY <3>1, <3>4
 <2>3. Head(s) = "callback" => s = <<"callback", "disconnected">>
   BY <1>4, <2>1 DEF Attempts
 <2>4. s # <<>>
  <3>1. /\ << "cas" >> # << >> /\ << "syscall" >> # << >> /\ << "disconnected" >> # << >>
        /\ <<"refuse", "disconnected">> # << >> /\ <<"callback", "disconnected">> # << >>
        /\ <<"stop", "callback", "disconnected">> # << >>
        /\ <<"stop post", "callback", "disconnected">> # << >>
        /\ <<"cas", "disconnected">> # << >>
    OBVIOUS
  <3>2. s \in Attempts \/ s = <<"cas">> BY <1>4
  <3> QED BY ONLY <3>1, <3>2, Zenon DEF Attempts
 <2>5. Head(s) # "connected"
  <3>1. Head(s) \in {"cas", "syscall", "refuse", "stop", "stop post", "callback", "disconnected"}
    BY <1>4, <2>1 DEF Attempts
  <3> QED BY <3>1
 <2> QED BY <2>2, <2>3, <2>4, <2>5
<1>5. ASSUME NEW l \in Leftovers PROVE ~Has(<<"connected", "start">>, l)
 <2>1. \A k : Has(<<"connected", "start">>, k) <=> k \in {"connected", "start"}
   BY WhatHas
 <2> QED BY <2>1 DEF Leftovers
<1> QED BY <1>2, <1>3, <1>4, <1>5

\* The threads do not meet.
LEMMA OrderlyThreads ==
  ASSUME Types,
         pc["io"] \notin {<<>>, <<"insert">>} => AppIsFree,
         At("app", "connected") => AppIsFree /\ pc["io"] \in {<<>>, <<"insert">>},
         At("app", "callback") => ~In("app", "syscall") /\ pc["io"] \in {<<>>, <<"insert">>},
         At("io", "connected") => \A l \in Leftovers : ~In("io", l),
         At("io", "callback") => ~In("io", "syscall"),
         In("io", "closed") => ~In("io", "syscall")
  PROVE  Orderly
<1>1. ASSUME pc["io"] \in {<<>>, <<"insert">>}
      PROVE  \A l : In("io", l) => l = "insert"
 <2>1. (\A l : ~Has(<<>>, l)) /\ (\A l : Has(<<"insert">>, l) <=> l = "insert")
   BY WhatHas
 <2> QED BY <1>1, <2>1 DEF In
<1>2. ASSUME NEW l, l # "insert", In("io", l) PROVE AppIsFree BY <1>1, <1>2
<1>3. \A l : At("io", l) => In("io", l) BY HeadIn DEF Threads
<1>4. ASSUME NEW t \in Threads, NEW u \in Threads, At(t, "connected"), NEW l \in Leftovers
      PROVE  ~In(u, l)
 <2>1. CASE t = "io" /\ u = "io" BY <1>4, <2>1
 <2>2. CASE t = "io" /\ u = "app"
  <3>1. In("io", "connected") /\ "connected" # "insert" BY <1>3, <1>4, <2>2
  <3>2. AppIsFree BY <1>2, <3>1
  <3> QED BY <2>2, <3>2 DEF AppIsFree
 <2>3. CASE t = "app" /\ u = "app" BY <1>4, <2>3 DEF AppIsFree
 <2>4. CASE t = "app" /\ u = "io"
  <3>1. l # "insert" BY DEF Leftovers
  <3> QED BY <1>1, <1>4, <2>4, <3>1
 <2> QED BY <2>1, <2>2, <2>3, <2>4 DEF Threads
<1>5. ASSUME NEW t \in Threads, NEW u \in Threads, At(t, "callback")
      PROVE  ~In(u, "syscall")
 <2>1. CASE t = "io" /\ u = "io" BY <1>5, <2>1
 <2>2. CASE t = "io" /\ u = "app"
  <3>1. In("io", "callback") /\ "callback" # "insert" BY <1>3, <1>5, <2>2
  <3>2. AppIsFree BY <1>2, <3>1
  <3> QED BY <2>2, <3>2 DEF AppIsFree, Leftovers
 <2>3. CASE t = "app" /\ u = "app" BY <1>5, <2>3
 <2>4. CASE t = "app" /\ u = "io"
  <3>1. "syscall" # "insert" OBVIOUS
  <3> QED BY <1>1, <1>5, <2>4, <3>1
 <2> QED BY <2>1, <2>2, <2>3, <2>4 DEF Threads
<1>6. ASSUME NEW u \in Threads, In("io", "closed") PROVE ~In(u, "syscall")
 <2>1. "closed" # "insert" OBVIOUS
 <2>2. AppIsFree BY <1>2, <1>6, <2>1
 <2> QED BY <1>6, <2>2 DEF AppIsFree, Leftovers, Threads
<1> QED BY <1>4, <1>5, <1>6 DEF Orderly, Leftovers

LEMMA TcpIsOrderly ==
  ASSUME Types, TcpInv, StageInv, SuccessInv
  PROVE  Orderly
<1>1. TcpApp /\ TcpIo /\ TcpStream BY DEF TcpInv
<1>2. Fresh => pc["io"] \in {<<>>, <<"insert">>} BY DEF Fresh
<1>3. \/ pc["app"] \in Controls \cup {<<"storeW", "watch timer", "arm">>,
                                  <<"watch timer", "arm">>, <<"arm">>, InProgress}
      \/ pc["app"] \in Attempts \cup {<<"cas">>} /\ Fresh
  BY <1>1 DEF TcpApp, Attempting, Controls
<1>4. pc["io"] \notin {<<>>, <<"insert">>} => AppIsFree
  BY <1>2, <1>3, AppStacks DEF AppIsFree, In
<1>5. "syscall" \in Leftovers BY DEF Leftovers
<1>6. ~At("app", "connected") BY <1>3, <1>5, AppStacks DEF At
<1>7. At("app", "callback") => ~In("app", "syscall") /\ pc["io"] \in {<<>>, <<"insert">>}
 <2>1. SUFFICES ASSUME At("app", "callback")
                PROVE  ~In("app", "syscall") /\ pc["io"] \in {<<>>, <<"insert">>}
   OBVIOUS
 <2>2. pc["app"] \in Attempts \cup {<<"cas">>} /\ Fresh
   BY <1>3, <1>5, <2>1, AppStacks DEF At
 <2> QED BY <1>2, <2>1, <2>2, AppStacks DEF At, In
<1>8. At("io", "connected") => \A l \in Leftovers : ~In("io", l)
 <2>1. SUFFICES ASSUME At("io", "connected") PROVE \A l \in Leftovers : ~In("io", l)
   OBVIOUS
 <2>2. pc["io"] = Success BY <2>1, HeadIn DEF SuccessInv, Threads
 <2>3. \A l : Has(Success, l) <=> l \in {"connected", "unwatch timer", "start"}
   BY WhatHas
 <2> QED BY <2>2, <2>3 DEF In, Leftovers
<1>9. At("io", "callback") => ~In("io", "syscall")
 <2>1. SUFFICES ASSUME At("io", "callback"), In("io", "syscall") PROVE FALSE
   OBVIOUS
 <2>2. PICK s \in Seq(Labels) : s = pc["io"] /\ s # <<>> /\ Head(s) = "callback"
   BY <2>1 DEF At, Types, LoopTypes, Threads
 <2>3. PICK i \in DOMAIN s : s[i] = "syscall" BY <2>1, <2>2 DEF In, Has
 <2>4. Before("syscall") = {} BY DEF Before
 <2>5. ~(i > 1) BY <1>1, <2>2, <2>3, <2>4 DEF TcpIo, Shaped
 <2>6. i = 1 /\ s[1] = Head(s)
  <3>1. \A q \in Seq(Labels) : \A j \in DOMAIN q : ~(j > 1) => j = 1 OBVIOUS
  <3>2. \A q \in Seq(Labels) : q # <<>> => q[1] = Head(q) OBVIOUS
  <3> QED BY <2>2, <2>5, <3>1, <3>2
 <2>7. "callback" # "syscall" OBVIOUS
 <2> QED BY <2>2, <2>3, <2>6, <2>7
<1>10. In("io", "closed") => ~In("io", "syscall")
 <2>1. SUFFICES ASSUME In("io", "closed") PROVE ~In("io", "syscall") OBVIOUS
 <2>2. cb = "stream" /\ exe = <<>> BY <2>1 DEF StageInv, Stages
 <2>3. StreamAfter(exe, cb) BY <2>2 DEF StreamAfter
 <2> QED BY <1>1, <2>3 DEF TcpStream
<1> QED BY <1>4, <1>6, <1>7, <1>8, <1>9, <1>10, OrderlyThreads

LEMMA LocalIsOrderly ==
  ASSUME Types, LocalInv
  PROVE  Orderly
<1>1. LocalApp /\ LocalIo BY DEF LocalInv
<1>2. Fresh => pc["io"] \in {<<>>, <<"insert">>} BY DEF Fresh
<1>3. \/ pc["app"] \in Controls
      \/ Fresh /\ (pc["app"] = <<"connected", "start">> \/ pc["app"] \in Attempts \cup {<<"cas">>})
  BY <1>1 DEF LocalApp, Attempting, Controls
<1>4. pc["io"] \notin {<<>>, <<"insert">>} => AppIsFree
  BY <1>2, <1>3, AppStacks DEF AppIsFree, In
<1>5. "syscall" \in Leftovers BY DEF Leftovers
<1>6. At("app", "connected") => AppIsFree /\ pc["io"] \in {<<>>, <<"insert">>}
 <2>1. SUFFICES ASSUME At("app", "connected")
                PROVE  AppIsFree /\ pc["io"] \in {<<>>, <<"insert">>}
   OBVIOUS
 <2>2. pc["app"] = <<"connected", "start">> /\ Fresh
   BY <1>3, <1>5, <2>1, AppStacks DEF At
 <2> QED BY <1>2, <2>2, AppStacks DEF AppIsFree, In
<1>7. At("app", "callback") => ~In("app", "syscall") /\ pc["io"] \in {<<>>, <<"insert">>}
 <2>1. SUFFICES ASSUME At("app", "callback")
                PROVE  ~In("app", "syscall") /\ pc["io"] \in {<<>>, <<"insert">>}
   OBVIOUS
 <2>2. Head(<<"connected", "start">>) = "connected" OBVIOUS
 <2>3. pc["app"] \in Attempts \cup {<<"cas">>} /\ Fresh
   BY <1>3, <1>5, <2>1, <2>2, AppStacks DEF At
 <2> QED BY <1>2, <2>1, <2>3, AppStacks DEF At, In
<1>8. \A l : In("io", l) => l \in LocalSteps BY <1>1 DEF LocalIo
<1>9. ~In("io", "connected") /\ ~In("io", "syscall")
 <2>1. "connected" \notin LocalSteps /\ "syscall" \notin LocalSteps
   BY UpdateStepsAre DEF LocalSteps
 <2> QED BY <1>8, <2>1
<1>10. ~At("io", "connected") BY <1>9, HeadIn DEF Threads
<1> QED BY <1>4, <1>6, <1>7, <1>9, <1>10, OrderlyThreads

----------------------------------------

\* The proof of the frames, put together: the mode of use gives Orderly, and
\* Orderly keeps what was read in step with what is reported.
LEMMA OutcomeAlways ==
  ASSUME Usage
  PROVE  Spec => [](Unbroken => FlowInv /\ OutcomeInv)
<1>1. Init => PhasesInv /\ FlowInv /\ StageInv /\ SuccessInv /\ OutcomeInv
  BY FlowInit, StagesInit, SuccessInit, OutcomeInit
<1>2. Basics /\ StageInv /\ [Next]_vars => StageInv'
  BY StagesInductive DEF Basics
<1>3. Basics /\ PhasesInv /\ (Unbroken => FlowInv) /\ Orderly /\ (Unbroken => OutcomeInv)
      /\ [Next]_vars => (Unbroken => OutcomeInv)'
 <2> SUFFICES ASSUME Basics, PhasesInv, Unbroken => FlowInv, Orderly,
                     Unbroken => OutcomeInv, [Next]_vars, sk' # "dead"
              PROVE  OutcomeInv'
   BY DEF Unbroken
 <2>1. Unbroken BY BreaksForGood DEF Unbroken
 <2> QED BY <2>1, OutcomeInductive
<1>4. CASE Tcp
 <2>1. Basics /\ SuccessInv /\ [Next]_vars => SuccessInv'
   BY <1>4, SuccessInductive DEF Basics
 <2>2. Basics /\ TcpInv /\ StageInv /\ SuccessInv => Orderly
   BY TcpIsOrderly DEF Basics
 <2> QED
   BY <1>1, <1>2, <1>3, <1>4, <2>1, <2>2, TcpAlways, FlowAlways, PTL DEF Spec
<1>5. CASE Local
 <2>1. Basics /\ LocalInv => Orderly BY LocalIsOrderly DEF Basics
 <2> QED BY <1>1, <1>3, <1>5, <2>1, LocalAlways, FlowAlways, PTL DEF Spec
<1> QED BY <1>4, <1>5 DEF Usage

LEMMA OutcomeShows == FlowInv /\ OutcomeInv /\ FramesAreWhole => FramesBeforeDisconnect
<1> SUFFICES ASSUME OutcomeInv, outcome = "closed", sk = "fin"
             PROVE  Len(frames) = 2 * (peer \div 2)
  BY DEF FramesBeforeDisconnect
<1>1. AtEnd /\ ~Gone BY DEF OutcomeInv, Gone
<1> QED BY <1>1 DEF AtEnd, AllRead

\* When a client that is used as Usage says has reported the end that its peer
\* has sent, it has handed on all that came before: no frame is missing when
\* disconnect_cb_ is called.  Connections may break; the one in question did not.
THEOREM EndComesLast ==
  ASSUME Usage
  PROVE  Spec => [](Unbroken => FramesBeforeDisconnect)
BY OutcomeShows, OutcomeAlways, FramesAreCutRight, PTL

\* So it is for good where connections do not break.
THEOREM NothingIsMissing ==
  ASSUME Usage, NetErrors = {}
  PROVE  Spec => []FramesBeforeDisconnect
BY EndComesLast, NeverBroken, PTL
===============================================================================

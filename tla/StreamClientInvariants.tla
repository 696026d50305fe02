------------------------ MODULE StreamClientInvariants ------------------------
(***************************************************************************)
(* What holds of StreamClient in every state: the inductive invariants     *)
(* that StreamClient_proofs proves, for two ways to use a client:          *)
(*                                                                         *)
(*   Tcp    the application calls connect() once, and its callbacks may    *)
(*          call it again; connect(2) takes its time;                      *)
(*   Local  connect(2) succeeds at once; the application calls connect()   *)
(*          until it succeeds, and then stop() and start() as it likes.    *)
(***************************************************************************)
EXTENDS StreamClient

Tcp   == ~Immediate /\ UserCalls = {}
Local == Immediate /\ "early start" \notin UserCalls
Usage == Tcp \/ Local

\* The tasks that wait, in the batch being run and behind it.
Pending == exe \o queue

Has(s, label) == \E i \in DOMAIN s : s[i] = label
In(t, label)  == Has(pc[t], label)
Events   == [src : {"sock", "timer", "wake"}, types : SUBSET EventTypes]
Errors   == {"none", "refused"} \cup NetErrors

\* The types of every variable, TypeOK's among them.
ClientTypes ==
  /\ connected \in {"Disconnected", "Connecting", "Connected"}
  /\ started \in BOOLEAN
  /\ event_types \in {{}, {"W"}, {"R", "E"}, EventTypes}
  /\ send_buf \in Seq(Messages) /\ recv_buf \in Seq(1..MaxPeer)

LoopTypes ==
  /\ pc \in [Threads -> Seq(Labels)]
  /\ queue \in Seq(Tasks) /\ exe \in Seq(Tasks) /\ evs \in Seq(Events)
  /\ cb \in {"none", "connect", "stream"} /\ mask \in SUBSET EventTypes
  /\ timer_on \in BOOLEAN /\ ready \in SUBSET {"sock", "timer"}

KernelTypes ==
  /\ sk \in SkStates /\ err \in Errors
  /\ room \in 0..Room /\ inbox \in Seq(1..MaxPeer)
  /\ timer \in {"off", "armed", "expired"}

GhostTypes ==
  /\ calls \in 0..MaxCalls /\ peer \in 0..MaxPeer
  /\ taken \in Seq(Messages) /\ sent \in Seq(Messages) /\ lost \in BOOLEAN
  /\ frames \in Seq(1..MaxPeer) /\ timed \in BOOLEAN /\ raced \in BOOLEAN
  /\ outcome \in {"none", "connecting", "connected", "closed", "error"}

Types == ClientTypes /\ LoopTypes /\ KernelTypes /\ GhostTypes

\* The insertion into send_buf_ is a step of a send task.
InsertInv ==
  In("io", "insert") =>
    pc["io"] = <<"insert">> /\ exe # <<>> /\ Head(exe).op = "send"

\* A pending error is that of a socket that has one.
ErrorInv == /\ err = "refused" => sk = "failed"
            /\ err # "none" => sk \in {"failed", "dead"}

\* The steps of an update of event_types_ come first on a stack, the io executor
\* requests the write event for data that waits and gives it up when nothing
\* does, and two threads that update at a time have overlapped.
UpdateSteps == DOMAIN Updates \cup DOMAIN Stores

Fronted(s) == \A i \in DOMAIN s : s[i] \in UpdateSteps => i = 1

UpdateInv ==
  /\ \A t \in Threads : Fronted(pc[t])
  /\ \A l \in DOMAIN Updates :
       /\ ~In("app", l)
       /\ At("io", l) => ("W" \in Updates[l] <=> send_buf # <<>>)
  /\ Updating("app") /\ Updating("io") => raced

(***************************************************************************)
(* Stacks of steps.                                                        *)
(***************************************************************************)
\* The steps of a call of connect() or of an error, in a callback.
Chain == {"refuse", "fail", "stop", "stop post", "callback", "cas", "syscall",
          "arm", "disconnected"}

\* What comes directly before a step on the stack of the io thread.
Before(label) ==
  CASE label = "callback"      -> {"stop", "stop post"}
    [] label = "disconnected"  -> Chain
    [] label = "split"         -> {"read", "write", "error"} \cup UpdateSteps \cup Chain
    [] label = "closed"        -> {"split"}
    [] label = "unwatch timer" -> {"connected", "disconnected"}
    [] label \in {"start", "refuse"} -> {"unwatch timer"}
    [] label = "watch timer"   -> {"watch sock", "storeW"}
    [] label = "arm"           -> {"watch timer"}
    [] label = "write"         -> {"read"}
    [] label = "error"         -> {"read", "write"} \cup UpdateSteps
    [] OTHER                   -> {}

Shaped(s) == \A i \in DOMAIN s : i > 1 => s[i - 1] \in Before(s[i])

\* The event types that an update may come with, and its steps.
TypeSets == {{}, {"W"}, {"R", "E"}, EventTypes}

SockEvent  == [src |-> "sock", types |-> Level(mask)]
TimerEvent == [src |-> "timer", types |-> {"R"}]
WakeEvent  == [src |-> "wake", types |-> {"R"}]

\* The phases of the stream callback.
Phases(types) ==
  LET Phase(type, label) == IF type \in types THEN <<label>> ELSE <<>>
  IN Phase("R", "read") \o Phase("W", "write") \o Phase("E", "error")
       \o <<"split">>

\* The steps of the phases and of a send task are not steps of a call.
OwnSteps == {"insert", "read", "write", "error", "split", "closed"} \cup DOMAIN Updates

\* What is known whichever way the client is used.
Basics == Types /\ InsertInv /\ ErrorInv /\ UpdateInv

(***************************************************************************)
(* What the tasks that wait make of the entry of the socket.               *)
(***************************************************************************)
CbOps   == {"enable", "disable"}

SockOps == {"enable", "update", "disable"}
IsStream(task) == task.op = "enable" /\ task.cb = "stream"

\* When the tasks have run, the stream callback is installed ...
StreamAfter(tasks, c) ==
  \/ c = "stream" /\ \A j \in DOMAIN tasks : tasks[j].op \notin CbOps
  \/ \E i \in DOMAIN tasks :
       /\ IsStream(tasks[i])
       /\ \A j \in DOMAIN tasks : j > i => tasks[j].op \notin CbOps

\* ... and epoll watches the socket for types.
Untouched(tasks) == \A j \in DOMAIN tasks : tasks[j].op \notin SockOps

MaskAfter(tasks, m, types) ==
  \/ m = types /\ Untouched(tasks)
  \/ \E i \in DOMAIN tasks :
       /\ tasks[i].op \in {"enable", "update"} /\ tasks[i].types = types
       /\ \A j \in DOMAIN tasks : j > i => tasks[j].op \notin SockOps

(***************************************************************************)
(* The application's thread, while it connects.                            *)
(***************************************************************************)
\* Nothing has been registered yet.
Fresh ==
  /\ cb = "none" /\ mask = {} /\ ~timer_on /\ ~started
  /\ connected # "Connected"
  /\ \A i \in DOMAIN Pending :
       Pending[i].op \in {"send", "disable", "disable timer"}
  /\ pc["io"] \in {<<>>, <<"insert">>}

\* It is in connect(), and connect(2) was not called yet or failed.
Attempts ==
  {<<"syscall">>, <<"refuse", "disconnected">>,
   <<"stop", "callback", "disconnected">>,
   <<"stop post", "callback", "disconnected">>,
   <<"callback", "disconnected">>, <<"cas", "disconnected">>,
   <<"disconnected">>}

Attempting ==
  \/ pc["app"] = <<"cas">>
  \/ pc["app"] \in Attempts /\ connected = "Connecting"

(***************************************************************************)
(* The client over TCP.                                                    *)
(***************************************************************************)
TcpApp ==
  /\ \/ pc["app"] \in {<<>>, <<"storeW", "watch timer", "arm">>,
                       <<"watch timer", "arm">>, <<"arm">>}
     \/ pc["app"] = InProgress /\ Fresh
     \/ Attempting /\ Fresh /\ sk = "idle"
  /\ outcome = "none" =>
       Fresh /\ sk = "idle" /\ pc["app"] \in {<<>>, <<"cas">>}

StartLabels == {"set", "test", "watch RE", "watch RWE"}

Starts == {Success, <<"unwatch timer", "start">>, <<"start">>, <<"set">>,
           <<"test">>, <<"watch RE">>, <<"watch RWE">>}

Down == {"stop post", "callback", "cas", "syscall", "watch sock"}

\* The stream callback ends with its frames, and then the end of the connection.
PhasesEnd ==
  \A l \in {"read", "write", "error"} :
    In("io", l) => pc["io"][Len(pc["io"])] \in {"split", "closed"}

TcpIo ==
  /\ Shaped(pc["io"]) /\ PhasesEnd
  /\ \A l \in Down : At("io", l) => ~started
  /\ \A l \in {"watch timer", "arm"} : In("io", l) => ~started
  /\ At("io", "disconnected") => ~started \/ In("io", "refuse")
  /\ started /\ connected # "Connected" =>
       In("io", "refuse") \/ In("io", "fail") \/ In("io", "stop")
  /\ \A l \in {"start"} \cup StartLabels : In("io", l) =>
       /\ pc["io"] \in Starts
       /\ \/ At("io", "connected")
          \/ connected = "Connected" /\ outcome = "connected"
  /\ \A l \in StartLabels : At("io", l) => started
  /\ started => outcome = "connected"
  /\ At("io", "insert") => MustQueue
  /\ At("io", "watch RE") => send_buf = <<>>

\* Where the stream callback is installed no attempt to connect goes on.
TcpStream ==
  /\ StreamAfter(exe, cb) =>
       /\ connected = "Connected"
       /\ ~In("io", "disconnected") /\ ~In("io", "syscall")
       /\ ~In("io", "watch sock")
  /\ StreamAfter(Pending, cb) => started \/ At("io", "stop post")
  /\ In("io", "write") => cb = "stream" /\ exe = <<>>

TcpInv == TcpApp /\ TcpIo /\ TcpStream

(***************************************************************************)
(* The client of a local socket.                                           *)
(***************************************************************************)
Controls == {<<>>, <<"start">>, <<"set">>, <<"test">>, <<"watch RE">>,
             <<"watch RWE">>, <<"storeRE">>, <<"storeRWE">>, <<"stop">>,
             <<"stop post">>}

LocalApp ==
  /\ connected = "Connected" =>
       pc["app"] \in Controls /\ outcome \in {"connected", "closed"}
  /\ connected # "Connected" =>
       /\ Fresh
       /\ \/ pc["app"] = <<"connected", "start">>
          \/ sk = "idle" /\ (pc["app"] = <<>> \/ Attempting)
  /\ At("app", "stop post") => ~started

IsStop(l) == l \in {"stop", "stop post"}
IsBack(l) == l = "callback"

CalledBack(s) ==
  \A i \in DOMAIN s : IsStop(s[i]) => i < Len(s) /\ IsBack(s[i + 1])

LocalSteps == {"insert", "read", "write", "error", "split", "closed", "refuse",
               "stop", "stop post", "callback", "cas"} \cup UpdateSteps

LocalIo ==
  /\ \A l : In("io", l) => l \in LocalSteps
  /\ CalledBack(pc["io"])

LocalEntry ==
  /\ cb # "connect" /\ ~timer_on /\ sk \in {"idle", "established", "fin", "dead"}
  /\ \A i \in DOMAIN Pending :
       /\ Pending[i].op \notin {"enable timer", "arm"}
       /\ Pending[i].op = "enable" => IsStream(Pending[i])
  /\ In("io", "write") => cb = "stream"

LocalInv == LocalApp /\ LocalIo /\ LocalEntry

(***************************************************************************)
(* A client that is up.                                                    *)
(***************************************************************************)
Starting == \E t \in Threads : \E l \in StartLabels : At(t, l)

Up == /\ started /\ outcome = "connected" /\ ~Starting
      /\ ~At("io", "stop post") /\ ~At("io", "callback")

\* An event of the type is being reported.
Reported(type) ==
  \/ "sock" \in ready
  \/ \E i \in DOMAIN evs : evs[i].src = "sock" /\ type \in evs[i].types

\* Something to read, or the end of the connection.
ToRead == \/ inbox # <<>> \/ sk = "fin"
          \/ sk = "dead" /\ NetErrors \subseteq {"reset"}

ReadyR == ToRead => \/ Reported("R") \/ In("io", "read") \/ In("io", "closed")
                    \/ In("io", "stop")

ToWrite == ~Immediate /\ send_buf # <<>>

ReadyW == ToWrite /\ sk \in {"established", "fin"} /\ room > 0 =>
            Reported("W") \/ In("io", "write")

\* The types that were posted last, where updates do not overlap: they are
\* about to be stored, or have been.
Now(types) ==
  \/ \E t \in Threads : \E l \in DOMAIN Stores : At(t, l) /\ types = Stores[l]
  \/ /\ types = event_types
     /\ \A t \in Threads : \A l \in DOMAIN Stores : ~At(t, l)

Posted == \A l \in DOMAIN Updates : ~At("io", l)

ReadInv ==
  Up /\ ~raced =>
    /\ \A types : Now(types) =>
         {"R", "E"} \subseteq types /\ MaskAfter(Pending, mask, types)
    /\ \A l \in DOMAIN Updates : At("io", l) => {"R", "E"} \subseteq Updates[l]
    /\ Untouched(Pending) => ReadyR

WriteInv ==
  Up /\ ToWrite /\ Posted =>
    /\ \E types : "W" \in types /\ MaskAfter(Pending, mask, types)
    /\ Untouched(Pending) => ReadyW

UpInv == /\ Up => StreamAfter(Pending, cb)
         /\ ReadInv /\ WriteInv

\* The callback and the mask of the entry when a task has run.
CbRun(task, c) ==
  IF task.op = "enable" THEN task.cb ELSE IF task.op = "disable" THEN "none" ELSE c

Harmless == {"send", "disable", "disable timer"}

\* steps may take the place of a step h.
Replaces(steps, h) ==
  /\ steps \in Seq(Labels) /\ Shaped(steps)
  /\ \A l \in {"read", "write", "error"} : ~Has(steps, l)
  /\ steps # <<>> => \A l \in Labels : h \in Before(l) => steps[Len(steps)] \in Before(l)

\* Nothing is installed, and nothing will be.
Unused ==
  /\ ~started /\ connected # "Connected" /\ pc["io"] \in {<<>>, <<"insert">>}
  /\ ~StreamAfter(exe, cb) /\ ~StreamAfter(Pending, cb)

(***************************************************************************)
(* A client that is up goes on watching its socket.                        *)
(***************************************************************************)
\* What a use of the client contributes.
Tidy ==
  /\ \A t \in Threads : At(t, "watch sock") \/ At(t, "syscall") => ~started
  /\ \A t \in Threads : At(t, "connected") => ~started \/ outcome = "connected"
  /\ At("app", "stop post") => ~started
  /\ At("io", "stop post") =>
       ~started \/ (Len(pc["io"]) > 1 /\ pc["io"][2] = "callback")
  /\ ~Immediate =>
       /\ At("io", "insert") /\ started /\ outcome = "connected" => send_buf # <<>>
       /\ \A t \in Threads : At(t, "watch RE") => send_buf = <<>>

Kept == {"read", "write", "closed", "stop"}

\* No thread begins or ends an update, and the types posted last are the same.
Same == /\ \A types : Now(types)' => Now(types)
        /\ \A l \in DOMAIN Updates : At("io", l)' <=> At("io", l)

LocalStates == {"idle", "established", "fin", "dead"}
LocalSocketState == sk \in LocalStates

\* stop() is always followed by a callback, on the io thread.
CalledAfter(steps, h) ==
  \A i \in DOMAIN steps : IsStop(steps[i]) =>
    /\ i < Len(steps) => IsBack(steps[i + 1])
    /\ i >= Len(steps) => IsStop(h)

LocalTask(task) == \/ task.op \in {"send", "update", "disable", "disable timer"}
                   \/ IsStream(task)

(***************************************************************************)
(* The peer's stream, where the connection does not break.                 *)
(***************************************************************************)
\* The phases of the stream callback: what it reads is split before the end of
\* the connection is reported.
AtFront(s, l) == \A i \in DOMAIN s : s[i] = l => i = 1

AtBack(s, l)  == \A i \in DOMAIN s : s[i] = l => i = Len(s)

PhasesInv ==
  /\ AtFront(pc["io"], "read") /\ AtBack(pc["io"], "closed")
  /\ In("io", "read") => In("io", "split") /\ ~In("io", "closed")

\* What the peer sent is cut into frames, waits in recv_buf_, or was not read.
stream      == frames \o (recv_buf \o inbox)

Numbered(q) == \A i \in DOMAIN q : q[i] = i

\* All frames of a peer that has closed were given to on_fragment.
AllRead == inbox = <<>> /\ recv_buf = <<>> /\ Len(frames) = 2 * (peer \div 2)

\* The connection has not ended in an error.
Unbroken == sk # "dead"

\* Nothing of the peer's stream is lost before its end, and "closed" is reached
\* when it was read and split.
NotYet == {"idle", "connecting", "failed"}

FlowInv ==
  /\ Numbered(stream) /\ Len(frames) % 2 = 0
  /\ sk # "dead" /\ (sk \in NotYet => peer = 0)
  /\ peer = Len(stream) \/ (sk = "fin" /\ AllRead)
  /\ In("io", "closed") => recv_buf = <<>> \/ (sk = "fin" /\ inbox = <<>>)
  /\ In("io", "closed") /\ ~In("io", "split") => Len(recv_buf) < 2

\* Most steps of the io thread put at most one step on its stack.
ShortSteps == {<< >>, <<"refuse">>} \cup {<<l>> : l \in UpdateSteps}

(***************************************************************************)
(* What a connection came to, and the peer's stream.                       *)
(***************************************************************************)
\* There was a connection; there is no connection any more; or its peer has
\* closed, and all of its frames were given to on_fragment.
Ended == outcome \in {"connected", "closed"}

Gone  == sk \in {"idle", "failed"}
AtEnd == Gone \/ (sk = "fin" /\ AllRead)

OutcomeInv ==
  /\ Ended => connected = "Connected" \/ Gone
  /\ \A t \in Threads : In(t, "syscall") => outcome = "connecting"
  /\ \A t \in Threads : In(t, "disconnected") \/ In(t, "refuse") => ~Ended \/ Gone
  /\ \A t \in Threads : In(t, "callback") => ~Ended \/ AtEnd
  /\ In("io", "closed") => Gone \/ (sk = "fin" /\ inbox = <<>>)
  /\ outcome = "closed" => AtEnd

\* What a use of the client contributes: nothing that belongs to an earlier
\* attempt is left to be done when an attempt succeeds, and a callback about a
\* connection does not meet the next attempt.
Orderly ==
  /\ \A t, u \in Threads : At(t, "connected") =>
       /\ ~In(u, "disconnected") /\ ~In(u, "refuse")
       /\ ~In(u, "callback") /\ ~In(u, "syscall")
  /\ \A t, u \in Threads : At(t, "callback") => ~In(u, "syscall")
  /\ \A u \in Threads : In("io", "closed") => ~In(u, "syscall")

\* The phases of the stream callback run between the tasks.
Stages == {"read", "write", "error", "split", "closed"}

StageInv == \A l \in Stages : In("io", l) => cb = "stream" /\ exe = <<>>

\* Over TCP, only socket_cb finds that an attempt succeeded.
SuccessInv == In("io", "connected") => pc["io"] = Success

\* What is left to be done about an attempt.
Leftovers == {"disconnected", "refuse", "callback", "syscall"}

AppIsFree == \A l \in Leftovers : ~In("app", l)

===============================================================================

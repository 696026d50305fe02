----------------------------- MODULE StreamClient -----------------------------
(***************************************************************************)
(* kzevent::net::StreamClientSocket (inet.hpp, inet.cpp) with the          *)
(* callbacks of TcpClient and UnixClient: connect() with its timeout,      *)
(* start() and stop(), the send tasks and the handler of stream events.    *)
(*                                                                         *)
(* connect(), start() and stop() are called by the application's thread    *)
(* ("app") and, from callbacks, by the io executor ("io"); each access to  *)
(* an atomic or to event_types_ and each post is a step.  pc[t] is the     *)
(* stack of steps thread t still has to take.  The loop is what            *)
(* LoopExecutor and LoopEvents show it to be: a queue of io tasks run in   *)
(* order, in batches, between the callbacks of a batch of edge-triggered   *)
(* events.                                                                 *)
(*                                                                         *)
(* The kernel's socket and timerfd are external.  A message is two units   *)
(* long, so that a send can be partial; so is a frame of the peer, whose   *)
(* n-th unit is the number n.                                              *)
(***************************************************************************)
EXTENDS Integers, Sequences, FiniteSets

CONSTANTS
  Messages,     \* what the application sends, each once
  Immediate,    \* TRUE: connect(2) succeeds at once (AF_UNIX); FALSE: TCP
  TimeoutMs,    \* the timeout given to connect()
  NetErrors,    \* how a connection may break: subset of {"reset", "timedout"}
  UserCalls,    \* what the app calls besides the first connect()
  Retry,        \* do the error and disconnect callbacks call connect()?
  MaxCalls,     \* bound on the calls of connect(), stop() and start()
  MaxPeer,      \* bound on the units the peer sends
  Room          \* units that fit in the kernel's send buffer

ASSUME ClientAssumption ==
  /\ Immediate \in BOOLEAN /\ Retry \in BOOLEAN
  /\ NetErrors \subseteq {"reset", "timedout"}
  /\ UserCalls \subseteq {"connect", "stop", "start", "early start"}
  /\ TimeoutMs \in Nat
  /\ MaxCalls \in Nat /\ MaxPeer \in Nat /\ Room \in Nat \ {0}

VARIABLES
  connected,   \* connected_
  started,     \* started_
  event_types, \* event_types_ of stream_channel_
  send_buf, recv_buf,
  pc,          \* per thread, the steps that remain
  queue, exe,  \* io tasks: posted, and left of the batch that is running
  evs,         \* what is left of the batch of epoll events
  cb, mask,    \* the table's entry of the socket; mask = {}: not in epoll
  timer_on,    \* the timerfd is in epoll, with timer_cb
  ready,       \* epoll's ready list
  sk,          \* the socket: see SkStates
  err,         \* its SO_ERROR
  room,        \* free units of its send buffer
  inbox,       \* units received and not read
  timer,       \* the timerfd: "off", "armed" or "expired"
  calls,       \* ghost: the user's calls so far
  taken,       \* ghost: units of the send tasks that ran
  sent,        \* ghost: units the kernel took
  lost,        \* ghost: units were given up (connection broken or closed)
  peer,        \* ghost: units the peer has sent
  frames,      \* ghost: frames given to on_fragment
  outcome,     \* ghost: what the latest attempt to connect came to
  timed,       \* ghost: the timer was armed by the latest attempt
  raced        \* ghost: two updates of event_types_ have overlapped

client == <<connected, started, event_types, send_buf, recv_buf>>
entry  == <<cb, mask, timer_on>>
kernel == <<sk, err, room, inbox, timer>>
ghosts == <<calls, taken, sent, lost, peer, frames, outcome, timed,
            raced>>
vars   == <<client, pc, queue, exe, evs, entry, ready, kernel, ghosts>>

Threads    == {"app", "io"}
EventTypes == {"R", "W", "E"}
SkStates   == {"idle", "connecting", "failed", "established", "fin", "dead"}

\* An update of event_types_: the io executor has computed the types; they are
\* posted; they are stored.
Updates == [update |-> {}, updateW |-> {"W"}, updateRE |-> {"R", "E"},
            updateRWE |-> EventTypes]
Stores  == [store |-> {}, storeW |-> {"W"}, storeRE |-> {"R", "E"},
            storeRWE |-> EventTypes]

Labels == {"cas", "syscall", "connected", "disconnected", "watch sock",
           "watch timer", "arm", "unwatch timer", "start", "set", "test",
           "watch RE", "watch RWE", "stop", "stop post", "fail", "refuse",
           "callback", "insert", "read", "write", "error", "split",
           "closed"} \cup DOMAIN Updates \cup DOMAIN Stores

Enable(c, types) == [op |-> "enable", cb |-> c, types |-> types]
Update(types)    == [op |-> "update", types |-> types]
Send(m)          == [op |-> "send", msg |-> m]
Plain(op)        == [op |-> op]
Tasks == [op : {"enable"}, cb : {"connect", "stream"}, types : SUBSET EventTypes]
         \cup [op : {"update"}, types : SUBSET EventTypes]
         \cup [op : {"send"}, msg : Messages]
         \cup [op : {"disable", "enable timer", "disable timer", "arm"}]

Units(m) == <<m, m>>

-------------------------------------------------------------------------------
Init ==
  /\ connected = "Disconnected" /\ started = FALSE /\ event_types = {}
  /\ send_buf = <<>> /\ recv_buf = <<>>
  /\ pc = [t \in Threads |-> <<>>]
  /\ queue = <<>> /\ exe = <<>> /\ evs = <<>>
  /\ cb = "none" /\ mask = {} /\ timer_on = FALSE /\ ready = {}
  /\ sk = "idle" /\ err = "none" /\ room = Room /\ inbox = <<>>
  /\ timer = "off"
  /\ calls = 0 /\ taken = <<>> /\ sent = <<>> /\ lost = FALSE /\ peer = 0
  /\ frames = <<>> /\ outcome = "none" /\ timed = FALSE /\ raced = FALSE

\* Thread t takes the step its stack begins with, and goes on with steps.
At(t, label)    == pc[t] # <<>> /\ Head(pc[t]) = label
Goto(t, steps)  == pc' = [pc EXCEPT ![t] = steps \o Tail(@)]
Post(tasks)     == queue' = queue \o tasks

\* Thread t is inside an update of event_types_, and another one begins.
Updating(t) == /\ pc[t] # <<>>
               /\ Head(pc[t]) \in DOMAIN Updates \cup DOMAIN Stores
Overlaps    == raced' = (raced \/ \E t \in Threads : Updating(t))

(***************************************************************************)
(* connect()                                                               *)
(***************************************************************************)
ConnectIgnored(t) ==
  /\ At(t, "cas") /\ connected # "Disconnected"
  /\ Goto(t, <<>>)
  /\ UNCHANGED <<client, queue, exe, evs, entry, ready, kernel, ghosts>>

ConnectBegins(t) ==
  /\ At(t, "cas") /\ connected = "Disconnected"
  /\ connected' = "Connecting"
  /\ outcome' = "connecting" /\ timed' = FALSE
  /\ Goto(t, <<"syscall">>)
  /\ UNCHANGED <<started, event_types, send_buf, recv_buf, queue, exe, evs,
                 entry, ready, kernel, calls, taken, sent, lost, peer, frames,
                 raced>>

\* Mutant: the timeout is never armed.
InProgress_NoArm == <<"watch sock", "watch timer">>

\* EINPROGRESS: watch the socket, watch the timer, arm it.
InProgress == <<"watch sock", "watch timer", "arm">>

\* connect(2).  After an attempt that failed, Linux makes the next call fail
\* too, with the pending error or ECONNABORTED; EALREADY and EISCONN are errors
\* as well.  "refuse" is an error that on_error reports to error_cb_, "fail"
\* one that it only logs.
Syscall(t) ==
  /\ At(t, "syscall")
  /\ \/ /\ sk = "idle"
        /\ IF Immediate
             THEN sk' = "established" /\ Goto(t, <<"connected", "start">>)
             ELSE sk' = "connecting" /\ Goto(t, InProgress)
     \/ /\ sk = "idle" \/ err = "refused"
        /\ Goto(t, <<"refuse", "disconnected">>)
        /\ sk' = "idle"
     \/ /\ sk # "idle" /\ err # "refused"
        /\ Goto(t, <<"fail", "disconnected">>)
        /\ sk' = IF sk = "failed" THEN "idle" ELSE sk
  /\ err' = IF sk = "failed" THEN "none" ELSE err
  /\ UNCHANGED <<client, queue, exe, evs, entry, ready, room, inbox, timer,
                 ghosts>>

SetConnected(t) ==
  /\ At(t, "connected")
  /\ connected' = "Connected" /\ outcome' = "connected"
  /\ Goto(t, <<>>)
  /\ UNCHANGED <<started, event_types, send_buf, recv_buf, queue, exe, evs,
                 entry, ready, kernel, calls, taken, sent, lost, peer, frames,
                 timed, raced>>

SetDisconnected(t) ==
  /\ At(t, "disconnected")
  /\ connected' = "Disconnected"
  /\ Goto(t, <<>>)
  /\ UNCHANGED <<started, event_types, send_buf, recv_buf, queue, exe, evs,
                 entry, ready, kernel, ghosts>>

\* update_event of the socket with socket_cb: the post, and the store to
\* event_types_, which nothing protects; update_event of the timer with timer_cb,
\* the task that arms it, and disable_event of the timer.
WatchSock(t) ==
  /\ At(t, "watch sock")
  /\ Post(<<Enable("connect", {"W"})>>)
  /\ Overlaps
  /\ Goto(t, <<"storeW">>)
  /\ UNCHANGED <<client, exe, evs, entry, ready, kernel, calls, taken, sent,
                 lost, peer, frames, outcome, timed>>

StoreTypes(t) ==
  \E label \in DOMAIN Stores :
    /\ At(t, label)
    /\ event_types' = Stores[label]
    /\ Goto(t, <<>>)
    /\ UNCHANGED <<connected, started, send_buf, recv_buf, queue, exe, evs,
                   entry, ready, kernel, ghosts>>

PostTimer(t) ==
  /\ \/ At(t, "watch timer") /\ Post(<<Plain("enable timer")>>)
     \/ At(t, "arm") /\ Post(<<Plain("arm")>>)
     \/ At(t, "unwatch timer") /\ Post(<<Plain("disable timer")>>)
  /\ Goto(t, <<>>)
  /\ UNCHANGED <<client, exe, evs, entry, ready, kernel, ghosts>>

(***************************************************************************)
(* start() and stop()                                                      *)
(***************************************************************************)
\* The exchange sets the flag, and then start() sets it once more.
Start(t) ==
  /\ At(t, "start")
  /\ started' = TRUE
  /\ Goto(t, IF started THEN <<>> ELSE <<"set">>)
  /\ UNCHANGED <<connected, event_types, send_buf, recv_buf, queue, exe, evs,
                 entry, ready, kernel, ghosts>>

SetStarted(t) ==
  /\ At(t, "set")
  /\ started' = TRUE
  /\ Goto(t, <<"test">>)
  /\ UNCHANGED <<connected, event_types, send_buf, recv_buf, queue, exe, evs,
                 entry, ready, kernel, ghosts>>

\* Mutant: data buffered while connecting is forgotten.
StartTest_NoWrite(t) ==
  /\ At(t, "test")
  /\ Goto(t, <<"watch RE">>)
  /\ UNCHANGED <<client, queue, exe, evs, entry, ready, kernel, ghosts>>

\* start() looks at send_buf_, on whichever thread it runs.
StartTest(t) ==
  /\ At(t, "test")
  /\ Goto(t, <<IF send_buf = <<>> THEN "watch RE" ELSE "watch RWE">>)
  /\ UNCHANGED <<client, queue, exe, evs, entry, ready, kernel, ghosts>>

StartPost(t) ==
  /\ At(t, "watch RE") \/ At(t, "watch RWE")
  /\ LET types == IF At(t, "watch RE") THEN {"R", "E"} ELSE {"R", "W", "E"}
     IN Post(<<Enable("stream", types)>>)
  /\ Overlaps
  /\ Goto(t, <<IF At(t, "watch RE") THEN "storeRE" ELSE "storeRWE">>)
  /\ UNCHANGED <<client, exe, evs, entry, ready, kernel, calls, taken, sent,
                 lost, peer, frames, outcome, timed>>

Stop(t) ==
  /\ At(t, "stop")
  /\ started' = FALSE
  /\ Goto(t, <<"stop post">>)
  /\ UNCHANGED <<connected, event_types, send_buf, recv_buf, queue, exe, evs,
                 entry, ready, kernel, ghosts>>

StopPost(t) ==
  /\ At(t, "stop post")
  /\ Post(<<Plain("disable"), Plain("disable timer")>>)
  /\ Goto(t, <<>>)
  /\ UNCHANGED <<client, exe, evs, entry, ready, kernel, ghosts>>

\* on_error: stop(), and error_cb_ for the errors it is called for.
OnError(t) ==
  /\ At(t, "fail") \/ At(t, "refuse")
  /\ Goto(t, IF At(t, "fail") THEN <<"stop">> ELSE <<"stop", "callback">>)
  /\ UNCHANGED <<client, queue, exe, evs, entry, ready, kernel, ghosts>>

\* error_cb_ or disconnect_cb_, which may call connect().
Callback(t) ==
  /\ At(t, "callback")
  /\ outcome' = IF outcome \in {"connected", "closed"} THEN "closed"
                                                      ELSE "error"
  /\ \/ Goto(t, <<>>) /\ UNCHANGED calls
     \/ /\ Retry /\ calls < MaxCalls
        /\ calls' = calls + 1
        /\ Goto(t, <<"cas">>)
  /\ UNCHANGED <<client, queue, exe, evs, entry, ready, kernel, taken, sent,
                 lost, peer, frames, timed, raced>>

ThreadStep(t) ==
  \/ ConnectIgnored(t) \/ ConnectBegins(t) \/ Syscall(t)
  \/ SetConnected(t) \/ SetDisconnected(t) \/ WatchSock(t) \/ StoreTypes(t)
  \/ PostTimer(t)
  \/ Start(t) \/ SetStarted(t) \/ StartTest(t) \/ StartPost(t) \/ Stop(t) \/ StopPost(t)
  \/ OnError(t) \/ Callback(t)

(***************************************************************************)
(* The application's calls.                                                *)
(***************************************************************************)
UserCall(steps) ==
  /\ calls < MaxCalls /\ pc["app"] = <<>>
  /\ calls' = calls + 1
  /\ pc' = [pc EXCEPT !["app"] = steps]
  /\ UNCHANGED <<client, queue, exe, evs, entry, ready, kernel, taken, sent,
                 lost, peer, frames, outcome, timed, raced>>

\* connect(), the first time and after a callback said that it failed.
AppConnect ==
  /\ outcome = "none" \/ ("connect" \in UserCalls /\ outcome = "error")
  /\ UserCall(<<"cas">>)

AppStop ==
  /\ "stop" \in UserCalls /\ started
  /\ UserCall(<<"stop">>)

AppStart ==
  /\ \/ "start" \in UserCalls /\ connected = "Connected"
     \/ "early start" \in UserCalls /\ calls = 0
  /\ ~started
  /\ UserCall(<<"start">>)

\* post_send_task, on any thread
PostSend(m) ==
  /\ \A i \in DOMAIN taken : taken[i] # m
  /\ \A i \in DOMAIN queue : queue[i] # Send(m)
  /\ \A i \in DOMAIN exe : exe[i] # Send(m)
  /\ Post(<<Send(m)>>)
  /\ UNCHANGED <<client, pc, exe, evs, entry, ready, kernel, ghosts>>

-------------------------------------------------------------------------------
(***************************************************************************)
(* The io executor: its tasks.                                             *)
(***************************************************************************)
Running(op) ==
  /\ pc["io"] = <<>> /\ exe # <<>>
  /\ Head(exe).op = op

\* What epoll would report of the socket now, for the events in types; epoll
\* adds EPOLLERR, and EPOLLHUP (which has no EventType), by itself.
Readable == inbox # <<>> \/ sk \in {"failed", "fin", "dead"}
Writable == \/ sk \in {"idle", "failed", "dead"}
            \/ sk \in {"established", "fin"} /\ room > 0
Level(types) ==
  {e \in types : (e = "R" /\ Readable) \/ (e = "W" /\ Writable)}
    \cup (IF err # "none" THEN {"E"} ELSE {})
HangUp == sk \in {"idle", "failed", "dead"}

\* epoll_ctl(ADD or MOD): the socket is polled at once.  With no types at all
\* epoll reports errors (where the assertion of kz_to_local is compiled in, the
\* program ends instead).
Watch(types) ==
  /\ mask' = IF types = {} THEN {"E"} ELSE types
  /\ ready' = IF Level(types) # {} \/ HangUp THEN ready \cup {"sock"}
                                             ELSE ready

EnableTask ==
  /\ Running("enable") \/ Running("update")
  /\ Watch(Head(exe).types)
  /\ cb' = IF Running("enable") THEN Head(exe).cb ELSE cb
  /\ exe' = Tail(exe)
  /\ UNCHANGED <<client, pc, queue, evs, timer_on, kernel, ghosts>>

DisableTask ==
  /\ Running("disable")
  /\ cb' = "none" /\ mask' = {} /\ ready' = ready \ {"sock"}
  /\ exe' = Tail(exe)
  /\ UNCHANGED <<client, pc, queue, evs, timer_on, kernel, ghosts>>

EnableTimerTask ==
  /\ Running("enable timer")
  /\ timer_on' = TRUE
  /\ ready' = IF timer = "expired" THEN ready \cup {"timer"} ELSE ready
  /\ exe' = Tail(exe)
  /\ UNCHANGED <<client, pc, queue, evs, cb, mask, kernel, ghosts>>

DisableTimerTask ==
  /\ Running("disable timer")
  /\ timer_on' = FALSE /\ ready' = ready \ {"timer"}
  /\ exe' = Tail(exe)
  /\ UNCHANGED <<client, pc, queue, evs, cb, mask, kernel, ghosts>>

\* reset_timer_fd: an expiry that was not read is gone; a timeout of zero leaves
\* the timer disarmed.
ArmTask ==
  /\ Running("arm")
  /\ timer' = (IF TimeoutMs = 0 THEN "off" ELSE "armed") /\ timed' = TRUE
  /\ exe' = Tail(exe)
  /\ UNCHANGED <<client, pc, queue, evs, entry, ready, sk, err, room, inbox,
                 calls, taken, sent, lost, peer, frames, outcome, raced>>

\* send(2) of data with MSG_NOSIGNAL: what the kernel takes and what is left.
Sending == sk \in {"connecting", "established", "fin"}
Accepted(data) == IF sk = "connecting" THEN 0
                  ELSE IF Len(data) < room THEN Len(data) ELSE room
Rest(data)     == SubSeq(data, Accepted(data) + 1, Len(data))
Transmit(data) ==
  /\ sent' = sent \o SubSeq(data, 1, Accepted(data))
  /\ room' = room - Accepted(data)
  /\ send_buf' = Rest(data)

\* Mutant: data that waits is overtaken.
MustQueue_Overtake == connected # "Connected"

\* Data is waiting, or there is no connection.
MustQueue == send_buf # <<>> \/ connected # "Connected"

\* The task of post_send_task queues: the test, and then the insertion.
SendTaskQueues ==
  /\ Running("send") /\ MustQueue
  /\ pc' = [pc EXCEPT !["io"] = <<"insert">>]
  /\ UNCHANGED <<client, queue, exe, evs, entry, ready, kernel, ghosts>>

Insert ==
  /\ At("io", "insert")
  /\ send_buf' = send_buf \o Units(Head(exe).msg)
  /\ taken' = taken \o Units(Head(exe).msg)
  /\ Goto("io", <<>>)
  /\ exe' = Tail(exe)
  /\ UNCHANGED <<connected, started, event_types, recv_buf, queue, evs, entry,
                 ready, kernel, calls, sent, lost, peer, frames, outcome,
                 timed, raced>>

\* get_event_info and update_event of the types computed from it: one step here,
\* two to come, before what the io executor goes on with.
UpdateEvent(types, steps) ==
  /\ pc' = [pc EXCEPT !["io"] =
              <<CHOOSE l \in DOMAIN Updates : Updates[l] = types>> \o steps]
  /\ Overlaps
NoUpdate(steps) == pc' = [pc EXCEPT !["io"] = steps] /\ UNCHANGED raced

\* Mutant: the write event is not requested.
AwaitWritable_Never(rest) == NoUpdate(<<>>)

\* Data that waits in send_buf_ needs the write event.
AwaitWritable(rest) ==
  IF rest = <<>> THEN NoUpdate(<<>>)
                 ELSE UpdateEvent(event_types \cup {"W"}, <<>>)

\* The task of post_send_task sends directly.  What the kernel did not take
\* waits in send_buf_; on an error the data is dropped (and the error is no
\* longer pending).
SendTaskSends ==
  /\ Running("send") /\ ~MustQueue
  /\ LET data == Units(Head(exe).msg)
     IN /\ taken' = taken \o data
        /\ \/ /\ Sending
              /\ Transmit(data) /\ AwaitWritable(Rest(data))
              /\ UNCHANGED <<lost, err>>
           \/ /\ ~Sending
              /\ lost' = TRUE /\ err' = "none"
              /\ NoUpdate(<<>>) /\ UNCHANGED <<sent, room, send_buf>>
  /\ exe' = Tail(exe)
  /\ UNCHANGED <<connected, started, event_types, recv_buf, queue, evs, entry,
                 ready, sk, inbox, timer, calls, peer, frames, outcome, timed>>

\* update_event posts; the store follows.
PostUpdate ==
  \E label \in DOMAIN Updates :
    /\ At("io", label)
    /\ Post(<<Update(Updates[label])>>)
    /\ Goto("io", <<CHOOSE l \in DOMAIN Stores : Stores[l] = Updates[label]>>)
    /\ UNCHANGED <<client, exe, evs, entry, ready, kernel, ghosts>>

RunTask == \/ EnableTask \/ DisableTask \/ EnableTimerTask \/ DisableTimerTask
           \/ ArmTask \/ SendTaskQueues \/ Insert \/ SendTaskSends

-------------------------------------------------------------------------------
(***************************************************************************)
(* The io executor: its events.                                            *)
(***************************************************************************)
Orders(S) == {o \in [1..Cardinality(S) -> S] :
                \A i, j \in 1..Cardinality(S) : o[i] = o[j] => i = j}

\* epoll_wait: what is on the ready list and still has something to report,
\* and the wake event of the queue, in any order.
epoll_wait ==
  /\ pc["io"] = <<>> /\ exe = <<>> /\ evs = <<>>
  /\ ready # {} \/ queue # <<>>
  /\ LET found ==
           (IF "sock" \in ready /\ (Level(mask) # {} \/ HangUp)
              THEN {[src |-> "sock", types |-> Level(mask)]} ELSE {})
           \cup (IF "timer" \in ready /\ timer = "expired"
                   THEN {[src |-> "timer", types |-> {"R"}]} ELSE {})
           \cup (IF queue # <<>>
                   THEN {[src |-> "wake", types |-> {"R"}]} ELSE {})
     IN evs' \in Orders(found)
  /\ ready' = {}
  /\ UNCHANGED <<client, pc, queue, exe, entry, kernel, ghosts>>

\* The next event of the batch, from src.
Event(src) ==
  /\ pc["io"] = <<>> /\ exe = <<>> /\ evs # <<>>
  /\ Head(evs).src = src
  /\ evs' = Tail(evs)

TakeTasks ==
  /\ Event("wake")
  /\ exe' = queue /\ queue' = <<>>
  /\ UNCHANGED <<client, pc, entry, ready, kernel, ghosts>>

\* The callback is gone, or socket_cb gets no write event.
NoHandler ==
  /\ \/ Event("sock") /\ cb = "none"
     \/ Event("sock") /\ cb = "connect" /\ "W" \notin Head(evs).types
     \/ Event("timer") /\ ~timer_on
  /\ UNCHANGED <<client, pc, queue, exe, entry, ready, kernel, ghosts>>

Failure == <<"disconnected", "unwatch timer", "refuse">>
Success == <<"connected", "unwatch timer", "start">>

\* SO_ERROR tells how the attempt ended.
Attempt == IF err # "none" THEN Failure ELSE Success

\* socket_cb
SocketCb ==
  /\ Event("sock")
  /\ cb = "connect" /\ "W" \in Head(evs).types
  /\ err' = "none"
  /\ pc' = [pc EXCEPT !["io"] = Attempt]
  /\ UNCHANGED <<client, queue, exe, entry, ready, sk, room, inbox, timer,
                 ghosts>>

\* timer_cb
TimerCb ==
  /\ Event("timer") /\ timer_on
  /\ timer' = "off"
  /\ pc' = [pc EXCEPT !["io"] =
              IF connected = "Connected" THEN <<"unwatch timer">> ELSE Failure]
  /\ UNCHANGED <<client, queue, exe, entry, ready, sk, err, room, inbox,
                 ghosts>>

\* The callback of start(): its phases, of which the event types select some.
StreamCb ==
  /\ Event("sock") /\ cb = "stream"
  /\ LET Phase(type, label) ==
           IF type \in Head(evs).types THEN <<label>> ELSE <<>>
     IN pc' = [pc EXCEPT !["io"] = Phase("R", "read") \o Phase("W", "write")
                                     \o Phase("E", "error") \o <<"split">>]
  /\ UNCHANGED <<client, queue, exe, entry, ready, kernel, ghosts>>

\* Mutant: the end of the connection is forgotten.
Disconnected_Ignored == Goto("io", <<>>)

\* Mutant: the connection is closed before the frames are split off.
Disconnected_AtOnce == Goto("io", <<"closed">>)

\* disconnected = true: after the other phases, the connection is closed.
Disconnected ==
  LET rest == Tail(pc["io"])
  IN pc' = [pc EXCEPT !["io"] = IF \E i \in DOMAIN rest : rest[i] = "closed"
                                  THEN rest ELSE rest \o <<"closed">>]

\* Mutant: ECONNRESET is an error like any other.
EndOfStream_NoReset == sk \in {"failed", "fin", "dead"} /\ err = "none"

\* What stream_recv takes for the end of the connection: 0 and ECONNRESET.
EndOfStream == sk \in {"failed", "fin", "dead"} /\ err \in {"none", "reset"}

\* Read everything; then EAGAIN, the end of the stream, or an error.
Read ==
  /\ At("io", "read")
  /\ inbox' = <<>>
  /\ \/ /\ sk \in {"connecting", "established"}
        /\ Goto("io", <<>>)
        /\ recv_buf' = recv_buf \o inbox
     \/ /\ EndOfStream
        /\ Disconnected
        /\ recv_buf' = recv_buf \o inbox
     \/ /\ ~EndOfStream /\ sk \notin {"connecting", "established"}
        /\ Goto("io", <<>>)
        /\ recv_buf' = <<>>
  /\ err' = "none"
  /\ UNCHANGED <<connected, started, event_types, send_buf, queue, exe, evs,
                 entry, ready, sk, room, timer, ghosts>>

\* The write event is given up when nothing is left.
Drained(rest) ==
  IF rest = <<>> THEN UpdateEvent(event_types \ {"W"}, Tail(pc["io"]))
                 ELSE NoUpdate(Tail(pc["io"]))

\* Write until nothing is left, or EAGAIN, or an error.
Write ==
  /\ At("io", "write")
  /\ \/ /\ Sending
        /\ Transmit(send_buf) /\ Drained(Rest(send_buf))
        /\ UNCHANGED <<recv_buf, err>>
     \/ /\ ~Sending /\ err = "none"
        /\ Disconnected
        /\ UNCHANGED <<raced, sent, room, send_buf, recv_buf, err>>
     \/ /\ ~Sending /\ err # "none"
        /\ recv_buf' = <<>> /\ err' = "none"
        /\ NoUpdate(Tail(pc["io"])) /\ UNCHANGED <<sent, room, send_buf>>
  /\ UNCHANGED <<connected, started, event_types, queue, exe, evs, entry, ready,
                 sk, inbox, timer, calls, taken, lost, peer, frames, outcome,
                 timed>>

\* SO_ERROR: ECONNRESET does nothing here, any other error closes.
Error ==
  /\ At("io", "error")
  /\ err' = "none"
  /\ IF err \in {"none", "reset"}
       THEN Goto("io", <<>>) /\ UNCHANGED <<recv_buf, send_buf, lost>>
       ELSE /\ recv_buf' = <<>> /\ send_buf' = <<>>
            /\ lost' = (lost \/ send_buf # <<>>)
            /\ Goto("io", <<"refuse">>)
  /\ UNCHANGED <<connected, started, event_types, queue, exe, evs, entry,
                 ready, sk, room, inbox, timer, calls, taken, sent, peer,
                 frames, outcome, timed, raced>>

Whole(buf) == 2 * (Len(buf) \div 2)

Unsplit(buf) == SubSeq(buf, Whole(buf) + 1, Len(buf))

\* on_split and on_fragment for every frame (two units) in recv_buf_.
Split ==
  /\ At("io", "split")
  /\ frames' = frames \o SubSeq(recv_buf, 1, Whole(recv_buf))
  /\ recv_buf' = Unsplit(recv_buf)
  /\ Goto("io", <<>>)
  /\ UNCHANGED <<connected, started, event_types, send_buf, queue, exe, evs,
                 entry, ready, kernel, calls, taken, sent, lost, peer, outcome,
                 timed, raced>>

\* on_disconnect: stop() and disconnect_cb_.
Closed ==
  /\ At("io", "closed")
  /\ recv_buf' = <<>> /\ send_buf' = <<>>
  /\ lost' = (lost \/ send_buf # <<>>)
  /\ Goto("io", <<"stop", "callback">>)
  /\ UNCHANGED <<connected, started, event_types, queue, exe, evs, entry,
                 ready, kernel, calls, taken, sent, peer, frames, outcome,
                 timed, raced>>

IoStep == \/ epoll_wait \/ TakeTasks \/ RunTask
          \/ NoHandler \/ SocketCb \/ TimerCb \/ StreamCb
          \/ Read \/ Write \/ PostUpdate \/ Error \/ Split \/ Closed
          \/ ThreadStep("io")

-------------------------------------------------------------------------------
(***************************************************************************)
(* The environment: the network, the peer and the clock.                   *)
(***************************************************************************)
Signal(src, watched) ==
  ready' = IF watched THEN ready \cup {src} ELSE ready
Quietly == UNCHANGED <<client, pc, queue, exe, evs, entry>>

ConnectEnds ==
  /\ sk = "connecting"
  /\ \/ sk' = "established" /\ UNCHANGED err
     \/ sk' = "failed" /\ err' = "refused"
  /\ Signal("sock", mask # {})
  /\ Quietly /\ UNCHANGED <<room, inbox, timer, ghosts>>

PeerSends ==
  /\ sk = "established" /\ peer < MaxPeer
  /\ peer' = peer + 1
  /\ inbox' = Append(inbox, peer')
  /\ Signal("sock", "R" \in mask)
  /\ Quietly /\ UNCHANGED <<sk, err, room, timer, calls, taken, sent, lost,
                            frames, outcome, timed, raced>>

PeerCloses ==
  /\ sk = "established"
  /\ sk' = "fin"
  /\ Signal("sock", mask # {})
  /\ Quietly /\ UNCHANGED <<err, room, inbox, timer, ghosts>>

\* An error breaks the connection.  After the peer's end of stream a reset
\* (EPIPE) reads as end of stream and is not told from it.
Breaks(e) ==
  /\ sk = "established" \/ (sk = "fin" /\ e = "reset")
  /\ sk' = "dead"
  /\ err' = IF sk = "fin" THEN "none" ELSE e
  /\ Signal("sock", mask # {})
  /\ Quietly /\ UNCHANGED <<room, inbox, timer, ghosts>>

Drain ==
  /\ sk \in {"established", "fin"} /\ room < Room
  /\ room' = Room
  /\ Signal("sock", room = 0 /\ "W" \in mask)
  /\ Quietly /\ UNCHANGED <<sk, err, inbox, timer, ghosts>>

Expire ==
  /\ timer = "armed"
  /\ timer' = "expired"
  /\ Signal("timer", timer_on)
  /\ Quietly /\ UNCHANGED <<sk, err, room, inbox, ghosts>>

Next ==
  \/ IoStep \/ ThreadStep("app")
  \/ AppConnect \/ AppStop \/ AppStart \/ \E m \in Messages : PostSend(m)
  \/ ConnectEnds \/ PeerSends \/ PeerCloses \/ Drain \/ Expire
  \/ \E e \in NetErrors : Breaks(e)

Spec == Init /\ [][Next]_vars

\* The threads finish what they began, the timer expires, and the peer goes
\* on reading; an attempt to connect need never end by itself.
FairSpec == /\ Spec
            /\ WF_vars(IoStep) /\ WF_vars(ThreadStep("app"))
            /\ WF_vars(Expire) /\ WF_vars(Drain)

-------------------------------------------------------------------------------
(***************************************************************************)
(* Properties.                                                             *)
(***************************************************************************)
\* The types of the client, the loop and the kernel.
TypeOK ==
  /\ connected \in {"Disconnected", "Connecting", "Connected"}
  /\ started \in BOOLEAN
  /\ event_types \in {{}, {"W"}, {"R", "E"}, EventTypes}
  /\ send_buf \in Seq(Messages) /\ recv_buf \in Seq(1..MaxPeer)
  /\ pc \in [Threads -> Seq(Labels)]
  /\ queue \in Seq(Tasks) /\ exe \in Seq(Tasks)
  /\ evs \in Seq([src : {"sock", "timer", "wake"}, types : SUBSET EventTypes])
  /\ cb \in {"none", "connect", "stream"} /\ mask \subseteq EventTypes
  /\ timer_on \in BOOLEAN /\ ready \subseteq {"sock", "timer"}
  /\ sk \in SkStates /\ err \in {"none", "refused"} \cup NetErrors
  /\ room \in 0..Room /\ inbox \in Seq(1..MaxPeer)
  /\ timer \in {"off", "armed", "expired"}
  /\ calls \in 0..MaxCalls /\ peer \in 0..MaxPeer

\* Nothing is left to do for the library until something happens outside.
Quiet == /\ \A t \in Threads : pc[t] = <<>>
         /\ queue = <<>> /\ exe = <<>> /\ evs = <<>>

Serving == connected = "Connected" /\ started

\* What the application sends reaches the kernel in the order in which it was
\* posted, whole and once, whether it was sent directly, in parts, or waited in
\* send_buf_ for the connection or for room; units are given up only when the
\* connection breaks or closes.
SendOrder == ~lost => sent \o send_buf = taken

\* Data that waits in send_buf_ on an open connection is going to be written:
\* the stream callback is registered for the write event and, if the kernel
\* has room already, the event is on its way.
PendingDataIsWatched ==
  Quiet /\ Serving /\ send_buf # <<>> /\ sk \in {"established", "fin"} =>
    cb = "stream" /\ "W" \in mask /\ (room > 0 => "sock" \in ready)

\* Input and the peer's end of stream are not overlooked: as long as one of
\* them is unread, and the end was not reported, the stream callback is
\* installed and its event on its way.  Unless two threads have updated
\* event_types_ at a time: the update that is left may lack the read event.
InputIsHandled ==
  Quiet /\ Serving /\ outcome = "connected" /\ (inbox # <<>> \/ sk = "fin") =>
    raced \/ (cb = "stream" /\ "R" \in mask /\ "sock" \in ready)

\* A connection that broke is reported, with the same exception: the client
\* does not go on as started with nothing on its way to a callback.
LostConnectionIsReported ==
  Quiet /\ Serving /\ outcome = "connected" /\ sk = "dead" =>
    raced \/ "sock" \in ready

\* No event types are posted that epoll could not wait for (the assertion in
\* kz_to_local).
UpdatesHaveTypes ==
  \A i \in DOMAIN queue :
    queue[i].op \in {"enable", "update"} => queue[i].types # {}

\* The client takes itself for connected only when the kernel's socket is, or
\* has been.
ConnectedIsReal ==
  connected = "Connected" => sk \in {"established", "fin", "dead"}

\* The frames given to on_fragment are the peer's stream, cut at the right
\* places and without a gap.
FramesAreWhole == \A i \in DOMAIN frames : frames[i] = i

\* The frames given to on_fragment are always whole, and when the peer has
\* closed and the client has reported it, none of the stream is missing.
FramesBeforeDisconnect ==
  /\ FramesAreWhole
  /\ Quiet /\ outcome = "closed" /\ sk = "fin" =>
       Len(frames) = 2 * (peer \div 2)

\* An attempt that error_cb_ has reported as failed does not succeed later.
OneOutcome == [][outcome = "error" => outcome' # "connected"]_vars

\* disconnect_cb_ is called once for a connection.
DisconnectOnce == [][Closed => outcome # "closed"]_vars

\* A timeout is reported only when the timer armed for this attempt expired.
TimeoutIsReal == [][TimerCb /\ connected = "Connecting" => timed]_vars

\* connect() is never ignored once a callback has said that the connection is
\* over: it ignores the call only when "already connected / connecting".
IgnoredWhenConnected ==
  [][\A t \in Threads : ConnectIgnored(t) => outcome # "closed"]_vars

\* An attempt to connect ends, at the latest by its timeout.
ConnectResolves == connected = "Connecting" ~> connected # "Connecting"

\* Data that waits on an open connection is written while the peer reads.
DataIsWritten ==
  Serving /\ send_buf # <<>> ~> send_buf = <<>> \/ ~Serving
===============================================================================

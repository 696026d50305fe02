------------------------------- MODULE UdpSocket ------------------------------
(***************************************************************************)
(* kzevent::net::DgramSocket (inet.hpp, inet.cpp) and its three kinds,     *)
(* UdpNode, UdpClient and UdpServer (udp_socket.hpp, udp_socket.cpp): the  *)
(* read loop, the callbacks that are set after the start, the sessions of  *)
(* a server and the timer that scans them, start(), stop(), sends and the  *)
(* destructors.                                                            *)
(*                                                                         *)
(* The loop is what LoopExecutor and LoopEvents show it to be.  Sockets    *)
(* and timer descriptors are external.  Time passes in Tick, also inside   *)
(* of a callback; what is kept of a time is how long ago it was, up to     *)
(* Long.  A datagram is the peer it comes from: the network may lose,      *)
(* repeat and reorder datagrams as it likes.                               *)
(***************************************************************************)
EXTENDS Integers, Sequences, FiniteSets

CONSTANTS
  Kinds,                  \* subset of {"node", "client", "server"}
  Peers,                  \* addresses that send to the socket
  Groups,                 \* multicast groups
  Callers,                \* threads that call start() and stop()
  NetErrors,              \* errors that the socket may report
  session_timeout_ms,
  kScanFrequencyDivisor, kMinScanIntervalMs, kMaxScanIntervalMs,
  MaxInbox,               \* datagrams that fit in the socket's buffer
  MaxHeavy, MaxQueue      \* bounds on the tasks that wait

None      == "none"
NoSession == -1
Channels  == {"dgram", "timer"}

ASSUME UdpAssumption ==
  /\ Kinds \subseteq {"node", "client", "server"}
  /\ NetErrors \subseteq {"refused", "other"}
  /\ session_timeout_ms \in Nat \ {0}   \* make_udp_server refuses 0
  /\ kScanFrequencyDivisor \in Nat \ {0}
  /\ kMinScanIntervalMs \in Nat \ {0}
  /\ kMaxScanIntervalMs \in Nat /\ kMinScanIntervalMs <= kMaxScanIntervalMs
  /\ MaxInbox \in Nat /\ MaxHeavy \in Nat /\ MaxQueue \in Nat

VARIABLES
  kind,
  source_,   \* the peer of a UdpClient
  owner,     \* the object: "owned" by the application, "released", or "gone"
  cbs,       \* which of new_session_cb_, read_cb_ and error_cb_ are set
  started,   \* started_ of DgramSocket ("dgram") and of UdpServer ("timer")
  call,      \* per caller: the steps left of its start() or stop()
  sessions,  \* sessions_: how long ago time_stamp_ is, or NoSession
  queue,     \* io tasks
  heavy,     \* heavy tasks: the callback, and the peer
  pc,        \* the phases left of the callback that the io thread is in
  watched,   \* the channels in the epoll set, with their callbacks
  ready,     \* epoll's ready list
  inbox,     \* datagrams in the socket
  err,       \* SO_ERROR
  joined,    \* the socket's multicast groups
  timer,     \* the timerfd: time left, interval, whether it is readable
  idle,      \* ghost: how long ago the last datagram of a peer arrived
  cut        \* ghost: an error ended the read loop

app    == <<kind, source_, cbs, started, call>>
kernel == <<inbox, err, joined, timer>>
vars   == <<app, owner, sessions, queue, heavy, pc, watched, ready, kernel,
            idle, cut>>

\* Mutant: no lower limit.
ScanTime_NoMin(timeout) ==
  LET scan == timeout \div kScanFrequencyDivisor
  IN IF scan > kMaxScanIntervalMs THEN kMaxScanIntervalMs ELSE scan

\* UdpServer's constructor: the interval between two scans.
ScanTime(timeout) ==
  LET scan == timeout \div kScanFrequencyDivisor
  IN IF scan < kMinScanIntervalMs THEN kMinScanIntervalMs
     ELSE IF scan > kMaxScanIntervalMs THEN kMaxScanIntervalMs
     ELSE scan

Scan == ScanTime(session_timeout_ms)
Long == session_timeout_ms + kMaxScanIntervalMs + 1
Older(t) == IF t < Long THEN t + 1 ELSE Long

\* make_timer_channel: 0 arms nothing, and without repeat_ms it expires once.
make_timer_channel(timeout_ms, repeat_ms) ==
  [left |-> timeout_ms, repeat |-> IF timeout_ms = 0 THEN 0 ELSE repeat_ms,
   due |-> FALSE]

Task(op, ch) == [op |-> op, ch |-> ch]
Parts == IF kind = "server" THEN {"dgram", "timer"} ELSE {"dgram"}

-------------------------------------------------------------------------------
\* make_udp_client is given the peer of the client.
Sources == IF kind = "client" THEN Peers ELSE {None}

\* make_udp_node, make_udp_client or make_udp_server: the constructors, with
\* their channels, and start().
Init ==
  /\ kind \in Kinds
  /\ source_ \in Sources
  /\ owner = "owned" /\ cbs = {}
  /\ started = [ch \in Channels |-> ch \in Parts]
  /\ call = [t \in Callers |-> <<>>]
  /\ sessions = [p \in Peers |-> NoSession]
  /\ queue = <<Task("enable", "dgram")>>
               \o (IF kind = "server" THEN <<Task("enable", "timer")>>
                                      ELSE <<>>)
  /\ heavy = <<>> /\ pc = <<>>
  /\ watched = {} /\ ready = {}
  /\ inbox = <<>> /\ err = None /\ joined = {}
  /\ timer = IF kind = "server" THEN make_timer_channel(Scan, Scan)
                                ELSE make_timer_channel(0, 0)
  /\ idle = [p \in Peers |-> Long] /\ cut = FALSE

(***************************************************************************)
(* The application.                                                        *)
(***************************************************************************)
\* set_new_session_cb, set_read_cb, set_error_cb
SetCb(cb) ==
  /\ owner = "owned" /\ cb \notin cbs
  /\ cb = "new" => kind = "server"
  /\ cb = "error" => kind = "client"
  /\ cbs' = cbs \cup {cb}
  /\ UNCHANGED <<kind, source_, started, call, owner, sessions, queue, heavy,
                 pc, watched, ready, kernel, idle, cut>>

\* start() and stop(): the part of the base class, then that of UdpServer.
\* start() sets the flag, and goes on only if it was clear.
Both(ops) ==
  LET steps(ch) == <<Task(ops[1], ch), Task(ops[2], ch)>>
  IN steps("dgram") \o (IF kind = "server" THEN steps("timer") ELSE <<>>)
StartSteps == Both(<<"set", "enable">>)
StopSteps  == Both(<<"clear", "disable">>)

\* The next of these steps of t clears the flag, or tests and sets it.
Flag(t, steps) ==
  /\ steps # <<>> /\ Head(steps).op \in {"set", "clear"}
  /\ LET step == Head(steps)
         done == step.op = "set" /\ started[step.ch]
     IN /\ started' = [started EXCEPT ![step.ch] = (step.op = "set")]
        /\ call' = [call EXCEPT ![t] = IF done THEN Tail(Tail(steps))
                                               ELSE Tail(steps)]
  /\ UNCHANGED <<kind, source_, cbs, owner, sessions, queue, heavy, pc,
                 watched, ready, kernel, idle, cut>>

Calls(t) ==
  /\ owner = "owned" /\ call[t] = <<>>
  /\ Flag(t, StartSteps) \/ Flag(t, StopSteps)

CallFlag(t) == Flag(t, call[t])

\* update_event and disable_event post their tasks.
CallPosts(t) ==
  /\ call[t] # <<>> /\ Head(call[t]).op \in {"enable", "disable"}
  /\ Len(queue) < MaxQueue
  /\ queue' = Append(queue, Head(call[t]))
  /\ call' = [call EXCEPT ![t] = Tail(@)]
  /\ UNCHANGED <<kind, source_, cbs, started, owner, sessions, heavy, pc,
                 watched, ready, kernel, idle, cut>>

\* post_send_task, of the socket or of a session that locks its server_; one
\* send at a time is enough.
PostSend ==
  /\ owner # "gone" /\ Len(queue) < MaxQueue
  /\ \A i \in DOMAIN queue : queue[i].op # "send"
  /\ queue' = Append(queue, Task("send", "dgram"))
  /\ UNCHANGED <<app, owner, sessions, heavy, pc, watched, ready, kernel,
                 idle, cut>>

\* joint_group and leave_group, where the subclass exports them: setsockopt
\* fails, and changes nothing, for a group that is (not) joined already.
Group(g) ==
  /\ owner = "owned" /\ kind # "server"
  /\ joined' \in {joined \cup {g}, joined \ {g}}
  /\ UNCHANGED <<app, owner, sessions, queue, heavy, pc, watched, ready,
                 inbox, err, timer, idle, cut>>

\* The destructors, of the subclass and of DgramSocket: a channel is disabled
\* and then unregistered.
Destroy ==
  /\ owner' = "gone"
  /\ started' = [ch \in Channels |-> FALSE]
  /\ sessions' = [p \in Peers |-> NoSession]
  /\ queue' = queue \o (IF kind = "server"
                          THEN <<Task("disable", "timer"),
                                 Task("unregister", "timer")>>
                          ELSE <<>>)
                    \o <<Task("disable", "dgram"),
                         Task("unregister", "dgram")>>
  /\ UNCHANGED <<kind, source_, cbs, call>>

\* The application lets go of the object, which lives on while a callback of
\* the io thread has it locked.
Release ==
  /\ owner = "owned" /\ \A t \in Callers : call[t] = <<>>
  /\ \/ pc = <<>> /\ Destroy
     \/ pc # <<>> /\ owner' = "released" /\ UNCHANGED <<app, sessions, queue>>
  /\ UNCHANGED <<heavy, pc, watched, ready, kernel, idle, cut>>

\* The heavy executor runs a task; post_heavy_task's wrapper calls the callback
\* if the object locks.
RunHeavy ==
  /\ heavy # <<>>
  /\ heavy' = Tail(heavy)
  /\ UNCHANGED <<app, owner, sessions, queue, pc, watched, ready, kernel,
                 idle, cut>>
Deliver == owner # "gone" /\ RunHeavy
Skip    == owner = "gone" /\ RunHeavy

-------------------------------------------------------------------------------
(***************************************************************************)
(* The io thread.                                                          *)
(***************************************************************************)
\* What epoll would report of a channel now.
Level(ch) ==
  IF ch = "timer" THEN (IF timer.due THEN {"R"} ELSE {})
  ELSE (IF inbox # <<>> THEN {"R"} ELSE {})
         \cup (IF err # None THEN {"E"} ELSE {})

Running(ops) == pc = <<>> /\ queue # <<>> /\ Head(queue).op \in ops
Ch == Head(queue).ch

\* enable_fd, unless the object is gone: then its callback does nothing.
EnableTask ==
  /\ Running({"enable"})
  /\ watched' = watched \cup {Ch}
  /\ ready' = IF Level(Ch) # {} THEN ready \cup {Ch} ELSE ready
  /\ queue' = Tail(queue)
  /\ UNCHANGED <<app, owner, sessions, heavy, pc, kernel, idle, cut>>

\* disable_fd; unregister_fd closes the descriptor too.
DisableTask ==
  /\ Running({"disable", "unregister"})
  /\ watched' = watched \ {Ch} /\ ready' = ready \ {Ch}
  /\ LET closed == IF Head(queue).op = "unregister" THEN {Ch} ELSE {}
     IN /\ inbox' = IF "dgram" \in closed THEN <<>> ELSE inbox
        /\ err' = IF "dgram" \in closed THEN None ELSE err
        /\ joined' = IF "dgram" \in closed THEN {} ELSE joined
        /\ timer' = IF "timer" \in closed THEN make_timer_channel(0, 0)
                                          ELSE timer
  /\ queue' = Tail(queue)
  /\ UNCHANGED <<app, owner, sessions, heavy, pc, idle, cut>>

\* dgram_send, if the object locks: the datagram is sent; it is dropped when
\* the socket's buffer is full (EAGAIN), and sendto reports a pending error.
SendTask ==
  /\ Running({"send"})
  /\ err' = IF owner = "gone" THEN err ELSE None
  /\ queue' = Tail(queue)
  /\ UNCHANGED <<app, owner, sessions, heavy, pc, watched, ready, inbox,
                 joined, timer, idle, cut>>

\* An event is dispatched, if it is still there and the object locks.
Event(ch) ==
  /\ pc = <<>> /\ ch \in ready
  /\ ready' = ready \ {ch}
  /\ LET types == Level(ch)
     IN pc' = IF types = {} \/ owner = "gone" THEN <<>>
              ELSE IF ch = "timer" THEN <<"scan", "leave">>
              ELSE (IF "R" \in types THEN <<"read">> ELSE <<>>)
                     \o (IF "E" \in types THEN <<"error">> ELSE <<>>)
                     \o <<"leave">>
  /\ cut' = IF ch = "dgram" THEN FALSE ELSE cut
  /\ UNCHANGED <<app, owner, sessions, queue, heavy, watched, kernel, idle>>

At(label) == pc # <<>> /\ Head(pc) = label

\* The callback that on_read of each kind posts for a datagram of p, if any.
NodeWants(p)   == IF "read" \in cbs THEN "read" ELSE None
ClientWants(p) == IF "read" \in cbs /\ p = source_ THEN "read" ELSE None
ServerWants(p) ==
  IF sessions[p] = NoSession /\ "new" \in cbs THEN "new"
  ELSE IF "read" \in cbs THEN "read"
  ELSE None

Wanted(p) == CASE kind = "node"   -> NodeWants(p)
               [] kind = "client" -> ClientWants(p)
               [] kind = "server" -> ServerWants(p)

\* Mutant: one datagram per event.
ReadLoop_Once == Tail(pc)

\* The loop goes on.
ReadLoop == pc

\* Mutant: the time stamp is that of the first datagram.
Stamped_Once(p) == [sessions EXCEPT ![p] = IF @ = NoSession THEN 0 ELSE @]

\* The session is made, or its time stamp is refreshed.
Stamped(p) == [sessions EXCEPT ![p] = 0]

\* dgram_recv and on_read, for one datagram.
Read ==
  /\ At("read") /\ err = None /\ inbox # <<>>
  /\ Len(heavy) < MaxHeavy
  /\ inbox' = Tail(inbox)
  /\ LET p  == Head(inbox)
         cb == Wanted(p)
     IN /\ heavy' = IF cb = None THEN heavy
                    ELSE Append(heavy, [cb |-> cb, peer |-> p])
        /\ IF kind = "server" /\ cb # None
             THEN sessions' = Stamped(p) /\ UNCHANGED idle
             ELSE idle' = [idle EXCEPT ![p] = Long] /\ UNCHANGED sessions
  /\ pc' = ReadLoop
  /\ UNCHANGED <<app, owner, queue, watched, ready, err, joined, timer, cut>>

\* The loop ends: EAGAIN, or an error, which recvfrom takes from the socket.
ReadEnds ==
  /\ At("read")
  /\ err # None \/ inbox = <<>>
  /\ pc' = Tail(pc)
  /\ cut' = (err # None) /\ err' = None
  /\ UNCHANGED <<app, owner, sessions, queue, heavy, watched, ready, inbox,
                 joined, timer, idle>>

\* SO_ERROR; on_error logs it.  UdpClient's calls error_cb_ on ECONNREFUSED.
Error ==
  /\ At("error")
  /\ pc' = Tail(pc) /\ err' = None
  /\ UNCHANGED <<app, owner, sessions, queue, heavy, watched, ready, inbox,
                 joined, timer, idle, cut>>

Expired(age) == age > session_timeout_ms

\* The timer's callback: read the timerfd dry and erase what has expired.
ScanSessions ==
  /\ At("scan")
  /\ timer' = [timer EXCEPT !.due = FALSE]
  /\ sessions' = [p \in Peers |->
                    IF sessions[p] # NoSession /\ Expired(sessions[p])
                      THEN NoSession ELSE sessions[p]]
  /\ pc' = Tail(pc)
  /\ UNCHANGED <<app, owner, queue, heavy, watched, ready, inbox, err, joined,
                 idle, cut>>

\* The callback returns, and drops what may be the last reference.
Leave ==
  /\ At("leave")
  /\ pc' = <<>>
  /\ IF owner = "released" THEN Destroy
                           ELSE UNCHANGED <<app, owner, sessions, queue>>
  /\ UNCHANGED <<heavy, watched, ready, kernel, idle, cut>>

IoStep == \/ EnableTask \/ DisableTask \/ SendTask
          \/ \E ch \in Channels : Event(ch)
          \/ Read \/ ReadEnds \/ Error \/ ScanSessions \/ Leave

-------------------------------------------------------------------------------
(***************************************************************************)
(* The network and the clock.                                              *)
(***************************************************************************)
Signal(ch) == ready' = IF ch \in watched THEN ready \cup {ch} ELSE ready

Bound == owner # "gone" \/ \E i \in DOMAIN queue :
                             queue[i] = Task("unregister", "dgram")

\* A datagram reaches the socket, or one of its groups; what does not fit is
\* lost.
Arrive(p, to) ==
  /\ Bound /\ to \in joined \cup {None} /\ Len(inbox) < MaxInbox
  /\ inbox' = Append(inbox, p)
  /\ idle' = [idle EXCEPT ![p] = 0]
  /\ Signal("dgram")
  /\ UNCHANGED <<app, owner, sessions, queue, heavy, pc, watched, err, joined,
                 timer, cut>>

SocketError(e) ==
  /\ Bound /\ err = None
  /\ err' = e
  /\ Signal("dgram")
  /\ UNCHANGED <<app, owner, sessions, queue, heavy, pc, watched, inbox,
                 joined, timer, idle, cut>>

Tick ==
  /\ sessions' = [p \in Peers |-> IF sessions[p] = NoSession THEN NoSession
                                  ELSE Older(sessions[p])]
  /\ idle' = [p \in Peers |-> Older(idle[p])]
  /\ LET expires == timer.left = 1
     IN /\ timer' = [timer EXCEPT
                       !.left = IF expires THEN timer.repeat
                                ELSE IF @ = 0 THEN 0 ELSE @ - 1,
                       !.due = @ \/ expires]
        /\ IF expires THEN Signal("timer") ELSE UNCHANGED ready
  /\ UNCHANGED <<app, owner, queue, heavy, pc, watched, inbox, err, joined,
                 cut>>

AppStep == \/ \E cb \in {"new", "read", "error"} : SetCb(cb)
           \/ \E t \in Callers : Calls(t) \/ CallFlag(t) \/ CallPosts(t)
           \/ \E g \in Groups : Group(g)
           \/ PostSend \/ Release \/ Deliver \/ Skip

Next == \/ AppStep \/ IoStep \/ Tick
        \/ \E p \in Peers, to \in Groups \cup {None} : Arrive(p, to)
        \/ \E e \in NetErrors : SocketError(e)

Spec == Init /\ [][Next]_vars

-------------------------------------------------------------------------------
(***************************************************************************)
(* Properties.                                                             *)
(***************************************************************************)
Quiet == /\ pc = <<>> /\ queue = <<>>
         /\ \A t \in Callers : call[t] = <<>>

\* The types of the object, of its tasks, of the socket and of the timer.
TypeOK ==
  /\ kind \in Kinds /\ owner \in {"owned", "released", "gone"}
  /\ cbs \subseteq {"new", "read", "error"}
  /\ started \in [Channels -> BOOLEAN]
  /\ sessions \in [Peers -> 0..Long \cup {NoSession}]
  /\ heavy \in Seq([cb : {"new", "read"}, peer : Peers])
  /\ ready \subseteq watched /\ watched \subseteq Parts
  /\ inbox \in Seq(Peers) /\ joined \subseteq Groups
  /\ timer.left \in 0..Scan
  /\ idle \in [Peers -> 0..Long]

\* UdpServer keeps the sessions of its peers as SessionLease says: the scan
\* never takes a session, and its user context, from a peer that was heard
\* within session_timeout_ms, although the time stamps are those of the
\* handling and the clock goes on while datagrams and scans wait.
Lease == INSTANCE SessionLease
           WITH Timeout <- session_timeout_ms,
                unread <- {inbox[i] : i \in DOMAIN inbox},
                leased <- {p \in Peers : sessions[p] # NoSession}
SessionsAreLeased == Lease!Spec

\* A silent session does not linger: when all is quiet, one that is older than
\* the limit and one scan interval ("an error of 10%") has its scan coming.
LingerBounded ==
  Quiet /\ started["timer"] =>
    \A p \in Peers :
      sessions[p] > session_timeout_ms + Scan => "timer" \in ready

\* A datagram in the socket of a started object is going to be read, unless an
\* error has ended the loop that reads them all.
DatagramsAreRead ==
  Quiet /\ started["dgram"] /\ inbox # <<>> => "dgram" \in ready \/ cut
===============================================================================

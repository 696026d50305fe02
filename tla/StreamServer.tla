----------------------------- MODULE StreamServer -----------------------------
(***************************************************************************)
(* kzevent::net::StreamServerSocket and StreamSession (inet.hpp, inet.cpp) *)
(* with the callbacks of TcpServer and UnixServer: the accept loop, the    *)
(* table sessions_, the stream handler and the send tasks of a session,    *)
(* stop(), and the lifetimes of the server and of its sessions, which the  *)
(* application, the io thread and the heavy thread share.                  *)
(*                                                                         *)
(* A session object lives as long as something holds a shared_ptr to it:   *)
(* the table, the application, a queued fragment task, or its own running  *)
(* callback.  The step that drops the last one runs its destructor.        *)
(*                                                                         *)
(* The loop is what LoopExecutor and LoopEvents show it to be: io tasks    *)
(* run in the order of their posting, each on its own descriptor; between  *)
(* two tasks the io thread may handle an edge-triggered event.  Sockets    *)
(* are external.  A message is two units long, so that a send can be       *)
(* partial; the n-th unit of a peer is the number n, and a frame of the    *)
(* peer is FrameLen units.                                                 *)
(***************************************************************************)
EXTENDS Integers, Sequences, FiniteSets

CONSTANTS
  Conns,      \* connections that clients make, each once
  Fds,        \* the descriptor numbers left for sessions
  Messages,   \* what the application sends, each once
  NetErrors,  \* how a connection may break: subset of {"reset", "timedout"}
  UserCalls,  \* what the application does, besides serving
  Callers,    \* threads that call start(), and stop() of the server
  MaxCalls,   \* bound on the calls of stop() and start()
  MaxPeer,    \* bound on the units a peer sends
  FrameLen,
  Room        \* units that fit in a socket's send buffer

None   == "none"
Listen == "listen"   \* the listening socket, and its callback

ASSUME ServerAssumption ==
  /\ {None, Listen} \cap Conns = {}
  /\ NetErrors \subseteq {"reset", "timedout"}
  /\ UserCalls \subseteq {"hold", "stop", "start", "pause", "release",
                          "abort"}
  /\ MaxCalls \in Nat /\ MaxPeer \in Nat
  /\ FrameLen \in Nat \ {0} /\ Room \in Nat \ {0}

VARIABLES
  server,    \* "owned" by the application, "released" by it, or "gone"
  started,   \* started_
  sessions,  \* sessions_
  obj,       \* per session: fd, event_types_ of its channel, the two buffers
  live,      \* the session objects that exist
  held,      \* the sessions to which the application has a shared_ptr
  queue,     \* io tasks
  heavy,     \* heavy tasks: the fragments
  cur, pc,   \* the callback the io thread is in, and its phases that remain
  entry,     \* the loop's table: is there a callback; mask = {}: not in epoll
  ready,     \* epoll's ready list
  sock,      \* the connections: state, SO_ERROR, send room, units not read
  pending,   \* the connections in the backlog
  call,      \* per caller: the steps left of its start() or stop()
  calls,     \* ghost: the calls so far
  data,      \* ghost: per session, units taken, sent, lost; peer's; frames;
             \* torn: received units were dropped while more were unread
  stopped,   \* ghost: the sessions whose stop() was called
  starved    \* ghost: accept4 failed for want of a descriptor number

io     == <<cur, pc>>
owners == <<server, started, sessions, live, held>>
kernel == <<ready, sock, pending>>
app    == <<call, calls>>
ghosts == <<app, data, stopped, starved>>
vars   == <<owners, obj, queue, heavy, io, entry, kernel, ghosts>>

EventTypes == {"R", "W", "E"}
Open    == {c \in Conns : sock[c].sk \in {"established", "fin", "dead"}}
FreeFds == Fds \ {obj[c].fd : c \in Open}

Enable(x, types) == [op |-> "enable", who |-> x, types |-> types]
Update(x, types) == [op |-> "update", who |-> x, types |-> types]
Store(x, types)  == [op |-> "store", who |-> x, types |-> types]
Send(x, m)       == [op |-> "send", who |-> x, msg |-> m]
Plain(op, x)     == [op |-> op, who |-> x]

Units(m) == <<m, m>>

-------------------------------------------------------------------------------
\* make_tcp_server: the constructor, and start().
Init ==
  /\ server = "owned" /\ started = TRUE
  /\ sessions = [fd \in Fds |-> None]
  /\ obj = [c \in Conns |-> [fd |-> None, types |-> {}, send_buf |-> <<>>,
                             recv_buf |-> <<>>]]
  /\ live = {} /\ held = {}
  /\ queue = <<Enable(Listen, {"R", "E"})>> /\ heavy = <<>>
  /\ cur = None /\ pc = <<>>
  /\ entry = [x \in Conns \cup {Listen} |-> [cb |-> FALSE, mask |-> {}]]
  /\ ready = {}
  /\ sock = [c \in Conns |-> [sk |-> "none", err |-> None, room |-> Room,
                              inbox |-> <<>>]]
  /\ pending = {}
  /\ call = [t \in Callers |-> <<>>]
  /\ calls = 0 /\ stopped = {} /\ starved = FALSE
  /\ data = [c \in Conns |-> [taken |-> <<>>, sent |-> <<>>, lost |-> FALSE,
                              peer |-> 0, frames |-> <<>>, torn |-> FALSE]]

(***************************************************************************)
(* Lifetimes.                                                              *)
(***************************************************************************)
\* Something holds a shared_ptr to the session.
Referenced(c) ==
  \/ \E fd \in Fds : sessions[fd] = c
  \/ c \in held \/ cur = c
  \/ \E i \in DOMAIN heavy : heavy[i].who = c

\* Mutant: stop() closes the descriptor as well.
StopPosts_Closes(c) ==
  <<Plain("disable", c), Plain("unregister", c), Plain("erase", c)>>

\* What stop() posts: the descriptor is disabled, the entry is erased.
StopPosts(c) == <<Plain("disable", c), Plain("erase", c)>>

\* What ~StreamSession posts: stop(), whose erase task finds the session
\* expired, and then ~LoopChannel.
Farewell(c) == StopPosts(c) \o <<Plain("unregister", c)>>

Orders(S) == {o \in [1..Cardinality(S) -> S] :
                \A i, j \in DOMAIN o : o[i] = o[j] => i = j}

\* The farewells of the sessions in S, one after the other.
Farewells(S) ==
  {[i \in 1..3 * Len(o) |-> Farewell(o[(i + 2) \div 3])[((i - 1) % 3) + 1]] :
     o \in Orders(S)}

\* The step posts before, destroys the sessions to which it leaves no
\* reference, and posts after; born are the sessions it constructs.
Settle(before, born, after) ==
  LET dying == {c \in live \cup born : ~Referenced(c)'}
  IN /\ live' = (live \cup born) \ dying
     /\ \E farewells \in Farewells(dying) :
          queue' = queue \o before \o farewells \o after

Post(tasks) == queue' = queue \o tasks /\ UNCHANGED live

\* The last reference to the server goes: ~StreamServerSocket disables the
\* listening socket, the table goes with its references, the channel last.
ServerDies ==
  /\ server' = "gone" /\ started' = FALSE
  /\ sessions' = [fd \in Fds |-> None]
  /\ Settle(<<Plain("disable", Listen)>>, {}, <<Plain("unregister", Listen)>>)

(***************************************************************************)
(* The application.                                                        *)
(***************************************************************************)
\* A thread that is inside a method of x holds a reference to it.
InUse(x) == \E t \in Callers : call[t] # <<>> /\ Head(call[t]).who = x

\* It lets go of the server, which lives on while a callback has it locked.
Release ==
  /\ "release" \in UserCalls /\ server = "owned" /\ ~InUse(Listen)
  /\ UNCHANGED <<held, cur, heavy>>
  /\ \/ cur = None /\ ServerDies
     \/ /\ cur # None
        /\ server' = "released"
        /\ UNCHANGED <<started, sessions, live, queue>>
  /\ UNCHANGED <<obj, pc, entry, kernel, ghosts>>

\* A call that leaves these steps, on a thread that is not inside one.
Begins(t, steps) ==
  /\ calls < MaxCalls /\ calls' = calls + 1
  /\ call[t] = <<>> /\ call' = [call EXCEPT ![t] = steps]
  /\ UNCHANGED <<server, sessions, live, held, obj, queue, heavy, io, entry,
                 kernel, data, stopped, starved>>

\* StreamServerSocket::stop() clears the flag and then disables the socket.
Stop(t) ==
  /\ "pause" \in UserCalls /\ server = "owned"
  /\ started' = FALSE
  /\ Begins(t, <<Plain("disable", Listen)>>)

\* StreamServerSocket::start() sets the flag, goes on if it was clear, sets it
\* once more and enables the socket.
Start(t) ==
  /\ "pause" \in UserCalls /\ server = "owned"
  /\ started' = TRUE
  /\ Begins(t, IF started THEN <<>>
               ELSE <<Plain("set", Listen), Enable(Listen, {"R", "E"})>>)

\* The event types for which StreamSession::start() registers its callback.
StartTypes(c) ==
  IF obj[c].send_buf = <<>> THEN {"R", "E"} ELSE {"R", "W", "E"}

\* StreamSession::start(), again, after a stop(): it looks at send_buf_, posts
\* the registration and stores event_types_.
SessionStart(t, c) ==
  /\ "start" \in UserCalls /\ c \in held \cap stopped
  /\ Begins(t, <<Enable(c, StartTypes(c)), Store(c, StartTypes(c))>>)
  /\ UNCHANGED started

\* The next step of a call.
Calling(t, op) ==
  /\ call[t] # <<>> /\ Head(call[t]).op = op
  /\ call' = [call EXCEPT ![t] = Tail(@)]
  /\ UNCHANGED <<server, sessions, held, heavy, io, entry, kernel, calls, data,
                 stopped, starved>>

CallSets(t) ==
  /\ Calling(t, "set")
  /\ started' = TRUE
  /\ UNCHANGED <<live, obj, queue>>

CallPosts(t) ==
  /\ Calling(t, "enable") \/ Calling(t, "disable")
  /\ Post(<<Head(call[t])>>)
  /\ UNCHANGED <<started, obj>>

CallStores(t) ==
  /\ Calling(t, "store")
  /\ obj' = [obj EXCEPT ![Head(call[t]).who].types = Head(call[t]).types]
  /\ UNCHANGED <<started, live, queue>>

CallStep(t) ==
  \/ Start(t) \/ Stop(t) \/ \E c \in Conns : SessionStart(t, c)
  \/ CallSets(t) \/ CallPosts(t) \/ CallStores(t)

\* StreamSession::stop(), on a session that the application holds
SessionStop(c) ==
  /\ "stop" \in UserCalls /\ c \in held
  /\ calls < MaxCalls /\ calls' = calls + 1
  /\ stopped' = stopped \cup {c}
  /\ Post(StopPosts(c))
  /\ UNCHANGED <<server, started, sessions, held, obj, heavy, io, entry, kernel,
                 call, data, starved>>

\* StreamSession::post_send_task
PostSend(c, m) ==
  /\ c \in held
  /\ \A d \in Conns : \A i \in DOMAIN data[d].taken : data[d].taken[i] # m
  /\ \A i \in DOMAIN queue : queue[i].op = "send" => queue[i].msg # m
  /\ Post(<<Send(c, m)>>)
  /\ UNCHANGED <<server, started, sessions, held, obj, heavy, io, entry,
                 kernel, ghosts>>

\* The application drops its reference to a session.
Drop(c) ==
  /\ c \in held /\ ~InUse(c)
  /\ held' = held \ {c}
  /\ UNCHANGED <<server, started, sessions, heavy, io>>
  /\ Settle(<<>>, {}, <<>>)
  /\ UNCHANGED <<obj, entry, kernel, ghosts>>

\* The heavy executor runs a fragment task: fragment_cb_ of the server, which
\* may keep the session.
RunFragment ==
  /\ heavy # <<>>
  /\ heavy' = Tail(heavy)
  /\ \/ UNCHANGED held
     \/ "hold" \in UserCalls /\ held' = held \cup {Head(heavy).who}
  /\ UNCHANGED <<server, started, sessions, io>>
  /\ Settle(<<>>, {}, <<>>)
  /\ UNCHANGED <<obj, entry, kernel, ghosts>>

-------------------------------------------------------------------------------
(***************************************************************************)
(* The io thread: its tasks.                                               *)
(***************************************************************************)
Running(op) == pc = <<>> /\ queue # <<>> /\ Head(queue).op = op
Who == Head(queue).who

\* What epoll would report of x now.
Writable(c) == \/ sock[c].sk = "dead"
               \/ sock[c].sk \in {"established", "fin"} /\ sock[c].room > 0
Readable(c) == sock[c].inbox # <<>> \/ sock[c].sk \in {"fin", "dead"}
Level(x, types) ==
  IF x = Listen THEN {e \in types : e = "R" /\ pending # {}}
  ELSE {e \in types : (e = "R" /\ Readable(x)) \/ (e = "W" /\ Writable(x))}
         \cup (IF sock[x].err # None THEN {"E"} ELSE {})

EnableTask ==
  /\ Running("enable") \/ Running("update")
  /\ LET types == Head(queue).types
     IN /\ entry' = [entry EXCEPT ![Who].mask = types,
                                  ![Who].cb = @ \/ Running("enable")]
        /\ ready' = IF Level(Who, types) # {} THEN ready \cup {Who} ELSE ready
  /\ queue' = Tail(queue)
  /\ UNCHANGED <<owners, obj, heavy, io, sock, pending, ghosts>>

Forget(x) ==
  /\ entry' = [entry EXCEPT ![x] = [cb |-> FALSE, mask |-> {}]]
  /\ ready' = ready \ {x}

DisableTask ==
  /\ Running("disable")
  /\ Forget(Who)
  /\ queue' = Tail(queue)
  /\ UNCHANGED <<owners, obj, heavy, io, sock, pending, ghosts>>

\* close(): of a connection, or of the listening socket with its backlog
UnregisterTask ==
  /\ Running("unregister")
  /\ Forget(Who)
  /\ LET closed == IF Who = Listen THEN pending ELSE {Who}
     IN sock' = [c \in Conns |-> IF c \in closed
                                   THEN [sock[c] EXCEPT !.sk = "closed"]
                                   ELSE sock[c]]
  /\ pending' = IF Who = Listen THEN {} ELSE pending
  /\ queue' = Tail(queue)
  /\ UNCHANGED <<owners, obj, heavy, io, ghosts>>

\* The task of stop(), if the session and then the server can be locked: the
\* entry of its descriptor is erased, and perhaps the last reference.
EraseTask ==
  /\ Running("erase")
  /\ sessions' = IF Who \in live /\ server # "gone"
                   THEN [sessions EXCEPT ![obj[Who].fd] = None] ELSE sessions
  /\ UNCHANGED <<held, heavy, io>>
  /\ LET dying == {c \in live : ~Referenced(c)'}
     IN /\ live' = live \ dying
        /\ \E farewells \in Farewells(dying) :
             queue' = Tail(queue) \o farewells
  /\ UNCHANGED <<server, started, obj, entry, kernel, ghosts>>

\* send(2) of units with MSG_NOSIGNAL: what the kernel takes, what is left.
Sending(c) == sock[c].sk \in {"established", "fin"}
Accepted(c, units) ==
  IF Len(units) < sock[c].room THEN Len(units) ELSE sock[c].room
Rest(c, units) == SubSeq(units, Accepted(c, units) + 1, Len(units))

\* The socket after send(2), which takes units or reports the pending error.
AfterSend(c, units) ==
  IF Sending(c) THEN [sock EXCEPT ![c].room = @ - Accepted(c, units)]
                ELSE [sock EXCEPT ![c].err = None]
Sent(c, units) == data[c].sent \o SubSeq(units, 1, Accepted(c, units))

\* Mutant: the write event is not requested for what is left.
AwaitWritable_Never(c, rest) == <<>>

\* update_event, when something is left
AwaitWritable(c, rest) ==
  IF rest = <<>> THEN <<>> ELSE <<Update(c, obj[c].types \cup {"W"})>>

\* Mutant: data that waits is overtaken.
MustQueue_Overtake(c) == sock[c].room = 0

\* Data is waiting already.
MustQueue(c) == obj[c].send_buf # <<>>

\* The task of post_send_task, if the session and the server can be locked.
\* On an error the data is dropped, and the error is no longer pending.
SendTask ==
  /\ Running("send")
  /\ LET c     == Who
         units == Units(Head(queue).msg)
         rest  == Rest(c, units)
     IN \/ /\ c \notin live \/ server = "gone"
           /\ queue' = Tail(queue)
           /\ UNCHANGED <<obj, sock, data>>
        \/ /\ c \in live /\ server # "gone" /\ MustQueue(c)
           /\ obj' = [obj EXCEPT ![c].send_buf = @ \o units]
           /\ data' = [data EXCEPT ![c].taken = @ \o units]
           /\ queue' = Tail(queue)
           /\ UNCHANGED sock
        \/ /\ c \in live /\ server # "gone" /\ ~MustQueue(c) /\ Sending(c)
           /\ sock' = AfterSend(c, units)
           /\ obj' = [obj EXCEPT ![c].send_buf = @ \o rest,
                        ![c].types = IF rest = <<>> THEN @ ELSE @ \cup {"W"}]
           /\ data' = [data EXCEPT ![c].taken = @ \o units,
                                   ![c].sent = Sent(c, units)]
           /\ queue' = Tail(queue) \o AwaitWritable(c, rest)
        \/ /\ c \in live /\ server # "gone" /\ ~MustQueue(c) /\ ~Sending(c)
           /\ sock' = AfterSend(c, units)
           /\ data' = [data EXCEPT ![c].taken = @ \o units, ![c].lost = TRUE]
           /\ queue' = Tail(queue)
           /\ UNCHANGED obj
  /\ UNCHANGED <<owners, heavy, io, entry, ready, pending, app, stopped,
                 starved>>

RunTask == \/ EnableTask \/ DisableTask \/ UnregisterTask \/ EraseTask
           \/ SendTask

-------------------------------------------------------------------------------
(***************************************************************************)
(* The io thread: its callbacks.                                           *)
(***************************************************************************)
\* An event of x is taken from the ready list.
Event(x) == pc = <<>> /\ x \in ready /\ ready' = ready \ {x}

\* There is nothing to report any more, no callback, or its LifeChecker or the
\* session's server_ cannot be locked.
Ignored(x) ==
  /\ Event(x)
  /\ \/ Level(x, entry[x].mask) = {} \/ ~entry[x].cb \/ server = "gone"
     \/ x # Listen /\ x \notin live
  /\ UNCHANGED <<owners, obj, queue, heavy, io, entry, sock, pending, ghosts>>

\* The phases of a callback, which the event types select.
Callback(x) ==
  /\ Event(x)
  /\ Level(x, entry[x].mask) # {} /\ entry[x].cb /\ server # "gone"
  /\ x # Listen => x \in live
  /\ LET types == Level(x, entry[x].mask)
         Phase(type, label) == IF type \in types THEN <<label>> ELSE <<>>
     IN pc' = IF x = Listen THEN <<"accept", "leave">>
              ELSE Phase("R", "read") \o Phase("W", "write")
                     \o Phase("E", "error") \o <<"split", "leave">>
  /\ cur' = x
  /\ starved' = IF x = Listen THEN FALSE ELSE starved
  /\ UNCHANGED <<owners, obj, queue, heavy, entry, sock, pending, app, data,
                 stopped>>

At(label) == pc # <<>> /\ Head(pc) = label
Goto(labels) == pc' = labels \o Tail(pc) /\ UNCHANGED cur

\* The callback returns and drops what it had locked: perhaps the last
\* reference to the session, or to the server.
Leave ==
  /\ At("leave")
  /\ cur' = None /\ pc' = <<>>
  /\ UNCHANGED <<held, heavy>>
  /\ \/ server = "released" /\ ServerDies
     \/ /\ server # "released"
        /\ UNCHANGED <<server, started, sessions>>
        /\ Settle(<<>>, {}, <<>>)
  /\ UNCHANGED <<obj, entry, kernel, ghosts>>

\* accept4: EAGAIN, or no descriptor number is left: the loop ends.
AcceptEnds ==
  /\ At("accept")
  /\ pending = {} \/ FreeFds = {}
  /\ starved' = (FreeFds = {})
  /\ Goto(<<>>)
  /\ UNCHANGED <<owners, obj, queue, heavy, entry, kernel, app, data,
                 stopped>>

\* Mutant: the loop ends at a connection that was given up.
AfterAbort_Ends == <<>>

\* ECONNABORTED: the loop goes on.
AfterAbort == <<"accept">>

\* The client has given up in the meantime.
AcceptAborted(c) ==
  /\ "abort" \in UserCalls
  /\ At("accept") /\ FreeFds # {}
  /\ c \in pending
  /\ pending' = pending \ {c}
  /\ sock' = [sock EXCEPT ![c].sk = "closed"]
  /\ Goto(AfterAbort)
  /\ UNCHANGED <<owners, obj, queue, heavy, entry, ready, ghosts>>

\* A connection: a session under its descriptor number, unless the table has
\* an entry for that number (insert does not replace it), and its start().
Accept(c, fd) ==
  /\ At("accept")
  /\ c \in pending /\ fd \in FreeFds
  /\ pending' = pending \ {c}
  /\ sock' = [sock EXCEPT ![c].sk = "established"]
  /\ obj' = [obj EXCEPT ![c].fd = fd, ![c].types = {"R", "E"}]
  /\ sessions' = [sessions EXCEPT ![fd] = IF @ = None THEN c ELSE @]
  /\ Goto(<<"accept">>)
  /\ UNCHANGED <<server, started, held, heavy>>
  /\ Settle(<<Enable(c, StartTypes(c))>>, {c}, <<>>)
  /\ UNCHANGED <<entry, ready, ghosts>>

\* disconnected = true, perhaps again: after the other phases, and before it
\* returns, the callback closes the session.
Disconnected ==
  /\ LET rest == Tail(pc)
     IN pc' = IF \E i \in DOMAIN rest : rest[i] = "closed" THEN rest
              ELSE SubSeq(rest, 1, Len(rest) - 1) \o <<"closed", "leave">>
  /\ UNCHANGED cur

\* What stream_recv takes for the end of the connection: 0 and ECONNRESET.
EndOfStream(c) ==
  sock[c].sk \in {"fin", "dead"} /\ sock[c].err \in {None, "reset"}

\* Read everything; then EAGAIN, the end of the stream, or an error.
Read ==
  /\ At("read")
  /\ LET more == obj[cur].recv_buf \o sock[cur].inbox
     IN \/ /\ sock[cur].sk = "established"
           /\ Goto(<<>>)
           /\ obj' = [obj EXCEPT ![cur].recv_buf = more]
        \/ /\ EndOfStream(cur)
           /\ Disconnected
           /\ obj' = [obj EXCEPT ![cur].recv_buf = more]
        \/ /\ sock[cur].sk # "established" /\ ~EndOfStream(cur)
           /\ Goto(<<>>)
           /\ obj' = [obj EXCEPT ![cur].recv_buf = <<>>]
  /\ sock' = [sock EXCEPT ![cur].inbox = <<>>, ![cur].err = None]
  /\ UNCHANGED <<owners, queue, heavy, entry, ready, pending, ghosts>>

\* recv_buf_ is emptied, although the stream goes on in the socket.
Torn(c) == obj[c].recv_buf # <<>> /\ sock[c].inbox # <<>>

\* Write until nothing is left, which gives up the write event, or EAGAIN, or
\* the end of the connection (EPIPE), or an error.
Write ==
  /\ At("write")
  /\ LET units == obj[cur].send_buf
         rest  == Rest(cur, units)
         types == obj[cur].types \ {"W"}
     IN \/ /\ Sending(cur)
           /\ obj' = [obj EXCEPT ![cur].send_buf = rest,
                        ![cur].types = IF rest = <<>> THEN types ELSE @]
           /\ data' = [data EXCEPT ![cur].sent = Sent(cur, units)]
           /\ Goto(<<>>)
           /\ Post(IF rest = <<>> THEN <<Update(cur, types)>> ELSE <<>>)
        \/ /\ ~Sending(cur) /\ sock[cur].err = None
           /\ Disconnected
           /\ UNCHANGED <<obj, data, queue, live>>
        \/ /\ ~Sending(cur) /\ sock[cur].err # None
           /\ obj' = [obj EXCEPT ![cur].recv_buf = <<>>]
           /\ data' = [data EXCEPT ![cur].torn = @ \/ Torn(cur)]
           /\ Goto(<<>>)
           /\ UNCHANGED <<queue, live>>
  /\ sock' = AfterSend(cur, obj[cur].send_buf)
  /\ UNCHANGED <<server, started, sessions, held, heavy, entry, ready,
                 pending, app, stopped, starved>>

\* Both buffers are emptied.
ClearBuffers ==
  /\ obj' = [obj EXCEPT ![cur].send_buf = <<>>, ![cur].recv_buf = <<>>]
  /\ data' = [data EXCEPT ![cur].lost = @ \/ obj[cur].send_buf # <<>>,
                          ![cur].torn = @ \/ Torn(cur)]

\* on_session_error: stop(), and perhaps session_error_cb_.
OnSessionError(c) == StopPosts(c)

\* SO_ERROR: ECONNRESET and EPIPE end the connection.
Error ==
  /\ At("error")
  /\ sock' = [sock EXCEPT ![cur].err = None]
  /\ IF sock[cur].err \in {None, "reset"}
       THEN /\ IF sock[cur].err = None THEN Goto(<<>>) ELSE Disconnected
            /\ UNCHANGED <<obj, data, queue, live, stopped>>
       ELSE /\ ClearBuffers
            /\ Goto(<<>>)
            /\ stopped' = stopped \cup {cur}
            /\ Post(OnSessionError(cur))
  /\ UNCHANGED <<server, started, sessions, held, heavy, entry, ready,
                 pending, app, starved>>

Frames(buf) == Len(buf) \div FrameLen

\* What on_split leaves in the buffer.
Unsplit(buf) == SubSeq(buf, FrameLen * Frames(buf) + 1, Len(buf))

\* on_split, and on_fragment for every frame: a heavy task that holds the
\* session and uses the server.
Split ==
  /\ At("split")
  /\ LET buf == obj[cur].recv_buf
         n   == Frames(buf)
     IN /\ heavy' = heavy \o [i \in 1..n |-> [who |-> cur]]
        /\ data' = [data EXCEPT ![cur].frames =
                                  @ \o SubSeq(buf, 1, FrameLen * n)]
        /\ obj' = [obj EXCEPT ![cur].recv_buf = Unsplit(buf)]
  /\ Goto(<<>>)
  /\ UNCHANGED <<owners, queue, entry, kernel, app, stopped, starved>>

\* Mutant: on_disconnect does not stop the session.
OnDisconnect_NoStop(c) == <<>>

\* on_disconnect: stop(), and disconnect_cb_.
OnDisconnect(c) == StopPosts(c)

Closed ==
  /\ At("closed")
  /\ ClearBuffers
  /\ Goto(<<>>)
  /\ stopped' = stopped \cup {cur}
  /\ Post(OnDisconnect(cur))
  /\ UNCHANGED <<server, started, sessions, held, heavy, entry, kernel, app,
                 starved>>

IoStep ==
  \/ RunTask
  \/ \E x \in Conns \cup {Listen} : Ignored(x) \/ Callback(x)
  \/ AcceptEnds
  \/ \E c \in Conns : AcceptAborted(c) \/ \E fd \in Fds : Accept(c, fd)
  \/ Read \/ Write \/ Error \/ Split \/ Closed \/ Leave

-------------------------------------------------------------------------------
(***************************************************************************)
(* The network.                                                            *)
(***************************************************************************)
Network == UNCHANGED <<owners, obj, queue, heavy, io, entry, app, stopped,
                       starved>>
Signal(x, watched) == ready' = IF watched THEN ready \cup {x} ELSE ready

\* A client connects.
Connect(c) ==
  /\ sock[c].sk = "none"
  /\ server # "gone" \/ \E i \in DOMAIN queue :
                          queue[i] = Plain("unregister", Listen)
  /\ sock' = [sock EXCEPT ![c].sk = "pending"]
  /\ pending' = pending \cup {c}
  /\ Signal(Listen, entry[Listen].mask # {})
  /\ Network /\ UNCHANGED data

PeerSends(c) ==
  /\ sock[c].sk = "established" /\ data[c].peer < MaxPeer
  /\ data' = [data EXCEPT ![c].peer = @ + 1]
  /\ sock' = [sock EXCEPT ![c].inbox = Append(@, data'[c].peer)]
  /\ Signal(c, "R" \in entry[c].mask)
  /\ Network /\ UNCHANGED pending

PeerCloses(c) ==
  /\ sock[c].sk = "established"
  /\ sock' = [sock EXCEPT ![c].sk = "fin"]
  /\ Signal(c, entry[c].mask # {})
  /\ Network /\ UNCHANGED <<pending, data>>

\* An error breaks the connection; a reset after the peer's end of stream is
\* not told from it.
Breaks(c, e) ==
  /\ sock[c].sk = "established" \/ (sock[c].sk = "fin" /\ e = "reset")
  /\ sock' = [sock EXCEPT ![c].sk = "dead",
                ![c].err = IF sock[c].sk = "fin" THEN None ELSE e]
  /\ Signal(c, entry[c].mask # {})
  /\ Network /\ UNCHANGED <<pending, data>>

Drain(c) ==
  /\ sock[c].sk \in {"established", "fin"} /\ sock[c].room < Room
  /\ sock' = [sock EXCEPT ![c].room = Room]
  /\ Signal(c, sock[c].room = 0 /\ "W" \in entry[c].mask)
  /\ Network /\ UNCHANGED <<pending, data>>

UserStep ==
  \/ Release \/ RunFragment
  \/ \E t \in Callers : CallStep(t)
  \/ \E c \in Conns : \/ SessionStop(c) \/ Drop(c)
                      \/ \E m \in Messages : PostSend(c, m)

NetStep ==
  \E c \in Conns :
    \/ Connect(c) \/ PeerSends(c) \/ PeerCloses(c) \/ Drain(c)
    \/ \E e \in NetErrors : Breaks(c, e)

Next == IoStep \/ UserStep \/ NetStep

Spec == Init /\ [][Next]_vars

-------------------------------------------------------------------------------
(***************************************************************************)
(* Properties.                                                             *)
(***************************************************************************)
InTable(c) == \E fd \in Fds : sessions[fd] = c
Quiet      == pc = <<>> /\ queue = <<>>

\* The types of the server, its sessions, the loop and the kernel.
TypeOK ==
  /\ server \in {"owned", "released", "gone"} /\ started \in BOOLEAN
  /\ sessions \in [Fds -> Conns \cup {None}]
  /\ live \subseteq Conns /\ held \subseteq live
  /\ \A c \in Conns : /\ obj[c].fd \in Fds \cup {None}
                      /\ obj[c].types \subseteq EventTypes
                      /\ obj[c].send_buf \in Seq(Messages)
                      /\ obj[c].recv_buf \in Seq(1..MaxPeer)
                      /\ sock[c].room \in 0..Room
                      /\ sock[c].inbox \in Seq(1..MaxPeer)
  /\ cur \in Conns \cup {None, Listen}
  /\ cur = None <=> pc = <<>>
  /\ ready \subseteq Conns \cup {Listen} /\ pending \subseteq Conns
  /\ calls \in 0..MaxCalls

\* The table is right although its keys are descriptor numbers, which the
\* kernel reuses, and the erase tasks run late, perhaps twice for a session:
\* an entry is a session that exists, under the number of its own open
\* connection, and a session that nobody stopped has its entry.  So insert()
\* never finds the number taken, and erase() never removes another session.
TableIsExact ==
  /\ live \subseteq Open
  /\ \A fd \in Fds : sessions[fd] # None =>
       sessions[fd] \in live /\ obj[sessions[fd]].fd = fd
  /\ server # "gone" => \A c \in live \ stopped : sessions[obj[c].fd] = c

\* A connection is not left in the backlog of a started server: when all is
\* quiet the event is on its way, unless accept4 had no descriptor number.  One
\* thread calls start() and stop(), and is between two of its calls.
PendingIsAccepted ==
  Quiet /\ ~InUse(Listen) /\ server # "gone" /\ started /\ pending # {} =>
    Listen \in ready \/ starved

\* No connection outlives its use: when the threads have nothing to do, an open
\* one is held by the application or served from the table, and in the latter
\* case its end, once it has come, is going to be handled.
NoLeak ==
  Quiet /\ heavy = <<>> =>
    \A c \in Open \ held :
      InTable(c) /\ (sock[c].sk \in {"fin", "dead"} => c \in ready)

\* What the application sends on a session reaches the kernel in the order of
\* posting, whole and once; units are given up only with the connection.  The
\* frames given to on_fragment follow the peer's stream, never back, and are cut
\* at the right places and without a gap, unless the handler dropped what it had
\* received with more to come (torn).
SessionStreams ==
  \A c \in Conns :
    /\ ~data[c].lost => data[c].sent \o obj[c].send_buf = data[c].taken
    /\ \A i, j \in DOMAIN data[c].frames :
         i < j => data[c].frames[i] < data[c].frames[j]
    /\ ~data[c].torn => \A i \in DOMAIN data[c].frames : data[c].frames[i] = i

\* Data that waits in the send_buf_ of a session is going to be written.
WaitingDataIsWatched ==
  Quiet /\ server # "gone" =>
    \A c \in live : InTable(c) /\ obj[c].send_buf # <<>> /\ Sending(c) =>
      /\ entry[c].cb /\ "W" \in entry[c].mask
      /\ sock[c].room > 0 => c \in ready

\* A fragment task finds the server whose fragment_cb_ it calls alive: the
\* session's callback "checks and extends the life of the server" it uses.
FragmentHasServer == [][RunFragment => server # "gone"]_vars

\* disconnect_cb_ is called once for a session.
DisconnectOnce == [][Closed => cur \notin stopped]_vars
===============================================================================

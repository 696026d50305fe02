-------------------------- MODULE StreamServer_proofs --------------------------
(***************************************************************************)
(* Proofs about StreamServer, for any connections, descriptor numbers,     *)
(* messages, errors, calls of the application, frames and send buffers.    *)
(***************************************************************************)
EXTENDS StreamServer, FiniteSetTheorems, FunctionTheorems, SequenceTheorems, TLAPS

Elems(s) == {s[i] : i \in DOMAIN s}

Watchable == Conns \cup {Listen}
States    == {"none", "pending", "established", "fin", "dead", "closed"}
Phases    == {"read", "write", "error", "split", "closed"}
Labels    == Phases \cup {"accept", "leave"}
Objs      == [fd : Fds \cup {None}, types : SUBSET EventTypes,
              send_buf : Seq(Messages), recv_buf : Seq(1..MaxPeer)]
Socks     == [sk : States, err : NetErrors \cup {None}, room : 0..Room,
              inbox : Seq(1..MaxPeer)]
Entries   == [cb : BOOLEAN, mask : SUBSET EventTypes]
Histories == [taken : Seq(Messages), sent : Seq(Messages), lost : BOOLEAN,
              peer : 0..MaxPeer, frames : Seq(1..MaxPeer), torn : BOOLEAN]
Tasks     == [op : {"enable", "update"}, who : Watchable,
              types : SUBSET EventTypes]
               \cup [op : {"send"}, who : Conns, msg : Messages]
               \cup [op : {"disable", "unregister"}, who : Watchable]
               \cup [op : {"erase"}, who : Conns]

OwnerTypes ==
  /\ server \in {"owned", "released", "gone"} /\ started \in BOOLEAN
  /\ sessions \in [Fds -> Conns \cup {None}]
  /\ live \in SUBSET Conns /\ held \in SUBSET Conns /\ IsFiniteSet(live)
LoopTypes ==
  /\ queue \in Seq(Tasks) /\ heavy \in Seq([who : Conns])
  /\ cur \in Watchable \cup {None} /\ pc \in Seq(Labels)
  /\ entry \in [Watchable -> Entries]
KernelTypes ==
  /\ ready \in SUBSET Watchable /\ pending \in SUBSET Conns
  /\ sock \in [Conns -> Socks]
DataTypes ==
  /\ obj \in [Conns -> Objs] /\ data \in [Conns -> Histories]
  /\ calls \in 0..MaxCalls /\ stopped \in SUBSET Conns /\ starved \in BOOLEAN
Types == OwnerTypes /\ LoopTypes /\ KernelTypes /\ DataTypes

\* A callback runs its phases, those of a session or the accept loop, and then
\* returns; a session is closed only after its connection has ended.
Shape(x, p) ==
  /\ x = None <=> p = <<>>
  /\ \A i \in DOMAIN p : p[i] = "leave" <=> i = Len(p)
  /\ \A i \in DOMAIN p : p[i] \in Phases => x \in Conns
  /\ \A i \in DOMAIN p : p[i] = "accept" => x = Listen
Closing(p) == \E i \in DOMAIN p : p[i] = "closed"
PhaseInv == Shape(cur, pc) /\ (Closing(pc) => sock[cur].sk # "established")

IsOpen(s) == s.sk \in {"established", "fin", "dead"}
Known(s)  == s.sk \notin {"none", "pending"}

\* What is referred to exists.
RefInv ==
  /\ held \subseteq live /\ (cur \in Conns => cur \in live)
  /\ \A i \in DOMAIN heavy : heavy[i].who \in live

\* An open connection has a descriptor number, and to itself.
FdInv ==
  /\ \A c \in live : IsOpen(sock[c])
  /\ \A c \in pending : sock[c].sk = "pending"
  /\ \A c \in Conns : IsOpen(sock[c]) => obj[c].fd \in Fds
  /\ \A c, d \in Conns : IsOpen(sock[c]) /\ IsOpen(sock[d])
                           /\ obj[c].fd = obj[d].fd => c = d

\* A task is about a connection that was accepted; its descriptor is closed
\* after its session was destroyed; it is disabled, and its entry is erased,
\* after the session was stopped.
Due(k, socks, alive, ended) ==
  k.who \in Conns =>
    /\ Known(socks[k.who])
    /\ k.op = "unregister" => k.who \notin alive
    /\ k.op \in {"erase", "disable"} => k.who \in ended \/ k.who \notin alive
TaskInv == \A k \in Elems(queue) : Due(k, sock, live, stopped)

TableInv ==
  /\ \A fd \in Fds : sessions[fd] # None =>
       sessions[fd] \in live /\ obj[sessions[fd]].fd = fd
  /\ server # "gone" => \A c \in live \ stopped : sessions[obj[c].fd] = c

LifeInv == RefInv /\ FdInv /\ TaskInv /\ TableInv

Ascending(s) == \A i, j \in DOMAIN s : i < j => s[i] < s[j]

\* The units of a peer, in their order: in the frames, in recv_buf_, and unread in
\* the socket.  Unless something was torn they are the first ones that the peer
\* sent, and all of them as long as the connection lasts.
Flow(units, peer, torn, lasting) ==
  /\ Ascending(units) /\ \A i \in DOMAIN units : units[i] <= peer
  /\ ~torn => /\ \A i \in DOMAIN units : units[i] = i
              /\ lasting => peer = Len(units)
Lasting(s) == s.sk \in {"none", "pending", "established"}
InputInv(d, o, s) ==
  Flow((d.frames \o o.recv_buf) \o s.inbox, d.peer, d.torn, Lasting(s))

\* The units that the application sends: written, waiting, or lost.  A pending
\* error is that of a connection that has ended.
OutputInv(d, o) == ~d.lost => d.sent \o o.send_buf = d.taken
ErrorInv(s)     == s.err # None => s.sk \in {"dead", "closed"}

StreamInv == \A c \in Conns : /\ InputInv(data[c], obj[c], sock[c])
                              /\ OutputInv(data[c], obj[c]) /\ ErrorInv(sock[c])

\* The listening socket of a started server, when no thread is inside a call, is
\* watched, or the last task about it will see to that; then a connection in the
\* backlog has its event on the way, or the accept loop is running or ran out of
\* numbers.
Watching(q) == \E i \in DOMAIN q :
                 /\ q[i] = Enable(Listen, {"R", "E"})
                 /\ \A j \in DOMAIN q : j > i => q[j].who # Listen
ListenInv ==
  server # "gone" /\ started /\ ~InUse(Listen) =>
    \/ Watching(queue)
    \/ /\ \A i \in DOMAIN queue : queue[i].who # Listen
       /\ entry[Listen] = [cb |-> TRUE, mask |-> {"R", "E"}]
       /\ pending # {} => Listen \in ready \/ starved \/ At("accept")

\* What is left of a call: one of the server, which the application still owns, or
\* a start() of a session that it holds and had stopped.
Steps == [op : {"set", "disable"}, who : {Listen}]
           \cup [op : {"enable"}, who : Watchable, types : SUBSET EventTypes]
           \cup [op : {"store"}, who : Conns, types : SUBSET EventTypes]
Fit(k) ==
  \/ /\ server = "owned"
     /\ k \in {Plain("set", Listen), Plain("disable", Listen),
               Enable(Listen, {"R", "E"})}
  \/ \E c \in held \cap stopped, types \in SUBSET EventTypes :
       k \in {Enable(c, types), Store(c, types)}
CallInv ==
  /\ call \in [Callers -> Seq(Steps)]
  /\ \A t \in Callers : \A k \in Elems(call[t]) :
       Fit(k) /\ k.who = Head(call[t]).who

IInv == Types /\ PhaseInv /\ LifeInv /\ StreamInv /\ CallInv
-------------------------------------------------------------------------------
(***************************************************************************)
(* Sequences, and what destructors post.                                   *)
(***************************************************************************)
LEMMA ElemsConcat ==
  ASSUME NEW S, NEW s \in Seq(S), NEW t \in Seq(S)
  PROVE  s \o t \in Seq(S) /\ Elems(s \o t) = Elems(s) \cup Elems(t)
<1>1. PICK u : u = s \o t
  OBVIOUS
<1>2. u \in Seq(S) /\ Len(u) = Len(s) + Len(t)
  BY <1>1
<1>3. ASSUME NEW i \in DOMAIN u PROVE u[i] \in Elems(s) \cup Elems(t)
  <2>1. CASE i <= Len(s)
    BY <1>1, <1>2, <2>1 DEF Elems
  <2>2. CASE i > Len(s)
    <3>1. PICK k \in 1..Len(t) : k = i - Len(s)
      BY <1>2, <2>2
    <3>2. u[i] = t[k]
      BY <1>1, <1>2, <2>2, <3>1
    <3> QED
      BY <3>1, <3>2 DEF Elems
  <2> QED
    BY <1>2, <2>1, <2>2
<1>4. ASSUME NEW i \in DOMAIN s PROVE s[i] \in Elems(u)
  <2>1. i \in DOMAIN u /\ u[i] = s[i]
    BY <1>1, <1>2
  <2> QED
    BY <2>1 DEF Elems
<1>5. ASSUME NEW i \in DOMAIN t PROVE t[i] \in Elems(u)
  <2>1. PICK k \in 1..Len(u) : k = i + Len(s)
    BY <1>2
  <2>2. u[k] = t[i]
    BY <1>1, <1>2, <2>1
  <2> QED
    BY <1>2, <2>1, <2>2 DEF Elems
<1>6. Elems(u) \subseteq Elems(s) \cup Elems(t)
  BY <1>3 DEF Elems
<1>7. Elems(s) \subseteq Elems(u)
  BY <1>4 DEF Elems
<1>8. Elems(t) \subseteq Elems(u)
  BY <1>5 DEF Elems
<1>9. Elems(u) = Elems(s) \cup Elems(t)
  BY <1>6, <1>7, <1>8
<1> QED
  BY <1>1, <1>2, <1>9

LEMMA ElemsTail ==
  ASSUME NEW S, NEW s \in Seq(S), s # <<>>
  PROVE  /\ Tail(s) \in Seq(S) /\ Elems(Tail(s)) \subseteq Elems(s)
         /\ Head(s) \in Elems(s) /\ Head(s) \in S
<1>1. Tail(s) \in Seq(S) /\ Len(Tail(s)) = Len(s) - 1
  OBVIOUS
<1>2. ASSUME NEW i \in DOMAIN Tail(s) PROVE Tail(s)[i] \in Elems(s)
  <2>1. PICK k \in 1..Len(s) : k = i + 1
    BY <1>1
  <2> QED
    BY <1>1, <2>1 DEF Elems
<1> QED
  BY <1>1, <1>2 DEF Elems

LEMMA ElemsFew ==
  /\ Elems(<<>>) = {}
  /\ \A a : Elems(<<a>>) = {a}
  /\ \A a, b : Elems(<<a, b>>) = {a, b}
<1>1. Elems(<<>>) = {}
  BY DEF Elems
<1>2. ASSUME NEW a PROVE Elems(<<a>>) = {a}
  BY DEF Elems
<1>3. ASSUME NEW a, NEW b PROVE Elems(<<a, b>>) = {a, b}
  <2>1. Len(<<a, b>>) = 2 /\ DOMAIN <<a, b>> = {1, 2}
    OBVIOUS
  <2> QED
    BY <2>1 DEF Elems
<1> QED
  BY <1>1, <1>2, <1>3

\* The tasks of a session that is destroyed.
Bye(c) == {Plain("disable", c), Plain("erase", c), Plain("unregister", c)}

LEMMA TasksAre ==
  ASSUME NEW c \in Conns
  PROVE  /\ \A x \in Watchable, types \in SUBSET EventTypes :
              Enable(x, types) \in Tasks /\ Update(x, types) \in Tasks
         /\ \A x \in Watchable : /\ Plain("disable", x) \in Tasks
                                 /\ Plain("unregister", x) \in Tasks
         /\ Bye(c) \subseteq Tasks
         /\ \A m \in Messages : Send(c, m) \in Tasks
  BY DEF Tasks, Enable, Update, Plain, Send, Watchable, Bye

LEMMA FarewellIs ==
  ASSUME NEW c \in Conns
  PROVE  /\ StopPosts(c) \in Seq(Tasks)
         /\ Elems(StopPosts(c)) = {Plain("disable", c), Plain("erase", c)}
         /\ Farewell(c) \in Seq(Tasks) /\ Len(Farewell(c)) = 3
         /\ Elems(Farewell(c)) = Bye(c)
<1>1. PICK d, e, u : d = Plain("disable", c) /\ e = Plain("erase", c)
                       /\ u = Plain("unregister", c)
  OBVIOUS
<1>2. d \in Tasks /\ e \in Tasks /\ u \in Tasks /\ Bye(c) = {d, e, u}
  BY <1>1, TasksAre DEF Bye
<1>3. StopPosts(c) = <<d, e>> /\ <<d, e>> \in Seq(Tasks) /\ <<u>> \in Seq(Tasks)
  BY <1>1, <1>2 DEF StopPosts
<1>4. Elems(<<d, e>>) = {d, e} /\ Elems(<<u>>) = {u}
  BY ElemsFew
<1>5. Farewell(c) = <<d, e>> \o <<u>>
  BY <1>1, <1>3 DEF Farewell
<1>6. <<d, e>> \o <<u>> \in Seq(Tasks) /\ Elems(<<d, e>> \o <<u>>) = {d, e} \cup {u}
  <2>1. PICK s \in Seq(Tasks), r \in Seq(Tasks) : s = <<d, e>> /\ r = <<u>>
    BY <1>3
  <2>2. s \o r \in Seq(Tasks) /\ Elems(s \o r) = Elems(s) \cup Elems(r)
    BY ElemsConcat
  <2> QED
    BY <1>4, <2>1, <2>2
<1>7. Len(<<d, e>> \o <<u>>) = 3
  BY <1>3
<1> QED
  BY <1>1, <1>2, <1>3, <1>4, <1>5, <1>6, <1>7

LEMMA FarewellsAre ==
  ASSUME NEW S \in SUBSET Conns, IsFiniteSet(S), NEW f \in Farewells(S)
  PROVE  f \in Seq(Tasks) /\ \A k \in Elems(f) : \E c \in S : k \in Bye(c)
<1>1. PICK o \in Orders(S) :
        f = [i \in 1..3 * Len(o) |-> Farewell(o[(i + 2) \div 3])[((i - 1) % 3) + 1]]
  BY DEF Farewells
<1>2. PICK n \in Nat : n = Cardinality(S)
  BY FS_CardinalityType
<1>3. o \in [1..n -> S]
  BY <1>1, <1>2 DEF Orders
<1>4. o \in Seq(S) /\ Len(o) = n
  BY <1>3
<1>5. ASSUME NEW i \in 1..3 * n
      PROVE  \E c \in S : f[i] \in Bye(c)
  <2>1. PICK a, b : a = (i + 2) \div 3 /\ b = ((i - 1) % 3) + 1
    OBVIOUS
  <2>2. a \in 1..n /\ b \in 1..3
    BY <2>1
  <2>3. PICK c \in S : c = o[a]
    BY <1>3, <2>2
  <2>4. PICK bye : bye = Farewell(c)
    OBVIOUS
  <2>5. bye \in Seq(Tasks) /\ Len(bye) = 3 /\ Elems(bye) = Bye(c)
    BY <2>4, FarewellIs
  <2>6. bye[b] \in Bye(c)
    BY <2>2, <2>5 DEF Elems
  <2>7. f[i] = bye[b]
    BY <1>1, <1>4, <2>1, <2>3, <2>4
  <2> QED
    BY <2>6, <2>7
<1>6. DOMAIN f = 1..3 * n
  BY <1>1, <1>4
<1>7. \A i \in 1..3 * n : f[i] \in Tasks
  BY <1>5, TasksAre
<1>8. f = [i \in 1..3 * n |-> f[i]]
  BY <1>1, <1>4
<1>9. f \in [1..3 * n -> Tasks]
  BY <1>7, <1>8
<1>10. 3 * n \in Nat
  OBVIOUS
<1> QED
  BY <1>5, <1>6, <1>9, <1>10 DEF Elems

LEMMA SettleIs ==
  ASSUME OwnerTypes, queue \in Seq(Tasks),
         NEW before \in Seq(Tasks), NEW after \in Seq(Tasks),
         NEW born \in SUBSET Conns, IsFiniteSet(born), Settle(before, born, after)
  PROVE  /\ live' \in SUBSET Conns /\ IsFiniteSet(live')
         /\ live' \subseteq live \cup born
         /\ \A c \in live \cup born : Referenced(c)' => c \in live'
         /\ \E f \in Seq(Tasks) :
              /\ queue' = queue \o before \o f \o after
              /\ \A k \in Elems(f) :
                   \E c \in (live \cup born) \ live' : k \in Bye(c)
<1>1. PICK dying : dying = {c \in live \cup born : ~Referenced(c)'}
  OBVIOUS
<1>2. /\ live' = (live \cup born) \ dying
      /\ \E f \in Farewells(dying) : queue' = queue \o before \o f \o after
  BY <1>1 DEF Settle
<1>3. live \in SUBSET Conns /\ IsFiniteSet(live \cup born)
  BY FS_Union DEF OwnerTypes
<1>4. IsFiniteSet(live') /\ IsFiniteSet(dying) /\ dying \in SUBSET Conns
  BY <1>1, <1>2, <1>3, FS_Subset
<1>5. PICK f \in Farewells(dying) : queue' = queue \o before \o f \o after
  BY <1>2
<1>6. f \in Seq(Tasks) /\ \A k \in Elems(f) : \E c \in dying : k \in Bye(c)
  BY <1>4, FarewellsAre
<1>7. dying \subseteq (live \cup born) \ live'
  BY <1>1, <1>2
<1> QED
  BY <1>1, <1>2, <1>3, <1>4, <1>5, <1>6, <1>7

LEMMA EraseIs ==
  ASSUME OwnerTypes, EraseTask
  PROVE  /\ live' \in SUBSET Conns /\ IsFiniteSet(live') /\ live' \subseteq live
         /\ \A c \in live : Referenced(c)' => c \in live'
         /\ \E f \in Seq(Tasks) :
              /\ queue' = Tail(queue) \o f
              /\ \A k \in Elems(f) : \E c \in live \ live' : k \in Bye(c)
<1>1. PICK dying : dying = {c \in live : ~Referenced(c)'}
  OBVIOUS
<1>2. /\ live' = live \ dying
      /\ \E f \in Farewells(dying) : queue' = Tail(queue) \o f
  BY <1>1 DEF EraseTask
<1>3. IsFiniteSet(live') /\ IsFiniteSet(dying) /\ dying \in SUBSET Conns
  BY <1>1, <1>2, FS_Subset DEF OwnerTypes
<1>4. PICK f \in Farewells(dying) : queue' = Tail(queue) \o f
  BY <1>2
<1>5. f \in Seq(Tasks) /\ \A k \in Elems(f) : \E c \in dying : k \in Bye(c)
  BY <1>3, FarewellsAre
<1> QED
  BY <1>1, <1>2, <1>3, <1>4, <1>5 DEF OwnerTypes

\* A step that settles after letting go of references only.
LEMMA JustSettles ==
  ASSUME OwnerTypes, queue \in Seq(Tasks), Settle(<<>>, {}, <<>>)
  PROVE  /\ live' \in SUBSET Conns /\ IsFiniteSet(live') /\ live' \subseteq live
         /\ \A c \in live : Referenced(c)' => c \in live'
         /\ \E f \in Seq(Tasks) :
              /\ queue' = queue \o f
              /\ \A k \in Elems(f) : \E c \in live \ live' : k \in Bye(c)
<1>1. PICK e, none : e = <<>> /\ none = {}
  OBVIOUS
<1>2. /\ e \in Seq(Tasks) /\ none \in SUBSET Conns /\ IsFiniteSet(none)
      /\ Settle(e, none, e)
  BY <1>1, FS_EmptySet
<1>3. /\ live' \in SUBSET Conns /\ IsFiniteSet(live')
      /\ live' \subseteq live \cup none
      /\ \A c \in live \cup none : Referenced(c)' => c \in live'
      /\ \E f \in Seq(Tasks) :
           /\ queue' = queue \o e \o f \o e
           /\ \A k \in Elems(f) :
                \E c \in (live \cup none) \ live' : k \in Bye(c)
  BY <1>2, SettleIs
<1>4. PICK f \in Seq(Tasks) :
           /\ queue' = queue \o e \o f \o e
           /\ \A k \in Elems(f) :
                \E c \in (live \cup none) \ live' : k \in Bye(c)
  BY <1>3
<1>5. queue' = queue \o f
  BY <1>1, <1>4
<1>6. live \cup none = live
  BY <1>1
<1> QED
  BY <1>3, <1>4, <1>5, <1>6

LEMMA DyingServer ==
  ASSUME OwnerTypes, queue \in Seq(Tasks), ServerDies
  PROVE  /\ live' \in SUBSET Conns /\ IsFiniteSet(live') /\ live' \subseteq live
         /\ \A c \in live : Referenced(c)' => c \in live'
         /\ \E t \in Seq(Tasks) :
              /\ queue' = queue \o t
              /\ \A k \in Elems(t) : \/ k.who = Listen
                                     \/ \E c \in live \ live' : k \in Bye(c)
<1>1. PICK d, u, none : d = <<Plain("disable", Listen)>>
                         /\ u = <<Plain("unregister", Listen)>> /\ none = {}
  OBVIOUS
<1>2. Plain("disable", Listen) \in Tasks /\ Plain("unregister", Listen) \in Tasks
  BY DEF Plain, Tasks, Watchable
<1>3. d \in Seq(Tasks) /\ u \in Seq(Tasks)
  BY <1>1, <1>2
<1>4. none \in SUBSET Conns /\ IsFiniteSet(none)
  BY <1>1, FS_EmptySet
<1>5. Settle(d, none, u)
  BY <1>1 DEF ServerDies
<1>6. /\ live' \in SUBSET Conns /\ IsFiniteSet(live')
      /\ live' \subseteq live \cup none
      /\ \A c \in live \cup none : Referenced(c)' => c \in live'
      /\ \E f \in Seq(Tasks) :
           /\ queue' = queue \o d \o f \o u
           /\ \A k \in Elems(f) :
                \E c \in (live \cup none) \ live' : k \in Bye(c)
  BY <1>3, <1>4, <1>5, SettleIs
<1>7. live \cup none = live
  BY <1>1
<1>8. PICK f \in Seq(Tasks) :
           /\ queue' = queue \o d \o f \o u
           /\ \A k \in Elems(f) : \E c \in live \ live' : k \in Bye(c)
  BY <1>6, <1>7
<1>9. d \o f \in Seq(Tasks) /\ Elems(d \o f) = Elems(d) \cup Elems(f)
  BY <1>3, ElemsConcat
<1>10. (d \o f) \o u \in Seq(Tasks)
       /\ Elems((d \o f) \o u) = Elems(d \o f) \cup Elems(u)
  <2>1. PICK df \in Seq(Tasks) : df = d \o f
    BY <1>9
  <2>2. df \o u \in Seq(Tasks) /\ Elems(df \o u) = Elems(df) \cup Elems(u)
    BY <1>3, ElemsConcat
  <2> QED
    BY <2>1, <2>2
<1>11. queue' = queue \o ((d \o f) \o u)
  BY <1>3, <1>8
<1>12. /\ Elems(d) = {Plain("disable", Listen)}
       /\ Elems(u) = {Plain("unregister", Listen)}
  BY <1>1, ElemsFew
<1>13. \A k \in Elems((d \o f) \o u) : \/ k.who = Listen
                                       \/ \E c \in live \ live' : k \in Bye(c)
  BY <1>8, <1>9, <1>10, <1>12 DEF Plain
<1> QED
  BY <1>6, <1>7, <1>10, <1>11, <1>13

LEMMA HeadIs ==
  ASSUME LoopTypes, NEW op, Running(op)
  PROVE  /\ pc = <<>> /\ queue # <<>> /\ Head(queue).op = op
         /\ Head(queue) \in Elems(queue)
         /\ Tail(queue) \in Seq(Tasks) /\ Elems(Tail(queue)) \subseteq Elems(queue)
         /\ Who \in Watchable
         /\ op \in {"send", "erase"} => Who \in Conns
         /\ op \in {"enable", "update"} => Head(queue).types \in SUBSET EventTypes
         /\ op = "send" => Head(queue).msg \in Messages
<1>1. queue \in Seq(Tasks) /\ queue # <<>> /\ Head(queue).op = op /\ pc = <<>>
  BY DEF LoopTypes, Running
<1>2. /\ Tail(queue) \in Seq(Tasks) /\ Elems(Tail(queue)) \subseteq Elems(queue)
      /\ Head(queue) \in Elems(queue) /\ Head(queue) \in Tasks
  BY <1>1, ElemsTail
<1>3. PICK k \in Tasks : k = Head(queue)
  BY <1>2
<1>4. /\ k.who \in Watchable
      /\ k.op \in {"send", "erase"} => k.who \in Conns
      /\ k.op \in {"enable", "update"} => k.types \in SUBSET EventTypes
      /\ k.op = "send" => k.msg \in Messages
  BY DEF Tasks, Watchable
<1> QED
  BY <1>1, <1>2, <1>3, <1>4 DEF Who

LEMMA AtIs ==
  ASSUME LoopTypes, PhaseInv, NEW l, At(l)
  PROVE  /\ pc # <<>> /\ Tail(pc) \in Seq(Labels) /\ Len(Tail(pc)) = Len(pc) - 1
         /\ \A i \in 1..Len(pc) - 1 : Tail(pc)[i] = pc[i + 1]
         /\ l \in Phases => cur \in Conns
         /\ l = "accept" => cur = Listen
         /\ l # "leave" => Len(pc) > 1
         /\ cur # None
<1>1. pc \in Seq(Labels) /\ pc # <<>> /\ pc[1] = l /\ 1 \in DOMAIN pc
  BY DEF LoopTypes, At
<1> QED
  BY <1>1 DEF PhaseInv, Shape

\* A phase ends: the callback goes on, perhaps to close the session at its end,
\* or with the accept loop.
LEMMA PhaseEnds ==
  ASSUME LoopTypes, PhaseInv, NEW l, At(l), l # "leave",
         \/ Goto(<<>>)
         \/ l \in Phases /\ Disconnected
         \/ l = "accept" /\ Goto(<<"accept">>)
  PROVE  /\ cur' = cur /\ pc' \in Seq(Labels) /\ Shape(cur, pc')
         /\ Closing(pc') => Closing(pc) \/ Disconnected
<1>1. PICK rest \in Seq(Labels), n \in Nat :
        /\ rest = Tail(pc) /\ n = Len(rest) /\ n > 0 /\ Len(pc) = n + 1
        /\ DOMAIN rest = 1..n /\ DOMAIN pc = 1..n + 1
        /\ \A i \in 1..n : rest[i] = pc[i + 1]
  <2>1. /\ Tail(pc) \in Seq(Labels) /\ Len(Tail(pc)) = Len(pc) - 1 /\ Len(pc) > 1
        /\ \A i \in 1..Len(pc) - 1 : Tail(pc)[i] = pc[i + 1]
        /\ Len(pc) \in Nat /\ DOMAIN pc = 1..Len(pc)
    BY AtIs DEF LoopTypes
  <2>2. PICK rest \in Seq(Labels), k \in Nat : rest = Tail(pc) /\ k = Len(pc)
    BY <2>1
  <2>n. k - 1 \in Nat
    BY <2>1, <2>2
  <2>3. PICK n \in Nat : n = k - 1
    BY <2>n
  <2>4. /\ n = Len(rest) /\ n > 0 /\ Len(pc) = n + 1 /\ DOMAIN pc = 1..n + 1
        /\ DOMAIN rest = 1..n /\ \A i \in 1..n : rest[i] = pc[i + 1]
    BY <2>1, <2>2, <2>3
  <2> QED
    BY <2>2, <2>4
<1>2. Shape(cur, rest) /\ cur # None
  <2>1. cur # None /\ rest # <<>>
    BY <1>1, AtIs
  <2>2. ASSUME NEW i \in 1..n
        PROVE  i + 1 \in 1..n + 1 /\ (i + 1 = n + 1 <=> i = n)
    OBVIOUS
  <2> QED
    BY <1>1, <2>1, <2>2 DEF PhaseInv, Shape
<1>3. Closing(rest) => Closing(pc)
  BY <1>1 DEF Closing
<1>4. CASE Goto(<<>>)
  <2>1. pc' = rest /\ cur' = cur
    BY <1>1, <1>4 DEF Goto
  <2> QED
    BY <1>2, <1>3, <2>1
<1>5. CASE l = "accept" /\ Goto(<<"accept">>)
  <2>1. PICK a : a = <<"accept">>
    OBVIOUS
  <2>2. pc' = a \o rest /\ cur' = cur /\ a \in Seq(Labels) /\ Len(a) = 1
    BY <1>1, <1>5, <2>1 DEF Goto, Labels
  <2>3. /\ pc' \in Seq(Labels) /\ Len(pc') = n + 1 /\ pc'[1] = "accept"
        /\ \A i \in 1..n : pc'[i + 1] = rest[i]
    BY <1>1, <2>1, <2>2
  <2>4. pc' = pc
    <3>1. pc \in Seq(Labels) /\ pc[1] = "accept"
      BY <1>5 DEF At, LoopTypes
    <3>2. ASSUME NEW i \in 1..n + 1 PROVE pc'[i] = pc[i]
      <4>1. CASE i = 1
        BY <2>3, <3>1, <4>1
      <4>2. CASE i # 1
        <5>1. PICK j \in 1..n : i = j + 1
          <6>1. i - 1 \in 1..n /\ i = (i - 1) + 1
            BY <4>2
          <6> QED
            BY <6>1
        <5> QED
          BY <1>1, <2>3, <5>1
      <4> QED
        BY <4>1, <4>2
    <3> QED
      BY <1>1, <2>3, <3>1, <3>2, SeqEqual
  <2> QED
    BY <2>2, <2>3, <2>4 DEF PhaseInv
<1>6. CASE l \in Phases /\ Disconnected
  <2>1. cur \in Conns
    BY <1>6, AtIs
  <2>2. CASE pc' = rest
    BY <1>2, <1>3, <1>6, <2>2 DEF Disconnected
  <2>3. CASE pc' = SubSeq(rest, 1, n - 1) \o <<"closed", "leave">>
    <3>0. n - 1 \in Nat
      BY <1>1
    <3>m. PICK m \in Nat : m = n - 1
      BY <3>0
    <3>1. PICK x, e : /\ m = n - 1 /\ x = SubSeq(rest, 1, m)
                      /\ e = <<"closed", "leave">>
      BY <3>m
    <3>2. x \in Seq(Labels) /\ Len(x) = m /\ \A i \in 1..m : x[i] = rest[i]
      BY <1>1, <3>1
    <3>3. e \in Seq(Labels) /\ Len(e) = 2 /\ e[1] = "closed" /\ e[2] = "leave"
      BY <3>1 DEF Labels, Phases
    <3>4. /\ x \o e \in Seq(Labels) /\ Len(x \o e) = m + 2
          /\ \A i \in 1..m : (x \o e)[i] = x[i]
          /\ (x \o e)[m + 1] = e[1] /\ (x \o e)[m + 2] = e[2]
      <4>1. /\ x \o e \in Seq(Labels) /\ Len(x \o e) = Len(x) + Len(e)
            /\ \A i \in 1..Len(x) + Len(e) :
                 (x \o e)[i] = IF i <= Len(x) THEN x[i] ELSE e[i - Len(x)]
        BY <3>2, <3>3, ConcatProperties
      <4>2. PICK w : w = x \o e
        OBVIOUS
      <4>3. \A i \in 1..m + 2 : w[i] = IF i <= m THEN x[i] ELSE e[i - m]
        BY <3>2, <3>3, <4>1, <4>2
      <4>4. w[m + 1] = e[1] /\ w[m + 2] = e[2]
        <5>1. m + 1 \in 1..m + 2 /\ ~(m + 1 <= m) /\ (m + 1) - m = 1
          OBVIOUS
        <5>2. m + 2 \in 1..m + 2 /\ ~(m + 2 <= m) /\ (m + 2) - m = 2
          OBVIOUS
        <5> QED
          BY <4>3, <5>1, <5>2
      <4> QED
        BY <3>2, <3>3, <4>1, <4>2, <4>3, <4>4
    <3>5. /\ pc' \in Seq(Labels) /\ Len(pc') = m + 2 /\ DOMAIN pc' = 1..m + 2
          /\ \A i \in 1..m : pc'[i] = rest[i] /\ rest[i] # "leave"
          /\ pc'[m + 1] = "closed" /\ pc'[m + 2] = "leave"
      <4>1. \A i \in 1..m : i \in 1..n /\ i # n
        BY <1>1, <3>1
      <4>2. \A i \in 1..m : rest[i] # "leave"
        BY <1>1, <1>2, <4>1 DEF Shape
      <4>3. pc' = x \o e
        BY <2>3, <3>1
      <4> QED
        BY <3>2, <3>3, <3>4, <4>2, <4>3
    <3>6. ASSUME NEW i \in 1..m + 2
          PROVE  i \in 1..m \/ i = m + 1 \/ i = m + 2
      OBVIOUS
    <3>7. pc' # <<>>
      BY <3>5
    <3>8. \A i \in 1..m : rest[i] = "accept" => cur = Listen
      <4>1. \A i \in 1..m : i \in 1..n
        BY <1>1, <3>1
      <4> QED
        BY <1>1, <1>2, <4>1 DEF Shape
    <3>9. Shape(cur, pc')
      BY <1>2, <2>1, <3>5, <3>6, <3>7, <3>8 DEF Shape, Phases
    <3> QED
      BY <1>6, <3>5, <3>9 DEF Disconnected
  <2> QED
    BY <1>1, <1>6, <2>2, <2>3 DEF Disconnected
<1> QED
  BY <1>4, <1>5, <1>6

LEMMA Nothing ==
  /\ <<>> \in Seq(Tasks) /\ Elems(<<>>) = {}
  BY ElemsFew

LEMMA OneTask ==
  ASSUME NEW k \in Tasks
  PROVE  <<k>> \in Seq(Tasks) /\ Elems(<<k>>) = {k}
  BY ElemsFew

\* What a step does to the queue: it posts tasks t, or runs the first and then
\* posts.
Posts(t) == t \in Seq(Tasks) /\ queue' = queue \o t
Runs(t)  == t \in Seq(Tasks) /\ queue # <<>> /\ pc = <<>> /\ queue' = Tail(queue) \o t

LEMMA PostIs ==
  ASSUME NEW t \in Seq(Tasks), Post(t)
  PROVE  Posts(t) /\ live' = live
  BY DEF Post, Posts

LEMMA FitIs ==
  ASSUME Types, LifeInv, NEW k, Fit(k)
  PROVE  /\ k.op \in {"enable", "disable"} => k \in Tasks
         /\ \/ /\ server = "owned" /\ k.who = Listen
               /\ k.op \in {"set", "disable", "enable"}
            \/ /\ k.who \in held \cap stopped /\ k.who \in live /\ k.who \in Conns
               /\ k.op \in {"enable", "store"} /\ k.types \in SUBSET EventTypes
<1>t. held \subseteq live /\ live \in SUBSET Conns
  BY DEF Types, OwnerTypes, LifeInv, RefInv
<1>1. ASSUME k \in {Plain("set", Listen), Plain("disable", Listen),
                    Enable(Listen, {"R", "E"})}
      PROVE  /\ k.who = Listen /\ k.op \in {"set", "disable", "enable"}
             /\ k.op \in {"enable", "disable"} => k \in Tasks
  BY <1>1 DEF Plain, Enable, Tasks, Watchable, EventTypes
<1>2. ASSUME NEW c \in held \cap stopped, NEW types \in SUBSET EventTypes,
             k \in {Enable(c, types), Store(c, types)}
      PROVE  /\ k.who = c /\ k.op \in {"enable", "store"} /\ k.types = types
             /\ k.op \in {"enable", "disable"} => k \in Tasks
  BY <1>t, <1>2 DEF Store, Enable, Tasks, Watchable
<1> QED
  BY <1>t, <1>1, <1>2 DEF Fit

\* The next step of a call, and those after it.
LEMMA CallIs ==
  ASSUME Types, LifeInv, CallInv, NEW t \in Callers, call[t] # << >>
  PROVE  /\ Fit(Head(call[t]))
         /\ Tail(call[t]) \in Seq(Steps)
         /\ \A k \in Elems(Tail(call[t])) :
              Fit(k) /\ k.who = Head(call[t]).who /\ k.who = Head(Tail(call[t])).who
<1>1. PICK s \in Seq(Steps) : s = call[t] /\ s # << >>
  BY DEF CallInv
<1>2. \A k \in Elems(s) : Fit(k) /\ k.who = Head(s).who
  BY <1>1 DEF CallInv
<1>3. /\ Tail(s) \in Seq(Steps) /\ Elems(Tail(s)) \subseteq Elems(s)
      /\ Head(s) \in Elems(s)
  BY <1>1, ElemsTail
<1>4. ASSUME NEW k \in Elems(Tail(s)) PROVE k.who = Head(Tail(s)).who
  <2>1. Tail(s) # << >>
    BY <1>4, ElemsFew
  <2>2. Head(Tail(s)) \in Elems(s)
    BY <1>3, <2>1, ElemsTail
  <2> QED
    BY <1>2, <1>3, <1>4, <2>2
<1> QED
  BY <1>1, <1>2, <1>3, <1>4

\* A call posts a task about the listening socket, or about a session that the
\* application holds and had stopped.
LEMMA CallTask ==
  ASSUME Types, LifeInv, CallInv, NEW t \in Callers, CallPosts(t)
  PROVE  \E k \in Tasks :
           /\ k = Head(call[t]) /\ Posts(<<k>>) /\ live' = live
           /\ \/ k.who = Listen /\ InUse(Listen)
              \/ k.who \in live /\ k.who \in stopped /\ k.op = "enable"
<1>1. /\ call[t] # << >> /\ Head(call[t]).op \in {"enable", "disable"}
      /\ Post(<<Head(call[t])>>)
  BY DEF CallPosts, Calling
<1>2. PICK k : k = Head(call[t])
  OBVIOUS
<1>3. Fit(k)
  BY <1>1, <1>2, CallIs
<1>4. /\ k \in Tasks
      /\ k.who = Listen \/ (k.who \in live /\ k.who \in stopped /\ k.op = "enable")
  BY <1>1, <1>2, <1>3, FitIs
<1>5. Posts(<<k>>) /\ live' = live
  BY <1>1, <1>2, <1>4, OneTask, PostIs
<1> QED
  BY <1>1, <1>2, <1>4, <1>5 DEF InUse

LEMMA UserPosts ==
  ASSUME Types, LifeInv, CallInv, UserStep
  PROVE  \E t : /\ Posts(t)
                /\ \A k \in Elems(t) :
                     \/ k.who = Listen /\ (server' = "gone" \/ InUse(Listen))
                     \/ /\ k.who \in live /\ k.op # "unregister"
                        /\ k.op \in {"erase", "disable"} => k.who \in stopped'
                        /\ k.op \in {"enable", "update"} => k.who \in stopped
                     \/ \E c \in live \ live' : k \in Bye(c)
<1>t. OwnerTypes /\ queue \in Seq(Tasks) /\ obj \in [Conns -> Objs]
      /\ \A c \in held : c \in Conns /\ c \in live
  BY DEF Types, LoopTypes, OwnerTypes, LifeInv, RefInv, DataTypes
<1>0. ASSUME UNCHANGED queue
      PROVE  \E t : Posts(t) /\ Elems(t) = {}
  <2>1. Posts(<<>>)
    BY <1>0, <1>t, Nothing DEF Posts
  <2> QED
    BY <2>1, Nothing
<1>1. CASE Release
  BY <1>0, <1>1, <1>t, DyingServer DEF Release, ServerDies, Posts
<1>2. ASSUME NEW th \in Callers, CallStep(th), ~CallPosts(th)
      PROVE  UNCHANGED queue
  BY <1>2 DEF CallStep, Start, Stop, SessionStart, Begins, CallSets, CallStores
<1>3. ASSUME NEW th \in Callers, CallPosts(th)
      PROVE  \E t : /\ Posts(t)
                    /\ \A k \in Elems(t) :
                         \/ k.who = Listen /\ InUse(Listen)
                         \/ k.who \in live /\ k.who \in stopped /\ k.op = "enable"
  BY <1>3, CallTask, OneTask
<1>4. CASE RunFragment
  <2>1. Settle(<<>>, {}, <<>>)
    BY <1>4 DEF RunFragment
  <2> QED
    BY <1>t, <2>1, JustSettles DEF Posts
<1>5. ASSUME NEW c \in Conns, SessionStop(c)
      PROVE  \E t : /\ Posts(t)
                    /\ \A k \in Elems(t) : /\ k.who \in live /\ k.op # "unregister"
                                           /\ k.op \in {"erase", "disable"} => k.who \in stopped'
                                           /\ k.op \notin {"enable", "update"}
  <2>1. PICK t : t = StopPosts(c)
    OBVIOUS
  <2>2. t \in Seq(Tasks) /\ Elems(t) = {Plain("disable", c), Plain("erase", c)}
    BY <2>1, FarewellIs
  <2>3. Post(t) /\ c \in stopped' /\ c \in live
    BY <1>5, <1>t, <2>1 DEF SessionStop
  <2> QED
    BY <2>2, <2>3, PostIs DEF Plain
<1>7. ASSUME NEW c \in Conns, NEW m \in Messages, PostSend(c, m)
      PROVE  \E t : /\ Posts(t)
                    /\ \A k \in Elems(t) : k.who \in live /\ k.op = "send"
  <2>3. PICK t : t = <<Send(c, m)>>
    OBVIOUS
  <2>4. t \in Seq(Tasks) /\ Elems(t) = {Send(c, m)}
    BY <2>3, OneTask, TasksAre
  <2>5. Post(t) /\ c \in live
    BY <1>7, <1>t, <2>3 DEF PostSend
  <2> QED
    BY <2>4, <2>5, PostIs DEF Send
<1>8. ASSUME NEW c \in Conns, Drop(c)
      PROVE  \E t : /\ Posts(t)
                    /\ \A k \in Elems(t) : \E d \in live \ live' : k \in Bye(d)
  <2>1. Settle(<<>>, {}, <<>>)
    BY <1>8 DEF Drop
  <2> QED
    BY <1>t, <2>1, JustSettles DEF Posts
<1> QED
  BY <1>0, <1>1, <1>2, <1>3, <1>4, <1>5, <1>7, <1>8 DEF UserStep

LEMMA TaskPosts ==
  ASSUME Types, RunTask
  PROVE  \E t : /\ Runs(t)
                /\ \A k \in Elems(t) : \/ k.who \in live /\ k.op = "update"
                                       \/ \E c \in live \ live' : k \in Bye(c)
<1>t. OwnerTypes /\ LoopTypes /\ obj \in [Conns -> Objs]
  BY DEF Types, DataTypes
<1>0. ASSUME NEW op, Running(op), queue' = Tail(queue)
      PROVE  \E t : Runs(t) /\ Elems(t) = {}
  <2>1. PICK q \in Seq(Tasks) : q = Tail(queue)
    BY <1>t, <1>0, HeadIs
  <2>2. Tail(queue) \o <<>> = Tail(queue)
    BY <2>1
  <2>3. Runs(<<>>)
    BY <1>t, <1>0, <2>2, HeadIs, Nothing DEF Runs
  <2> QED
    BY <2>3, Nothing
<1>1. CASE EnableTask
  BY <1>0, <1>1 DEF EnableTask
<1>2. CASE DisableTask
  BY <1>0, <1>2 DEF DisableTask
<1>3. CASE UnregisterTask
  BY <1>0, <1>3 DEF UnregisterTask
<1>4. CASE EraseTask
  <2>1. Running("erase")
    BY <1>4 DEF EraseTask
  <2> QED
    BY <1>t, <1>4, <2>1, EraseIs, HeadIs DEF Runs
<1>5. CASE SendTask
  <2>1. Running("send")
    BY <1>5 DEF SendTask
  <2>2. PICK c \in Conns : c = Who
    BY <1>t, <2>1, HeadIs
  <2>3. CASE queue' = Tail(queue)
    BY <1>0, <2>1, <2>3
  <2>4. ASSUME c \in live, NEW rest, queue' = Tail(queue) \o AwaitWritable(c, rest),
               rest # <<>>
        PROVE  \E t : Runs(t) /\ \A k \in Elems(t) : k.who \in live /\ k.op = "update"
    <3>1. PICK types : types = obj[c].types \cup {"W"}
      OBVIOUS
    <3>2. types \in SUBSET EventTypes
      <4>1. obj[c] \in Objs
        BY <1>t
      <4> QED
        BY <3>1, <4>1 DEF Objs, EventTypes
    <3>3. PICK t : t = <<Update(c, types)>>
      OBVIOUS
    <3>4. t \in Seq(Tasks) /\ Elems(t) = {Update(c, types)}
      BY <3>2, <3>3, OneTask, TasksAre DEF Watchable
    <3>5. queue' = Tail(queue) \o t
      BY <2>4, <3>1, <3>3 DEF AwaitWritable
    <3>6. Runs(t)
      BY <1>t, <2>1, <3>4, <3>5, HeadIs DEF Runs
    <3>7. \A k \in Elems(t) : k.who = c /\ k.op = "update"
      BY <3>4 DEF Update
    <3> QED
      BY <2>4, <3>6, <3>7
  <2>5. ASSUME NEW rest, queue' = Tail(queue) \o AwaitWritable(c, rest), rest = <<>>
        PROVE  queue' = Tail(queue)
    <3>1. PICK q \in Seq(Tasks) : q = Tail(queue)
      BY <1>t, <2>1, HeadIs
    <3> QED
      BY <2>5, <3>1 DEF AwaitWritable
  <2>6. \/ queue' = Tail(queue)
        \/ c \in live /\ \E rest : queue' = Tail(queue) \o AwaitWritable(c, rest)
    BY <1>5, <2>2 DEF SendTask
  <2> QED
    BY <2>3, <2>4, <2>5, <2>6
<1> QED
  BY <1>1, <1>2, <1>3, <1>4, <1>5 DEF RunTask

LEMMA CallbackPosts ==
  ASSUME Types, PhaseInv, LifeInv, Write \/ Error \/ Closed \/ Leave
  PROVE  \E t : /\ Posts(t)
                /\ \A k \in Elems(t) :
                     \/ k.who = Listen /\ server' = "gone" /\ Leave
                     \/ /\ k.who \in live /\ k.op # "unregister"
                        /\ k.op \in {"erase", "disable"} => k.who \in stopped'
                     \/ \E c \in live \ live' : k \in Bye(c)
<1>t. OwnerTypes /\ LoopTypes /\ queue \in Seq(Tasks) /\ obj \in [Conns -> Objs]
      /\ (cur \in Conns => cur \in live)
  BY DEF Types, LoopTypes, LifeInv, RefInv, DataTypes
<1>0. ASSUME UNCHANGED queue
      PROVE  \E t : Posts(t) /\ Elems(t) = {}
  <2>1. Posts(<<>>)
    BY <1>0, <1>t, Nothing DEF Posts
  <2> QED
    BY <2>1, Nothing
<1>s. ASSUME cur \in Conns, Post(StopPosts(cur)), cur \in stopped'
      PROVE  \E t : /\ Posts(t)
                    /\ \A k \in Elems(t) : /\ k.who \in live /\ k.op # "unregister"
                                           /\ k.op \in {"erase", "disable"} => k.who \in stopped'
  <2>1. PICK c, t : c \in Conns /\ c = cur /\ t = StopPosts(c)
    BY <1>s
  <2>2. t \in Seq(Tasks) /\ Elems(t) = {Plain("disable", c), Plain("erase", c)}
    BY <2>1, FarewellIs
  <2>3. Post(t) /\ c \in live
    BY <1>s, <1>t, <2>1
  <2> QED
    BY <1>s, <2>1, <2>2, <2>3, PostIs DEF Plain
<1>1. CASE Write
  <2>1. cur \in Conns
    BY <1>1, <1>t, AtIs DEF Write, Phases
  <2>2. CASE queue' = queue
    BY <1>0, <2>2
  <2>3. CASE queue' = queue \o <<Update(cur, obj[cur].types \ {"W"})>>
    <3>c. PICK c \in Conns : c = cur
      BY <2>1
    <3>1. PICK types : c = cur /\ types = obj[cur].types \ {"W"}
      BY <3>c
    <3>2. types \in SUBSET EventTypes
      <4>1. obj[c] \in Objs
        BY <1>t
      <4> QED
        BY <3>1, <4>1 DEF Objs
    <3>3. PICK t : t = <<Update(c, types)>>
      OBVIOUS
    <3>4. t \in Seq(Tasks) /\ Elems(t) = {Update(c, types)}
      BY <3>2, <3>3, OneTask, TasksAre DEF Watchable
    <3>5. Posts(t)
      BY <2>3, <3>1, <3>3, <3>4 DEF Posts
    <3>6. \A k \in Elems(t) : k.who = c /\ k.op = "update"
      BY <3>4 DEF Update
    <3> QED
      BY <1>t, <3>1, <3>5, <3>6
  <2>4. queue' = queue \/ queue' = queue \o <<Update(cur, obj[cur].types \ {"W"})>>
    <3>1. PICK u : u = <<Update(cur, obj[cur].types \ {"W"})>>
      OBVIOUS
    <3>2. queue \o <<>> = queue
      BY <1>t
    <3>3. queue' = queue \/ queue' = queue \o <<>> \/ queue' = queue \o u
      BY <1>1, <3>1 DEF Write, Post
    <3> QED
      BY <3>1, <3>2, <3>3
  <2> QED
    BY <2>2, <2>3, <2>4
<1>2. CASE Error
  <2>1. cur \in Conns
    BY <1>2, <1>t, AtIs DEF Error, Phases
  <2>2. CASE queue' = queue
    BY <1>0, <2>2
  <2>3. CASE Post(StopPosts(cur)) /\ cur \in stopped'
    BY <1>s, <2>1, <2>3
  <2> QED
    BY <1>2, <2>2, <2>3 DEF Error, OnSessionError
<1>3. CASE Closed
  <2>1. cur \in Conns
    BY <1>3, <1>t, AtIs DEF Closed, Phases
  <2>2. Post(StopPosts(cur)) /\ cur \in stopped'
    BY <1>3 DEF Closed, OnDisconnect
  <2> QED
    BY <1>s, <2>1, <2>2
<1>4. CASE Leave
  <2>1. CASE ServerDies
    BY <1>t, <1>4, <2>1, DyingServer DEF ServerDies, Posts
  <2>2. CASE Settle(<<>>, {}, <<>>)
    BY <1>t, <2>2, JustSettles DEF Posts
  <2> QED
    BY <1>4, <2>1, <2>2 DEF Leave
<1> QED
  BY <1>1, <1>2, <1>3, <1>4

LEMMA QueueIs ==
  ASSUME queue \in Seq(Tasks), NEW t, Posts(t) \/ Runs(t)
  PROVE  queue' \in Seq(Tasks) /\ Elems(queue') \subseteq Elems(queue) \cup Elems(t)
<1>1. CASE Posts(t)
  BY <1>1, ElemsConcat DEF Posts
<1>2. CASE Runs(t)
  <2>1. PICK q \in Seq(Tasks) : q = Tail(queue) /\ Elems(q) \subseteq Elems(queue)
    BY <1>2, ElemsTail DEF Runs
  <2>2. queue' = q \o t /\ t \in Seq(Tasks)
    BY <1>2, <2>1 DEF Runs
  <2>3. q \o t \in Seq(Tasks) /\ Elems(q \o t) = Elems(q) \cup Elems(t)
    BY <2>2, ElemsConcat
  <2> QED
    BY <2>1, <2>2, <2>3
<1> QED
  BY <1>1, <1>2
-------------------------------------------------------------------------------
(***************************************************************************)
(* The units of a peer.                                                    *)
(***************************************************************************)
Input == Seq(1..MaxPeer)

LEMMA InputConcat ==
  ASSUME NEW s \in Input, NEW t \in Input
  PROVE  /\ s \o t \in Input /\ Len(s \o t) = Len(s) + Len(t)
         /\ \A i \in 1..Len(s) : (s \o t)[i] = s[i]
         /\ \A i \in 1..Len(t) : (s \o t)[Len(s) + i] = t[i]
         /\ s \o <<>> = s
  BY DEF Input

LEMMA InputAssoc ==
  ASSUME NEW s \in Input, NEW t \in Input, NEW u \in Input
  PROVE  (s \o t) \o u = s \o (t \o u)
  BY ConcatAssociative DEF Input

LEMMA InputIs ==
  ASSUME NEW s \in Input
  PROVE  /\ Len(s) \in Nat /\ DOMAIN s = 1..Len(s)
         /\ \A i \in 1..Len(s) : s[i] \in 1..MaxPeer /\ s[i] \in Nat
<1>1. Len(s) \in Nat /\ DOMAIN s = 1..Len(s) /\ s \in Seq(1..MaxPeer)
  BY DEF Input
<1>2. \A i \in 1..Len(s) : s[i] \in 1..MaxPeer
  BY <1>1, ElementOfSeq
<1> QED
  BY <1>1, <1>2

LEMMA InputParts ==
  ASSUME NEW b \in Input, NEW n \in Nat, n <= Len(b)
  PROVE  /\ SubSeq(b, 1, n) \in Input /\ Len(SubSeq(b, 1, n)) = n
         /\ \A i \in 1..n : SubSeq(b, 1, n)[i] = b[i]
         /\ SubSeq(b, n + 1, Len(b)) \in Input
         /\ Len(SubSeq(b, n + 1, Len(b))) = Len(b) - n
         /\ \A i \in 1..Len(b) - n : SubSeq(b, n + 1, Len(b))[i] = b[n + i]
<1>l. PICK l \in Nat : l = Len(b) /\ n <= l
  BY InputIs
<1>1. PICK U : /\ l = Len(b) /\ n <= l /\ U = 1..MaxPeer
               /\ \A i \in 1..l : b[i] \in U
  BY <1>l, InputIs
<1>2. PICK x, y : x = SubSeq(b, 1, n) /\ y = SubSeq(b, n + 1, l)
  OBVIOUS
<1>3. x \in Seq(U) /\ Len(x) = n /\ \A i \in 1..n : x[i] = b[i]
  <2>1. \A i \in 1..n : b[i] \in U
    BY <1>1
  <2>2. /\ x \in Seq(U) /\ Len(x) = IF 1 <= n THEN n - 1 + 1 ELSE 0
        /\ \A i \in 1..n - 1 + 1 : x[i] = b[1 + i - 1]
    BY <1>2, <2>1, SubSeqProperties
  <2> QED
    BY <2>2
<1>4. /\ y \in Seq(U) /\ Len(y) = l - n
      /\ \A i \in 1..l - n : y[i] = b[n + i]
  <2>1. PICK k \in Nat : k = n + 1 /\ \A i \in k..l : b[i] \in U
    BY <1>1
  <2>2. y = SubSeq(b, k, l)
    BY <1>2, <2>1
  <2>3. /\ y \in Seq(U) /\ Len(y) = IF k <= l THEN l - k + 1 ELSE 0
        /\ \A i \in 1..l - k + 1 : y[i] = b[k + i - 1]
    BY <2>1, <2>2, SubSeqProperties
  <2> QED
    BY <1>1, <2>1, <2>3
<1> QED
  BY <1>1, <1>2, <1>3, <1>4 DEF Input

\* Dropping what comes last.
LEMMA FlowEnds ==
  ASSUME NEW f \in Input, NEW q \in Input, NEW peer \in Nat, NEW torn, NEW lasting,
         Flow(f \o q, peer, torn, lasting)
  PROVE  Flow(f, peer, torn, FALSE)
<1>1. PICK w : w = f \o q
  OBVIOUS
<1>2. \A i \in DOMAIN f : i \in DOMAIN w /\ w[i] = f[i]
  BY <1>1, InputConcat DEF Input
<1>3. Flow(w, peer, torn, lasting)
  BY <1>1
<1> QED
  BY <1>2, <1>3 DEF Flow, Ascending

\* Dropping what is in recv_buf_.
LEMMA FlowCleared ==
  ASSUME NEW f \in Input, NEW b \in Input, NEW q \in Input, NEW peer \in Nat,
         NEW torn \in BOOLEAN, NEW lasting, Flow((f \o b) \o q, peer, torn, lasting),
         NEW after \in BOOLEAN, after = (torn \/ (b # <<>> /\ q # <<>>))
  PROVE  Flow((f \o <<>>) \o q, peer, after, FALSE)
<1>1. PICK fb \in Input : fb = f \o b
  BY InputConcat
<1>2. PICK w \in Input : w = fb \o q
  BY InputConcat
<1>3. PICK v \in Input : v = f \o q
  BY InputConcat
<1>4. Flow(w, peer, torn, lasting)
  BY <1>1, <1>2
<1>5. f \o <<>> = f
  BY InputConcat
<1>6. CASE b = <<>> \/ q = <<>>
  <2>1. CASE b = <<>>
    <3>1. v = w
      BY <1>1, <1>2, <1>3, <2>1, InputConcat
    <3> QED
      BY <1>3, <1>4, <1>5, <2>1, <3>1 DEF Flow
  <2>2. CASE q = <<>>
    <3>1. w = f \o b /\ v = f
      BY <1>1, <1>2, <1>3, <2>2, InputConcat
    <3>2. Flow(f, peer, torn, FALSE)
      BY <1>4, <3>1, FlowEnds
    <3> QED
      BY <1>3, <1>5, <2>2, <3>1, <3>2
  <2> QED
    BY <1>6, <2>1, <2>2
<1>7. CASE b # <<>> /\ q # <<>>
  <2>1. PICK n \in Nat, m \in Nat, l \in Nat :
          n = Len(f) /\ m = Len(b) /\ l = Len(q)
    BY DEF Input
  <2>2. Len(v) = n + l /\ Len(w) = n + m + l
    BY <1>1, <1>2, <1>3, <2>1, InputConcat
  <2>3. \A i \in 1..n : v[i] = f[i] /\ w[i] = f[i]
    BY <1>1, <1>2, <1>3, <2>1, InputConcat
  <2>4. \A i \in 1..l : v[n + i] = q[i] /\ w[n + m + i] = q[i]
    BY <1>1, <1>2, <1>3, <2>1, InputConcat
  <2>5. ASSUME NEW i \in 1..n + l
        PROVE  \E k \in 1..n + m + l : v[i] = w[k] /\ k = IF i <= n THEN i ELSE i + m
    <3>1. CASE i <= n
      BY <2>1, <2>3, <3>1
    <3>2. CASE i > n
      <4>1. PICK j \in 1..l : i = n + j
        <5>1. i - n \in 1..l /\ i = n + (i - n)
          BY <2>1, <3>2
        <5> QED
          BY <5>1
      <4>2. v[i] = q[j] /\ w[n + m + j] = q[j]
        BY <2>4, <4>1
      <4>3. n + m + j = i + m /\ i + m \in 1..n + m + l
        BY <2>1, <4>1
      <4> QED
        BY <3>2, <4>2, <4>3
    <3> QED
      BY <2>1, <3>1, <3>2
  <2>6. DOMAIN v = 1..n + l /\ DOMAIN w = 1..n + m + l
    BY <2>2 DEF Input
  <2>7. Ascending(v)
    <3> SUFFICES ASSUME NEW i \in 1..n + l, NEW j \in 1..n + l, i < j
                 PROVE  v[i] < v[j]
      BY <2>6 DEF Ascending
    <3>1. PICK a \in 1..n + m + l : v[i] = w[a] /\ a = IF i <= n THEN i ELSE i + m
      BY <2>5
    <3>2. PICK e \in 1..n + m + l : v[j] = w[e] /\ e = IF j <= n THEN j ELSE j + m
      BY <2>5
    <3>3. a < e
      BY <2>1, <3>1, <3>2
    <3> QED
      BY <1>4, <2>6, <3>1, <3>2, <3>3 DEF Flow, Ascending
  <2>8. \A i \in DOMAIN v : v[i] <= peer
    BY <1>4, <2>5, <2>6 DEF Flow
  <2> QED
    BY <1>3, <1>5, <1>7, <2>7, <2>8 DEF Flow
<1> QED
  BY <1>6, <1>7

\* A unit arrives.
LEMMA FlowGrows ==
  ASSUME NEW f \in Input, NEW q \in Input, NEW peer \in Nat, peer < MaxPeer,
         NEW torn \in BOOLEAN, Flow(f \o q, peer, torn, TRUE)
  PROVE  /\ Append(q, peer + 1) \in Input
         /\ Flow(f \o Append(q, peer + 1), peer + 1, torn, TRUE)
<1>1. PICK n \in Nat : n = peer + 1 /\ n \in 1..MaxPeer
  BY ServerAssumption
<1>2. <<n>> \in Input /\ Append(q, n) = q \o <<n>> /\ Append(q, n) \in Input
  BY <1>1 DEF Input
<1>3. PICK u \in Input : u = <<n>>
  BY <1>2
<1>4. f \o Append(q, n) = (f \o q) \o u
  BY <1>2, <1>3, InputAssoc
<1>5. PICK w \in Input : w = f \o q
  BY InputConcat
<1>6. PICK v \in Input : v = w \o u
  BY InputConcat
<1>7. PICK l \in Nat : l = Len(w)
  BY DEF Input
<1>8. /\ DOMAIN w = 1..l /\ DOMAIN v = 1..l + 1 /\ Len(v) = l + 1
      /\ v[l + 1] = n /\ \A i \in 1..l : v[i] = w[i] /\ w[i] \in Nat
  <2>1. Len(u) = 1 /\ u[1] = n
    BY <1>3
  <2>2. /\ Len(v) = Len(w) + Len(u) /\ \A i \in 1..Len(w) : v[i] = w[i]
        /\ \A i \in 1..Len(u) : v[Len(w) + i] = u[i]
    BY <1>6, InputConcat
  <2>3. \A i \in 1..l : w[i] \in Nat
    BY <1>5, <1>7, InputIs
  <2>4. DOMAIN w = 1..Len(w) /\ DOMAIN v = 1..Len(v)
    BY <1>5, <1>6, InputIs
  <2>5. Len(v) = l + 1 /\ v[l + 1] = n /\ \A i \in 1..l : v[i] = w[i]
    <3>1. 1 \in 1..Len(u)
      BY <2>1
    <3> QED
      BY <1>7, <2>1, <2>2, <3>1
  <2> QED
    BY <1>7, <2>3, <2>4, <2>5
<1>9. Flow(w, peer, torn, TRUE)
  BY <1>5
<1>10. Flow(v, n, torn, TRUE)
  <2>1. Ascending(v)
    BY <1>1, <1>8, <1>9 DEF Flow, Ascending
  <2>2. \A i \in DOMAIN v : v[i] <= n
    BY <1>1, <1>8, <1>9 DEF Flow
  <2>3. ~torn => (\A i \in DOMAIN v : v[i] = i) /\ n = Len(v)
    BY <1>1, <1>7, <1>8, <1>9 DEF Flow
  <2> QED
    BY <2>1, <2>2, <2>3 DEF Flow
<1> QED
  BY <1>1, <1>2, <1>4, <1>5, <1>6, <1>10

\* on_split moves what it cuts off.
LEMMA FlowSplits ==
  ASSUME NEW f \in Input, NEW b \in Input, NEW q \in Input, NEW n \in 0..Len(b)
  PROVE  /\ SubSeq(b, 1, n) \in Input /\ SubSeq(b, n + 1, Len(b)) \in Input
         /\ ((f \o SubSeq(b, 1, n)) \o SubSeq(b, n + 1, Len(b))) \o q = (f \o b) \o q
<1>1. PICK l \in Nat : l = Len(b)
  BY DEF Input
<1>2. PICK x, y : x = SubSeq(b, 1, n) /\ y = SubSeq(b, n + 1, l)
  OBVIOUS
<1>n. n \in Nat /\ n <= l
  BY <1>1
<1>3. /\ x \in Input /\ Len(x) = n /\ \A i \in 1..n : x[i] = b[i]
      /\ y \in Input /\ Len(y) = l - n /\ \A i \in 1..l - n : y[i] = b[n + i]
  BY <1>1, <1>2, <1>n, InputParts
<1>4. x \o y = b
  <2>1. PICK w \in Input : w = x \o y
    BY <1>3, InputConcat
  <2>2. Len(w) = l
    <3>1. Len(w) = Len(x) + Len(y)
      BY <1>3, <2>1, InputConcat
    <3> QED
      BY <1>1, <1>3, <3>1
  <2>3. ASSUME NEW i \in 1..l PROVE w[i] = b[i]
    <3>1. CASE i <= n
      <4>1. w[i] = x[i]
        BY <1>3, <2>1, <3>1, InputConcat
      <4> QED
        BY <1>3, <1>n, <3>1, <4>1
    <3>2. CASE i > n
      <4>1. PICK j \in 1..l - n : j = i - n
        BY <1>1, <3>2
      <4>2. w[n + j] = y[j]
        <5>1. j \in 1..Len(y)
          BY <1>3, <4>1
        <5>2. w[Len(x) + j] = y[j]
          BY <1>3, <2>1, <5>1, InputConcat
        <5> QED
          BY <1>3, <5>2
      <4>3. y[j] = b[n + j] /\ n + j = i
        BY <1>3, <1>n, <4>1
      <4> QED
        BY <4>2, <4>3
    <3> QED
      BY <1>1, <3>1, <3>2
  <2> QED
    BY <1>1, <2>1, <2>2, <2>3, SeqEqual DEF Input
<1>5. (f \o x) \o y = f \o (x \o y)
  BY SMTT(30), <1>3, InputAssoc
<1> QED
  BY <1>1, <1>2, <1>3, <1>4, <1>5
-------------------------------------------------------------------------------
(***************************************************************************)
(* Lifetimes, numbers and the table.                                       *)
(***************************************************************************)
\* What a task in the queue of the next step may be.
Proper(k) ==
  \/ k \in Elems(queue)
  \/ k.who = Listen
  \/ /\ k.who \in live /\ k.op # "unregister"
     /\ k.op \in {"erase", "disable"} => k.who \in stopped'
  \/ \E c \in live \ live' : k \in Bye(c)

\* A step that accepts nothing: no session is born, no connection opens, and
\* the table loses at most the entries of sessions that were stopped.
LEMMA LifeStep ==
  ASSUME Types, LifeInv,
         live' \subseteq live, stopped \subseteq stopped',
         \A c \in live : Referenced(c)' => c \in live',
         \A c \in live' : IsOpen(sock'[c]),
         \A c \in pending' : sock'[c].sk = "pending",
         \A c \in Conns : /\ IsOpen(sock'[c]) => IsOpen(sock[c])
                          /\ Known(sock[c]) => Known(sock'[c])
                          /\ obj'[c].fd = obj[c].fd,
         held' \subseteq live, cur' \in Conns => cur' \in live,
         \A i \in DOMAIN heavy' : heavy'[i].who \in live,
         \A fd \in Fds : sessions'[fd] # sessions[fd] =>
           /\ sessions'[fd] = None
           /\ server' = "gone" \/ sessions[fd] \in stopped,
         server = "gone" => server' = "gone",
         \A k \in Elems(queue') : Proper(k)
  PROVE  LifeInv'
<1>t. /\ live \in SUBSET Conns /\ stopped \in SUBSET Conns
      /\ sessions \in [Fds -> Conns \cup {None}] /\ None \notin Conns
      /\ Listen \notin Conns
  BY ServerAssumption DEF Types, OwnerTypes, DataTypes
<1>1. RefInv'
  <2>1. ASSUME NEW c \in live, c \in held' \/ cur' = c
                                \/ \E i \in DOMAIN heavy' : heavy'[i].who = c
        PROVE  c \in live'
    BY <2>1 DEF Referenced
  <2> QED
    BY <2>1 DEF RefInv
<1>2. FdInv'
  BY <1>t DEF LifeInv, FdInv
<1>3. TaskInv'
  <2>1. ASSUME NEW k \in Elems(queue') PROVE Due(k, sock', live', stopped')
    <3>1. CASE k \in Elems(queue)
      BY <1>t, <3>1 DEF LifeInv, TaskInv, Due
    <3>2. CASE k.who = Listen
      BY <1>t, <3>2 DEF Due
    <3>3. ASSUME k.who \in live PROVE Known(sock'[k.who])
      <4>1. IsOpen(sock[k.who]) /\ k.who \in Conns
        BY <1>t, <3>3 DEF LifeInv, FdInv
      <4> QED
        BY <4>1 DEF IsOpen, Known
    <3>4. CASE k.who \in live /\ k.op # "unregister"
                 /\ (k.op \in {"erase", "disable"} => k.who \in stopped')
      BY <3>3, <3>4 DEF Due
    <3>5. ASSUME NEW c \in live \ live', k \in Bye(c) PROVE Due(k, sock', live', stopped')
      <4>1. k.who = c
        BY <3>5 DEF Bye, Plain
      <4> QED
        BY <3>3, <4>1 DEF Due
    <3> QED
      BY <3>1, <3>2, <3>4, <3>5 DEF Proper
  <2> QED
    BY <2>1 DEF TaskInv
<1>4. TableInv'
  <2>1. ASSUME NEW fd \in Fds, sessions'[fd] # None
        PROVE  sessions'[fd] \in live' /\ obj'[sessions'[fd]].fd = fd
    <3>1. sessions'[fd] = sessions[fd]
      BY <2>1
    <3>2. PICK c \in live : c = sessions[fd] /\ obj[c].fd = fd
      BY <2>1, <3>1 DEF LifeInv, TableInv
    <3>3. Referenced(c)'
      BY <3>1, <3>2 DEF Referenced
    <3> QED
      BY <1>t, <3>1, <3>2, <3>3
  <2>2. ASSUME server' # "gone", NEW c \in live' \ stopped'
        PROVE  sessions'[obj'[c].fd] = c
    <3>1. c \in live \ stopped /\ c \in Conns /\ server # "gone"
      BY <1>t, <2>2
    <3>2. PICK fd \in Fds : fd = obj[c].fd
      BY <3>1 DEF LifeInv, FdInv
    <3>3. sessions[fd] = c
      BY <3>1, <3>2 DEF LifeInv, TableInv
    <3> QED
      BY <2>2, <3>1, <3>2, <3>3
  <2> QED
    BY <2>1, <2>2 DEF TableInv
<1> QED
  BY <1>1, <1>2, <1>3, <1>4 DEF LifeInv

\* accept4: the number is free, so the table has no entry for it, and the
\* session gets its own.
LEMMA AcceptIs ==
  ASSUME Types, PhaseInv, LifeInv, NEW c \in Conns, NEW fd \in Fds, Accept(c, fd)
  PROVE  /\ live' \in SUBSET Conns /\ IsFiniteSet(live')
         /\ live' \subseteq live \cup {c} /\ c \in live' /\ c \notin live
         /\ \A d \in live : Referenced(d)' => d \in live'
         /\ sock[c].sk = "pending"
         /\ \A d \in Conns : IsOpen(sock[d]) => obj[d].fd # fd
         /\ sessions' = [sessions EXCEPT ![fd] = c]
         /\ \E t : /\ Posts(t)
                   /\ \A k \in Elems(t) :
                        \/ k.who = c /\ k.op = "enable"
                        \/ \E d \in live \ live' : k \in Bye(d)
<1>t. OwnerTypes /\ queue \in Seq(Tasks) /\ sessions \in [Fds -> Conns \cup {None}]
      /\ live \in SUBSET Conns /\ None \notin Conns
  BY ServerAssumption DEF Types, OwnerTypes, LoopTypes
<1>1. c \in pending /\ fd \in FreeFds /\ Settle(<<Enable(c, StartTypes(c))>>, {c}, <<>>)
  BY DEF Accept
<1>2. sock[c].sk = "pending" /\ c \notin live
  BY <1>1 DEF LifeInv, FdInv, IsOpen
<1>3. \A d \in Conns : IsOpen(sock[d]) => obj[d].fd # fd
  BY <1>1 DEF FreeFds, Open, IsOpen
<1>4. sessions[fd] = None
  BY <1>3, <1>t DEF LifeInv, FdInv, TableInv
<1>5. sessions' = [sessions EXCEPT ![fd] = c]
  BY <1>4 DEF Accept
<1>6. PICK types : types = StartTypes(c)
  OBVIOUS
<1>7. PICK b, n, e : b = <<Enable(c, types)>> /\ n = {c} /\ e = <<>>
  OBVIOUS
<1>8. types \in SUBSET EventTypes
  BY <1>6 DEF StartTypes, EventTypes
<1>9. b \in Seq(Tasks) /\ Elems(b) = {Enable(c, types)} /\ e \in Seq(Tasks)
  BY <1>7, <1>8, OneTask, TasksAre DEF Watchable
<1>10. n \in SUBSET Conns /\ IsFiniteSet(n)
  BY <1>7, FS_Singleton
<1>11. Settle(b, n, e)
  BY <1>1, <1>6, <1>7
<1>12. /\ live' \in SUBSET Conns /\ IsFiniteSet(live')
       /\ live' \subseteq live \cup n
       /\ \A d \in live \cup n : Referenced(d)' => d \in live'
       /\ \E f \in Seq(Tasks) :
            /\ queue' = queue \o b \o f \o e
            /\ \A k \in Elems(f) : \E d \in (live \cup n) \ live' : k \in Bye(d)
  <2>1. OwnerTypes /\ queue \in Seq(Tasks) /\ b \in Seq(Tasks) /\ e \in Seq(Tasks)
    BY <1>t, <1>9
  <2> QED
    BY ONLY <2>1, <1>10, <1>11, SettleIs
<1>13. PICK f \in Seq(Tasks) :
            /\ queue' = queue \o b \o f \o e
            /\ \A k \in Elems(f) : \E d \in (live \cup n) \ live' : k \in Bye(d)
  BY <1>12
<1>14. Referenced(c)'
  <2>1. sessions'[fd] = c
    BY <1>5, <1>t
  <2> QED
    BY <2>1 DEF Referenced
<1>15. c \in live'
  BY <1>7, <1>12, <1>14
<1>16. queue' = queue \o (b \o f)
  BY <1>t, <1>7, <1>9, <1>13
<1>17. b \o f \in Seq(Tasks) /\ Elems(b \o f) = Elems(b) \cup Elems(f)
  BY <1>9, ElemsConcat
<1>18. \A k \in Elems(b \o f) : \/ k.who = c /\ k.op = "enable"
                                \/ \E d \in live \ live' : k \in Bye(d)
  BY <1>7, <1>9, <1>13, <1>15, <1>17 DEF Enable
<1>19. Posts(b \o f)
  BY <1>16, <1>17 DEF Posts
<1> QED
  BY <1>2, <1>3, <1>5, <1>7, <1>12, <1>15, <1>18, <1>19

LEMMA AcceptLife ==
  ASSUME Types, PhaseInv, LifeInv, NEW c \in Conns, NEW fd \in Fds, Accept(c, fd)
  PROVE  LifeInv'
<1>t. /\ live \in SUBSET Conns /\ sessions \in [Fds -> Conns \cup {None}]
      /\ queue \in Seq(Tasks) /\ None \notin Conns
      /\ obj \in [Conns -> Objs] /\ sock \in [Conns -> Socks]
  BY ServerAssumption DEF Types, OwnerTypes, LoopTypes, DataTypes, KernelTypes
<1>1. /\ live' \subseteq live \cup {c} /\ c \in live' /\ c \notin live
      /\ \A d \in live : Referenced(d)' => d \in live'
      /\ sock[c].sk = "pending"
      /\ \A d \in Conns : IsOpen(sock[d]) => obj[d].fd # fd
      /\ sessions' = [sessions EXCEPT ![fd] = c]
  BY AcceptIs
<1>2. /\ sock' = [sock EXCEPT ![c].sk = "established"]
      /\ obj' = [obj EXCEPT ![c].fd = fd, ![c].types = {"R", "E"}]
      /\ pending' = pending \ {c}
      /\ held' = held /\ heavy' = heavy /\ cur' = cur /\ server' = server
      /\ stopped' = stopped
  BY DEF Accept, Goto, ghosts, app
<1>3. /\ sock'[c].sk = "established" /\ obj'[c].fd = fd
      /\ \A d \in Conns : d # c => sock'[d] = sock[d] /\ obj'[d] = obj[d]
  BY <1>2, <1>t DEF Socks, Objs
<1>4. RefInv'
  <2>1. ASSUME NEW d \in live, d \in held' \/ cur' = d
                                \/ \E i \in DOMAIN heavy' : heavy'[i].who = d
        PROVE  d \in live'
    BY <1>1, <2>1 DEF Referenced
  <2> QED
    BY <1>2, <2>1 DEF LifeInv, RefInv
<1>5. FdInv'
  <2>1. \A d \in live' : IsOpen(sock'[d])
    BY <1>1, <1>3, <1>t DEF LifeInv, FdInv, IsOpen
  <2>2. \A d \in pending' : sock'[d].sk = "pending"
    BY <1>2, <1>3 DEF LifeInv, FdInv, Types, KernelTypes
  <2>3. \A d \in Conns : IsOpen(sock'[d]) => obj'[d].fd \in Fds
    BY <1>3 DEF LifeInv, FdInv
  <2>4. \A d, e \in Conns : IsOpen(sock'[d]) /\ IsOpen(sock'[e])
                              /\ obj'[d].fd = obj'[e].fd => d = e
    BY <1>1, <1>3 DEF LifeInv, FdInv
  <2> QED
    BY <2>1, <2>2, <2>3, <2>4 DEF FdInv
<1>6. TaskInv'
  <2>1. PICK t : /\ Posts(t)
                 /\ \A k \in Elems(t) : \/ k.who = c /\ k.op = "enable"
                                        \/ \E d \in live \ live' : k \in Bye(d)
    BY AcceptIs
  <2>2. Elems(queue') \subseteq Elems(queue) \cup Elems(t)
    BY <1>t, <2>1, QueueIs
  <2>3. ASSUME NEW k \in Elems(queue') PROVE Due(k, sock', live', stopped')
    <3>1. CASE k \in Elems(queue)
      <4>1. Due(k, sock, live, stopped)
        BY <3>1 DEF LifeInv, TaskInv
      <4>2. k.who \in Conns => k.who # c /\ Known(sock'[k.who])
        BY <1>1, <1>3, <4>1 DEF Due, Known
      <4> QED
        BY <1>1, <1>2, <4>1, <4>2 DEF Due
    <3>2. CASE k.who = c /\ k.op = "enable"
      BY <1>3, <3>2 DEF Due, Known
    <3>3. ASSUME NEW d \in live \ live', k \in Bye(d) PROVE Due(k, sock', live', stopped')
      <4>1. k.who = d /\ d # c
        BY <1>1, <3>3 DEF Bye, Plain
      <4>2. Known(sock'[d])
        BY <1>3, <1>t, <4>1 DEF LifeInv, FdInv, IsOpen, Known
      <4> QED
        BY <4>1, <4>2 DEF Due
    <3> QED
      BY <2>1, <2>2, <3>1, <3>2, <3>3
  <2> QED
    BY <2>3 DEF TaskInv
<1>7. TableInv'
  <2>1. ASSUME NEW g \in Fds, sessions'[g] # None
        PROVE  sessions'[g] \in live' /\ obj'[sessions'[g]].fd = g
    <3>1. CASE g = fd
      BY <1>1, <1>3, <1>t, <3>1
    <3>2. CASE g # fd
      <4>1. PICK d \in live : d = sessions[g] /\ d = sessions'[g] /\ obj[d].fd = g
        BY <1>1, <1>t, <2>1, <3>2 DEF LifeInv, TableInv
      <4>2. Referenced(d)'
        BY <4>1 DEF Referenced
      <4> QED
        BY <1>1, <1>3, <1>t, <4>1, <4>2
    <3> QED
      BY <3>1, <3>2
  <2>2. ASSUME server' # "gone", NEW d \in live' \ stopped'
        PROVE  sessions'[obj'[d].fd] = d
    <3>1. CASE d = c
      BY <1>1, <1>3, <1>t, <3>1
    <3>2. CASE d # c
      <4>1. d \in live \ stopped /\ d \in Conns /\ server # "gone"
        BY <1>1, <1>2, <1>t, <2>2, <3>2
      <4>2. PICK g \in Fds : g = obj[d].fd /\ g # fd
        BY <1>1, <4>1 DEF LifeInv, FdInv
      <4>3. sessions[g] = d
        BY <4>1, <4>2 DEF LifeInv, TableInv
      <4> QED
        BY <1>1, <1>3, <1>t, <3>2, <4>1, <4>2, <4>3
    <3> QED
      BY <3>1, <3>2
  <2> QED
    BY <2>1, <2>2 DEF TableInv
<1> QED
  BY <1>4, <1>5, <1>6, <1>7 DEF LifeInv

\* The tasks that a step posts are proper ones.
LEMMA ProperPosts ==
  ASSUME queue \in Seq(Tasks), NEW t, Posts(t) \/ Runs(t),
         \A k \in Elems(t) : Proper(k)
  PROVE  queue' \in Seq(Tasks) /\ \A k \in Elems(queue') : Proper(k)
  BY QueueIs DEF Proper

\* What the application does to lifetimes.
LEMMA UserLives ==
  ASSUME Types, LifeInv, UserStep
  PROVE  /\ live' \in SUBSET Conns /\ IsFiniteSet(live') /\ live' \subseteq live
         /\ \A c \in live : Referenced(c)' => c \in live'
         /\ \A fd \in Fds : sessions'[fd] # sessions[fd] =>
              sessions'[fd] = None /\ server' = "gone"
         /\ sessions' \in [Fds -> Conns \cup {None}]
         /\ server' \in {"owned", "released", "gone"} /\ started' \in BOOLEAN
         /\ server = "gone" => server' = "gone"
<1>t. /\ OwnerTypes /\ queue \in Seq(Tasks) /\ live \in SUBSET Conns
      /\ sessions \in [Fds -> Conns \cup {None}] /\ IsFiniteSet(live)
      /\ server \in {"owned", "released", "gone"} /\ started \in BOOLEAN
  BY DEF Types, LoopTypes, OwnerTypes
<1>0. ASSUME ServerDies PROVE /\ sessions' \in [Fds -> Conns \cup {None}]
                              /\ \A fd \in Fds : sessions'[fd] = None
                              /\ server' = "gone" /\ started' = FALSE
  BY <1>0 DEF ServerDies
<1>1. CASE Release
  BY <1>t, <1>0, <1>1, DyingServer DEF Release
<1>2. ASSUME NEW t \in Callers, CallStep(t)
      PROVE  UNCHANGED <<server, sessions, live>> /\ started' \in BOOLEAN
  BY <1>t, <1>2 DEF CallStep, Start, Stop, SessionStart, Begins, CallSets, CallPosts,
                    CallStores, Calling, Post
<1>3. CASE \E t \in Callers : CallStep(t)
  BY <1>t, <1>2, <1>3
<1>4. CASE RunFragment
  BY <1>t, <1>4, JustSettles DEF RunFragment
<1>5. ASSUME NEW c \in Conns,
             SessionStop(c) \/ \E m \in Messages : PostSend(c, m)
      PROVE  UNCHANGED <<server, started, sessions, live>>
  BY <1>5 DEF SessionStop, PostSend, Post
<1>6. ASSUME NEW c \in Conns, Drop(c)
      PROVE  Settle(<<>>, {}, <<>>) /\ UNCHANGED <<server, started, sessions>>
  BY <1>6 DEF Drop
<1>7. CASE \E c \in Conns : Drop(c)
  BY <1>t, <1>6, <1>7, JustSettles
<1>8. CASE \E c \in Conns :
             SessionStop(c) \/ \E m \in Messages : PostSend(c, m)
  BY <1>t, <1>5, <1>8
<1> QED
  BY <1>1, <1>3, <1>4, <1>7, <1>8 DEF UserStep

\* What it leaves alone, and what it may hold.
LEMMA UserFrame ==
  ASSUME Types, LifeInv, CallInv, UserStep
  PROVE  /\ UNCHANGED <<cur, pc, entry, ready, sock, pending, data, starved>>
         /\ stopped' \in SUBSET Conns /\ stopped \subseteq stopped'
         /\ calls' \in 0..MaxCalls
         /\ obj' \in [Conns -> Objs]
         /\ \A c \in Conns : obj'[c].fd = obj[c].fd
                               /\ obj'[c].send_buf = obj[c].send_buf
                               /\ obj'[c].recv_buf = obj[c].recv_buf
         /\ held' \subseteq live
         /\ heavy' \in Seq([who : Conns])
         /\ \A i \in DOMAIN heavy' : heavy'[i].who \in live
<1>t. /\ obj \in [Conns -> Objs] /\ stopped \in SUBSET Conns /\ calls \in 0..MaxCalls
      /\ MaxCalls \in Nat /\ heavy \in Seq([who : Conns]) /\ live \in SUBSET Conns
      /\ held \subseteq live /\ \A i \in DOMAIN heavy : heavy[i].who \in live
  BY ServerAssumption DEF Types, LoopTypes, OwnerTypes, DataTypes, LifeInv, RefInv
<1>0. ASSUME calls < MaxCalls, calls' = calls + 1 PROVE calls' \in 0..MaxCalls
  BY <1>t, <1>0
<1>1. CASE Release
  BY <1>t, <1>1 DEF Release, kernel, ghosts, app
<1>2. ASSUME NEW t \in Callers, CallStep(t)
      PROVE  /\ calls' \in 0..MaxCalls
             /\ UNCHANGED <<cur, pc, entry, ready, sock, pending, data, starved,
                            stopped, held, heavy>>
  BY <1>t, <1>0, <1>2 DEF CallStep, Start, Stop, SessionStart, Begins, CallSets, CallPosts,
                          CallStores, Calling, io, kernel
<1>3. ASSUME NEW t \in Callers, CallStep(t), ~CallStores(t)
      PROVE  obj' = obj
  BY <1>3 DEF CallStep, Start, Stop, SessionStart, Begins, CallSets, CallPosts
<1>4. CASE RunFragment
  <2>1. heavy # <<>> /\ heavy' = Tail(heavy)
    BY <1>4 DEF RunFragment
  <2>2. heavy' \in Seq([who : Conns]) /\ Elems(heavy') \subseteq Elems(heavy)
        /\ Head(heavy) \in Elems(heavy)
    BY <1>t, <2>1, ElemsTail
  <2>3. \A k \in Elems(heavy) : k.who \in live
    BY <1>t DEF Elems
  <2>4. (\A i \in DOMAIN heavy' : heavy'[i].who \in live) /\ Head(heavy).who \in live
    BY <2>2, <2>3 DEF Elems
  <2>5. held' = held \/ held' = held \cup {Head(heavy).who}
    BY <1>4 DEF RunFragment
  <2> QED
    BY <1>t, <1>4, <2>2, <2>4, <2>5 DEF RunFragment, io, kernel, ghosts, app
<1>5. ASSUME NEW c \in Conns, SessionStop(c)
      PROVE  /\ stopped' = stopped \cup {c} /\ calls' \in 0..MaxCalls
             /\ UNCHANGED <<cur, pc, entry, ready, sock, pending, data, starved, obj,
                            held, heavy>>
  BY <1>t, <1>0, <1>5 DEF SessionStop, io, kernel
<1>6. ASSUME NEW t \in Callers, CallStores(t)
      PROVE  \E c \in Conns, types \in SUBSET EventTypes :
               obj' = [obj EXCEPT ![c].types = types]
  <2>1. PICK k : k = Head(call[t])
    OBVIOUS
  <2>2. /\ call[t] # << >> /\ k.op = "store"
        /\ obj' = [obj EXCEPT ![k.who].types = k.types]
    BY <1>6, <2>1 DEF CallStores, Calling
  <2>3. k.who \in Conns /\ k.types \in SUBSET EventTypes
    BY <2>1, <2>2, CallIs, FitIs
  <2> QED
    BY <2>2, <2>3
<1>7. ASSUME NEW c \in Conns, NEW types \in SUBSET EventTypes,
             obj' = [obj EXCEPT ![c].types = types]
      PROVE  /\ obj' \in [Conns -> Objs]
             /\ \A d \in Conns : obj'[d].fd = obj[d].fd
                                   /\ obj'[d].send_buf = obj[d].send_buf
                                   /\ obj'[d].recv_buf = obj[d].recv_buf
  BY <1>t, <1>7 DEF Objs
<1>8. ASSUME NEW c \in Conns, NEW m \in Messages, PostSend(c, m)
      PROVE  UNCHANGED <<cur, pc, entry, ready, sock, pending, data, starved, obj,
                         stopped, calls, held, heavy>>
  BY <1>8 DEF PostSend, io, kernel, ghosts, app
<1>9. ASSUME NEW c \in Conns, Drop(c)
      PROVE  /\ held' = held \ {c}
             /\ UNCHANGED <<cur, pc, entry, ready, sock, pending, data, starved, obj,
                            stopped, calls, heavy>>
  BY <1>9 DEF Drop, io, kernel, ghosts, app
<1>10. CASE \E c \in Conns : SessionStop(c)
  BY <1>t, <1>5, <1>10
<1>11. CASE \E t \in Callers : CallStep(t)
  BY <1>t, <1>2, <1>3, <1>6, <1>7, <1>11
<1>12. CASE \E c \in Conns, m \in Messages : PostSend(c, m)
  BY <1>t, <1>8, <1>12
<1>13. CASE \E c \in Conns : Drop(c)
  BY <1>t, <1>9, <1>13
<1> QED
  BY <1>1, <1>4, <1>10, <1>11, <1>12, <1>13 DEF UserStep

LEMMA UserLife ==
  ASSUME Types, LifeInv, CallInv, UserStep
  PROVE  LifeInv'
<1>1. queue \in Seq(Tasks) /\ live \in SUBSET Conns
  BY DEF Types, LoopTypes, OwnerTypes
<1>2. \A k \in Elems(queue') : Proper(k)
  BY <1>1, UserPosts, ProperPosts DEF Proper
<1>3. /\ live' \subseteq live /\ \A c \in live : Referenced(c)' => c \in live'
      /\ \A fd \in Fds : sessions'[fd] # sessions[fd] =>
           sessions'[fd] = None /\ server' = "gone"
      /\ server = "gone" => server' = "gone"
  BY UserLives
<1>4. /\ cur' = cur /\ sock' = sock /\ pending' = pending /\ stopped \subseteq stopped'
      /\ \A c \in Conns : obj'[c].fd = obj[c].fd
      /\ held' \subseteq live /\ \A i \in DOMAIN heavy' : heavy'[i].who \in live
  BY UserFrame
<1>5. /\ \A c \in live' : IsOpen(sock'[c])
      /\ \A c \in pending' : sock'[c].sk = "pending"
      /\ cur' \in Conns => cur' \in live
  BY <1>3, <1>4 DEF LifeInv, FdInv, RefInv
<1> QED
  BY <1>2, <1>3, <1>4, <1>5, LifeStep

LEMMA MessagesInOrder ==
  \A a, b, c \in Seq(Messages) : (a \o b) \o c = a \o (b \o c)
<1>1. ASSUME NEW a \in Seq(Messages), NEW b \in Seq(Messages), NEW c \in Seq(Messages)
      PROVE  (a \o b) \o c = a \o (b \o c)
  BY ConcatAssociative
<1> QED
  BY <1>1

\* send(2): the kernel takes a prefix.
LEMMA SendTakes ==
  ASSUME Types, NEW c \in Conns, NEW units \in Seq(Messages)
  PROVE  /\ Accepted(c, units) \in 0..sock[c].room
         /\ Accepted(c, units) \in 0..Len(units)
         /\ Rest(c, units) \in Seq(Messages)
         /\ SubSeq(units, 1, Accepted(c, units)) \in Seq(Messages)
         /\ SubSeq(units, 1, Accepted(c, units)) \o Rest(c, units) = units
<1>1. PICK n, a \in Nat : n = sock[c].room /\ n \in Nat /\ a = Len(units)
  <2>1. sock[c] \in Socks
    BY DEF Types, KernelTypes
  <2> QED
    BY <2>1, ServerAssumption DEF Socks
<1>2. PICK k \in Nat : k = Accepted(c, units) /\ k <= n /\ k <= a
  BY <1>1 DEF Accepted
<1>3. PICK l, r : l = SubSeq(units, 1, k) /\ r = SubSeq(units, k + 1, a)
  OBVIOUS
<1>4. /\ l \in Seq(Messages) /\ r \in Seq(Messages)
      /\ Len(l) = k /\ Len(r) = a - k
  BY <1>1, <1>2, <1>3
<1>5. l \o r = units
  <2>1. PICK w : w = l \o r
    OBVIOUS
  <2>2. w \in Seq(Messages) /\ Len(w) = a
    <3>1. w \in Seq(Messages) /\ Len(w) = Len(l) + Len(r)
      BY <1>4, <2>1
    <3> QED
      BY <1>2, <1>4, <3>1
  <2>3. ASSUME NEW i \in 1..a PROVE w[i] = units[i]
    <3>1. CASE i <= k
      BY <1>1, <1>2, <1>3, <1>4, <2>1, <3>1
    <3>2. CASE i > k
      <4>1. PICK j \in 1..a - k : j = i - k
        BY <1>2, <3>2
      <4>2. w[i] = r[j]
        BY <1>4, <2>1, <3>2, <4>1
      <4>3. r[j] = units[k + j] /\ k + j = i
        BY SMTT(30), <1>1, <1>2, <1>3, <4>1
      <4> QED
        BY <4>2, <4>3
    <3> QED
      BY <1>2, <3>1, <3>2
  <2> QED
    BY <1>1, <2>1, <2>2, <2>3, SeqEqual
<1>6. Rest(c, units) = r /\ SubSeq(units, 1, Accepted(c, units)) = l
  BY <1>1, <1>2, <1>3 DEF Rest
<1>7. Accepted(c, units) \in 0..sock[c].room /\ Accepted(c, units) \in 0..Len(units)
  BY <1>1, <1>2
<1> QED
  BY <1>4, <1>5, <1>6, <1>7

\* The socket after send(2).
LEMMA SendKeeps ==
  ASSUME Types, NEW c \in Conns, NEW units \in Seq(Messages),
         sock' = AfterSend(c, units)
  PROVE  /\ sock' \in [Conns -> Socks]
         /\ \A d \in Conns : sock'[d].sk = sock[d].sk /\ sock'[d].inbox = sock[d].inbox
         /\ \A d \in Conns : sock'[d].err = sock[d].err \/ sock'[d].err = None
<1>1. sock \in [Conns -> Socks] /\ Room \in Nat
  BY ServerAssumption DEF Types, KernelTypes
<1>2. PICK k : k = Accepted(c, units) /\ k \in 0..sock[c].room
  BY SendTakes
<1>3. CASE Sending(c)
  <2>1. sock' = [sock EXCEPT ![c].room = @ - k]
    BY <1>2, <1>3 DEF AfterSend
  <2>2. sock[c].room \in 0..Room
    BY <1>1 DEF Socks
  <2>3. sock[c].room - k \in 0..Room
    BY <1>1, <1>2, <2>2
  <2>4. PICK rec : rec = [sock[c] EXCEPT !.room = @ - k]
    OBVIOUS
  <2>5. rec \in Socks /\ rec.sk = sock[c].sk /\ rec.inbox = sock[c].inbox /\ rec.err = sock[c].err
    BY <1>1, <2>3, <2>4 DEF Socks
  <2>6. sock' = [sock EXCEPT ![c] = rec]
    BY <2>1, <2>4
  <2> QED
    BY <1>1, <2>5, <2>6
<1>4. CASE ~Sending(c)
  <2>1. sock' = [sock EXCEPT ![c].err = None]
    BY <1>4 DEF AfterSend
  <2>2. PICK s \in Socks : s = sock[c]
    BY <1>1
  <2>3. /\ sock'[c] = [s EXCEPT !.err = None]
        /\ \A d \in Conns : d # c => sock'[d] = sock[d]
        /\ sock' = [d \in Conns |-> sock'[d]]
    BY <1>1, <2>1, <2>2
  <2>4. /\ sock'[c] \in Socks /\ sock'[c].err = None
        /\ sock'[c].sk = s.sk /\ sock'[c].inbox = s.inbox
    BY <2>3 DEF Socks
  <2>5. sock' \in [Conns -> Socks]
    BY <1>1, <2>3, <2>4
  <2> QED
    BY <2>2, <2>3, <2>4, <2>5
<1> QED
  BY <1>3, <1>4

LEMMA SendFrame ==
  ASSUME Types, LifeInv, SendTask
  PROVE  /\ sock' \in [Conns -> Socks]
         /\ \A d \in Conns : sock'[d].sk = sock[d].sk /\ sock'[d].inbox = sock[d].inbox
         /\ \A d \in Conns : sock'[d].err = sock[d].err \/ sock'[d].err = None
         /\ obj' \in [Conns -> Objs]
         /\ \A d \in Conns : obj'[d].fd = obj[d].fd
                               /\ obj'[d].recv_buf = obj[d].recv_buf
         /\ data' \in [Conns -> Histories]
         /\ \A d \in Conns : /\ data'[d].frames = data[d].frames
                             /\ data'[d].peer = data[d].peer
                             /\ data'[d].torn = data[d].torn
         /\ (\A d \in Conns : OutputInv(data[d], obj[d])) =>
              \A d \in Conns : OutputInv(data'[d], obj'[d])
<1>t. /\ obj \in [Conns -> Objs] /\ data \in [Conns -> Histories]
      /\ sock \in [Conns -> Socks] /\ LoopTypes
  BY DEF Types, DataTypes, KernelTypes
<1>1. Running("send")
  BY DEF SendTask
<1>2. PICK c \in Conns, m \in Messages : c = Who /\ m = Head(queue).msg
  BY <1>t, <1>1, HeadIs
<1>3. PICK units \in Seq(Messages) : units = Units(m)
  <2>1. <<m, m>> \in Seq(Messages)
    OBVIOUS
  <2> QED
    BY <2>1 DEF Units
<1>4. PICK rest \in Seq(Messages), taken \in Seq(Messages) :
        /\ rest = Rest(c, units) /\ taken = SubSeq(units, 1, Accepted(c, units))
        /\ taken \o rest = units
  BY SendTakes
<1>5. PICK o \in Objs, d \in Histories : o = obj[c] /\ d = data[c]
  BY <1>t
<1>6. PICK buf \in Seq(Messages), got \in Seq(Messages), out \in Seq(Messages) :
        buf = o.send_buf /\ got = d.taken /\ out = d.sent
  BY DEF Objs, Histories
<1>c. /\ buf \o units \in Seq(Messages) /\ got \o units \in Seq(Messages)
      /\ buf \o rest \in Seq(Messages) /\ out \o taken \in Seq(Messages)
      /\ (out \o buf) \o units = out \o (buf \o units)
      /\ (out \o taken) \o rest = out \o (taken \o rest)
  <2>1. /\ buf \in Seq(Messages) /\ got \in Seq(Messages) /\ out \in Seq(Messages)
        /\ units \in Seq(Messages) /\ rest \in Seq(Messages)
        /\ taken \in Seq(Messages)
    BY <1>3, <1>4, <1>6
  <2>2. /\ buf \o units \in Seq(Messages) /\ got \o units \in Seq(Messages)
        /\ buf \o rest \in Seq(Messages) /\ out \o taken \in Seq(Messages)
    BY ONLY <2>1, ConcatProperties
  <2>3. (out \o buf) \o units = out \o (buf \o units)
    BY ONLY <2>1, MessagesInOrder
  <2>4. (out \o taken) \o rest = out \o (taken \o rest)
    BY ONLY <2>1, MessagesInOrder
  <2> QED
    BY <2>2, <2>3, <2>4
<1>7. CASE UNCHANGED <<obj, sock, data>>
  BY <1>t, <1>7
<1>8. CASE /\ obj' = [obj EXCEPT ![c].send_buf = @ \o units]
           /\ data' = [data EXCEPT ![c].taken = @ \o units]
           /\ UNCHANGED sock
  <2>1. PICK sb \in Seq(Messages), tk \in Seq(Messages) :
          sb = buf \o units /\ tk = got \o units
    BY <1>c
  <2>2. /\ obj' = [obj EXCEPT ![c].send_buf = sb]
        /\ data' = [data EXCEPT ![c].taken = tk]
    BY <1>5, <1>6, <1>8, <2>1
  <2>3. /\ obj' \in [Conns -> Objs] /\ data' \in [Conns -> Histories]
        /\ \A e \in Conns : e # c => obj'[e] = obj[e] /\ data'[e] = data[e]
        /\ obj'[c] = [o EXCEPT !.send_buf = sb] /\ data'[c] = [d EXCEPT !.taken = tk]
    BY <1>t, <1>5, <2>2 DEF Objs, Histories
  <2>4. OutputInv(d, o) => OutputInv(data'[c], obj'[c])
    <3>1. (out \o buf) \o units = out \o (buf \o units)
      BY <1>c
    <3>2. /\ data'[c].lost = d.lost /\ data'[c].sent = out /\ data'[c].taken = tk
          /\ obj'[c].send_buf = sb
      BY <1>6, <2>3 DEF Objs, Histories
    <3> QED
      BY <1>6, <2>1, <3>1, <3>2 DEF OutputInv
  <2> QED
    BY <1>t, <1>5, <1>8, <2>3, <2>4 DEF Objs, Histories
<1>9. CASE /\ ~MustQueue(c) /\ sock' = AfterSend(c, units)
           /\ obj' = [obj EXCEPT ![c].send_buf = @ \o rest,
                        ![c].types = IF rest = <<>> THEN @ ELSE @ \cup {"W"}]
           /\ data' = [data EXCEPT ![c].taken = @ \o units,
                                   ![c].sent = Sent(c, units)]
  <2>1. PICK sb \in Seq(Messages), tk \in Seq(Messages), sn \in Seq(Messages) :
          sb = buf \o rest /\ tk = got \o units /\ sn = out \o taken
    BY <1>c
  <2>2. PICK ty \in SUBSET EventTypes :
          ty = IF rest = <<>> THEN o.types ELSE o.types \cup {"W"}
    BY DEF EventTypes, Objs
  <2>3. /\ obj' = [obj EXCEPT ![c].send_buf = sb, ![c].types = ty]
        /\ data' = [data EXCEPT ![c].taken = tk, ![c].sent = sn]
    BY <1>4, <1>5, <1>6, <1>9, <2>1, <2>2 DEF Sent
  <2>4. /\ obj' \in [Conns -> Objs] /\ data' \in [Conns -> Histories]
        /\ \A e \in Conns : e # c => obj'[e] = obj[e] /\ data'[e] = data[e]
        /\ obj'[c] = [o EXCEPT !.send_buf = sb, !.types = ty]
        /\ data'[c] = [d EXCEPT !.taken = tk, !.sent = sn]
    BY <1>t, <1>5, <2>3 DEF Objs, Histories
  <2>5. OutputInv(d, o) => OutputInv(data'[c], obj'[c])
    <3>1. buf = <<>>
      BY <1>5, <1>6, <1>9 DEF MustQueue
    <3>2. sb = rest /\ out \o buf = out
      BY <2>1, <3>1
    <3>3. sn \o rest = out \o (taken \o rest)
      BY <1>c, <2>1
    <3>4. /\ data'[c].lost = d.lost /\ data'[c].sent = sn /\ data'[c].taken = tk
          /\ obj'[c].send_buf = sb
      BY <2>4 DEF Objs, Histories
    <3> QED
      BY <1>4, <1>6, <2>1, <3>2, <3>3, <3>4 DEF OutputInv
  <2> QED
    BY ZenonT(30), <1>t, <1>5, <1>9, <2>4, <2>5, SendKeeps DEF Objs, Histories
<1>10. CASE /\ sock' = AfterSend(c, units)
            /\ data' = [data EXCEPT ![c].taken = @ \o units, ![c].lost = TRUE]
            /\ UNCHANGED obj
  <2>1. PICK tk \in Seq(Messages) : tk = got \o units
    BY <1>c
  <2>2. data' = [data EXCEPT ![c].taken = tk, ![c].lost = TRUE]
    BY <1>5, <1>6, <1>10, <2>1
  <2>3. /\ data' \in [Conns -> Histories]
        /\ \A e \in Conns : e # c => data'[e] = data[e]
        /\ data'[c] = [d EXCEPT !.taken = tk, !.lost = TRUE]
    BY <1>t, <1>5, <2>2 DEF Histories
  <2>4. OutputInv(data'[c], obj'[c])
    BY <2>3 DEF OutputInv, Histories
  <2> QED
    BY <1>t, <1>5, <1>10, <2>3, <2>4, SendKeeps DEF Histories
<1> QED
  BY <1>2, <1>3, <1>4, <1>7, <1>8, <1>9, <1>10 DEF SendTask

\* What the tasks do to lifetimes and connections.
LEMMA TaskLives ==
  ASSUME Types, LifeInv, RunTask
  PROVE  /\ live' \in SUBSET Conns /\ IsFiniteSet(live') /\ live' \subseteq live
         /\ \A c \in live : Referenced(c)' => c \in live'
         /\ \A fd \in Fds : sessions'[fd] # sessions[fd] =>
              sessions'[fd] = None /\ sessions[fd] \in stopped
         /\ sessions' \in [Fds -> Conns \cup {None}]
         /\ UNCHANGED <<server, started, held, heavy, cur, pc, stopped, call, calls, starved>>
<1>t. /\ OwnerTypes /\ LoopTypes /\ live \in SUBSET Conns /\ IsFiniteSet(live)
      /\ sessions \in [Fds -> Conns \cup {None}] /\ None \notin Conns
  BY ServerAssumption DEF Types, OwnerTypes
<1>1. CASE EnableTask
  BY <1>t, <1>1 DEF EnableTask, owners, io, ghosts, app
<1>2. CASE DisableTask
  BY <1>t, <1>2 DEF DisableTask, owners, io, ghosts, app
<1>3. CASE UnregisterTask
  BY <1>t, <1>3 DEF UnregisterTask, owners, io, ghosts, app
<1>4. CASE SendTask
  BY <1>t, <1>4 DEF SendTask, owners, io, app
<1>5. CASE EraseTask
  <2>1. /\ Running("erase")
        /\ UNCHANGED <<server, started, held, heavy, cur, pc, stopped, call, calls, starved>>
    BY <1>5 DEF EraseTask, io, ghosts, app
  <2>2. PICK c \in Conns : c = Who /\ Head(queue) \in Elems(queue)
                             /\ Head(queue).op = "erase"
    BY <1>t, <2>1, HeadIs
  <2>3. CASE sessions' = sessions
    BY <1>t, <1>5, <2>1, <2>3, EraseIs
  <2>4. CASE c \in live /\ sessions' = [sessions EXCEPT ![obj[c].fd] = None]
    <3>1. c \in stopped
      <4>1. Due(Head(queue), sock, live, stopped)
        BY <2>2 DEF LifeInv, TaskInv
      <4> QED
        BY <2>2, <2>4, <4>1 DEF Due, Who
    <3>2. ASSUME NEW fd \in Fds, sessions'[fd] # sessions[fd]
          PROVE  sessions'[fd] = None /\ sessions[fd] \in stopped
      <4>1. fd = obj[c].fd /\ sessions'[fd] = None /\ sessions[fd] # None
        BY <1>t, <2>4, <3>2
      <4>2. PICK d \in live : d = sessions[fd] /\ obj[d].fd = fd
        BY <4>1 DEF LifeInv, TableInv
      <4>3. d = c
        BY <1>t, <2>4, <4>1, <4>2 DEF LifeInv, FdInv
      <4> QED
        BY <3>1, <4>1, <4>2, <4>3
    <3>3. sessions' \in [Fds -> Conns \cup {None}]
      BY <1>t, <2>4
    <3> QED
      BY <1>t, <1>5, <2>1, <3>2, <3>3, EraseIs
  <2>5. \/ sessions' = sessions
        \/ c \in live /\ sessions' = [sessions EXCEPT ![obj[c].fd] = None]
    BY <1>5, <2>2 DEF EraseTask
  <2> QED
    BY <2>3, <2>4, <2>5
<1> QED
  BY <1>1, <1>2, <1>3, <1>4, <1>5 DEF RunTask

LEMMA TaskFrame ==
  ASSUME Types, LifeInv, RunTask
  PROVE  /\ KernelTypes' /\ entry' \in [Watchable -> Entries]
         /\ obj' \in [Conns -> Objs] /\ data' \in [Conns -> Histories]
         /\ \A c \in Conns : /\ obj'[c].fd = obj[c].fd
                             /\ obj'[c].recv_buf = obj[c].recv_buf
                             /\ data'[c].frames = data[c].frames
                             /\ data'[c].peer = data[c].peer
                             /\ data'[c].torn = data[c].torn
                             /\ sock'[c].inbox = sock[c].inbox
                             /\ sock'[c].err = sock[c].err \/ sock'[c].err = None
                             /\ sock'[c].sk = sock[c].sk
                                  \/ (sock'[c].sk = "closed" /\ c \notin live)
         /\ \A c \in pending' : c \in pending /\ sock'[c].sk = sock[c].sk
         /\ ~UnregisterTask => pending' = pending
         /\ (\A c \in Conns : OutputInv(data[c], obj[c])) =>
              \A c \in Conns : OutputInv(data'[c], obj'[c])
<1>t. /\ LoopTypes /\ obj \in [Conns -> Objs] /\ data \in [Conns -> Histories]
      /\ sock \in [Conns -> Socks] /\ entry \in [Watchable -> Entries]
      /\ ready \in SUBSET Watchable /\ pending \in SUBSET Conns
      /\ KernelTypes /\ Listen \notin Conns
  BY ServerAssumption DEF Types, LoopTypes, KernelTypes, DataTypes
<1>0. ASSUME NEW x \in Watchable, Forget(x)
      PROVE  entry' \in [Watchable -> Entries] /\ ready' \in SUBSET Watchable
  BY <1>t, <1>0 DEF Forget, Entries
<1>1. CASE EnableTask
  <2>1. PICK op \in {"enable", "update"} : Running(op)
    BY <1>1 DEF EnableTask
  <2>2. PICK x \in Watchable, types \in SUBSET EventTypes, cb \in BOOLEAN :
          x = Who /\ types = Head(queue).types
            /\ cb = (entry[x].cb \/ Running("enable"))
    BY <1>t, <2>1, HeadIs
  <2>3. /\ entry' = [entry EXCEPT ![x].mask = types, ![x].cb = cb]
        /\ ready' = ready \/ ready' = ready \cup {x}
    BY <1>1, <2>2 DEF EnableTask
  <2>4. entry' \in [Watchable -> Entries] /\ ready' \in SUBSET Watchable
    BY <1>t, <2>3 DEF Entries
  <2> QED
    BY <1>t, <1>1, <2>4 DEF EnableTask, ghosts, app, KernelTypes
<1>2. CASE DisableTask
  <2>1. Who \in Watchable /\ Forget(Who)
    BY <1>t, <1>2, HeadIs DEF DisableTask
  <2> QED
    BY <1>t, <1>0, <1>2, <2>1 DEF DisableTask, ghosts, app, KernelTypes
<1>3. CASE UnregisterTask
  <2>1. PICK x \in Watchable : /\ x = Who /\ Forget(x) /\ Head(queue) \in Elems(queue)
                               /\ Head(queue).op = "unregister"
    BY <1>t, <1>3, HeadIs DEF UnregisterTask
  <2>2. PICK closed : closed = IF x = Listen THEN pending ELSE {x}
    OBVIOUS
  <2>3. /\ sock' = [c \in Conns |-> IF c \in closed THEN [sock[c] EXCEPT !.sk = "closed"]
                                                    ELSE sock[c]]
        /\ pending' = IF x = Listen THEN {} ELSE pending
        /\ UNCHANGED <<obj, data>>
    BY <1>3, <2>1, <2>2 DEF UnregisterTask, ghosts, app
  <2>4. \A c \in closed \cap Conns : c \notin live
    <3>1. CASE x = Listen
      BY <2>2, <3>1 DEF LifeInv, FdInv, IsOpen
    <3>2. CASE x # Listen
      <4>1. Due(Head(queue), sock, live, stopped)
        BY <2>1 DEF LifeInv, TaskInv
      <4> QED
        BY <2>1, <2>2, <3>2, <4>1 DEF Due, Who
    <3> QED
      BY <3>1, <3>2
  <2>5. sock' \in [Conns -> Socks]
    BY ZenonT(30), <1>t, <2>3 DEF Socks, States
  <2>6. \A c \in Conns : /\ sock'[c].inbox = sock[c].inbox /\ sock'[c].err = sock[c].err
                         /\ sock'[c].sk = sock[c].sk
                              \/ (sock'[c].sk = "closed" /\ c \notin live)
    BY <1>t, <2>3, <2>4 DEF Socks
  <2>7. pending' \in SUBSET Conns
        /\ \A c \in pending' : c \in pending /\ sock'[c].sk = sock[c].sk
    <3>1. CASE x = Listen
      BY <2>3, <3>1
    <3>2. CASE x # Listen
      <4>1. Known(sock[x]) /\ x \in Conns
        BY <2>1, <3>2 DEF LifeInv, TaskInv, Due, Who, Watchable
      <4>2. x \notin pending
        BY <4>1 DEF LifeInv, FdInv, Known
      <4> QED
        BY <1>t, <2>2, <2>3, <3>2, <4>2
    <3> QED
      BY <3>1, <3>2
  <2> QED
    BY <1>t, <1>0, <1>3, <2>1, <2>3, <2>5, <2>6, <2>7 DEF KernelTypes
<1>4. CASE EraseTask
  BY <1>t, <1>4 DEF EraseTask, kernel, ghosts, app, KernelTypes
<1>5. CASE SendTask
  <2>1. UNCHANGED <<entry, ready, pending>>
    BY <1>5 DEF SendTask
  <2> QED
    BY <1>t, <1>5, <2>1, SendFrame DEF KernelTypes
<1> QED
  BY <1>1, <1>2, <1>3, <1>4, <1>5 DEF RunTask

LEMMA TaskLife ==
  ASSUME Types, LifeInv, RunTask
  PROVE  LifeInv'
<1>1. queue \in Seq(Tasks) /\ live \in SUBSET Conns
  BY DEF Types, LoopTypes, OwnerTypes
<1>2. \A k \in Elems(queue') : Proper(k)
  <2>1. PICK t : /\ Runs(t)
                 /\ \A k \in Elems(t) : \/ k.who \in live /\ k.op = "update"
                                        \/ \E c \in live \ live' : k \in Bye(c)
    BY TaskPosts
  <2>2. \A k \in Elems(t) : Proper(k)
    BY <2>1 DEF Proper
  <2> QED
    BY <1>1, <2>1, <2>2, ProperPosts
<1>3. /\ live' \subseteq live /\ \A c \in live : Referenced(c)' => c \in live'
      /\ \A fd \in Fds : sessions'[fd] # sessions[fd] =>
           sessions'[fd] = None /\ sessions[fd] \in stopped
      /\ UNCHANGED <<server, held, heavy, cur, stopped>>
  BY TaskLives
<1>4. /\ \A c \in Conns : /\ obj'[c].fd = obj[c].fd
                          /\ sock'[c].sk = sock[c].sk
                               \/ (sock'[c].sk = "closed" /\ c \notin live)
      /\ \A c \in pending' : c \in pending /\ sock'[c].sk = sock[c].sk
  BY TaskFrame
<1>5. /\ \A c \in live' : IsOpen(sock'[c])
      /\ \A c \in pending' : sock'[c].sk = "pending"
  BY <1>1, <1>3, <1>4 DEF LifeInv, FdInv, IsOpen
<1>6. /\ held' \subseteq live /\ (cur' \in Conns => cur' \in live)
      /\ \A i \in DOMAIN heavy' : heavy'[i].who \in live
  BY <1>3 DEF LifeInv, RefInv
<1>7. \A c \in Conns : /\ IsOpen(sock'[c]) => IsOpen(sock[c])
                       /\ Known(sock[c]) => Known(sock'[c])
  BY <1>4 DEF IsOpen, Known
<1> QED
  BY <1>2, <1>3, <1>4, <1>5, <1>6, <1>7, LifeStep
-------------------------------------------------------------------------------
(***************************************************************************)
(* The phases of a session's callback.                                     *)
(***************************************************************************)
\* A step that concerns the connection c.
Others(c) == \A d \in Conns : d # c =>
               obj'[d] = obj[d] /\ sock'[d] = sock[d] /\ data'[d] = data[d]

LEMMA StreamOne ==
  ASSUME StreamInv, NEW c \in Conns, Others(c), InputInv(data'[c], obj'[c], sock'[c]),
         OutputInv(data'[c], obj'[c]), ErrorInv(sock'[c])
  PROVE  StreamInv'
<1>1. ASSUME NEW d \in Conns
      PROVE  /\ InputInv(data'[d], obj'[d], sock'[d])
             /\ OutputInv(data'[d], obj'[d]) /\ ErrorInv(sock'[d])
  <2>1. CASE d = c
    BY <2>1
  <2>2. CASE d # c
    BY <2>2 DEF StreamInv, Others
  <2> QED
    BY <2>1, <2>2
<1> QED
  BY <1>1 DEF StreamInv

\* The session whose callback is in a phase.
LEMMA SessionIs ==
  ASSUME Types, PhaseInv, LifeInv, NEW l \in Phases, At(l)
  PROVE  \E c \in Conns, o \in Objs, s \in Socks, h \in Histories :
           /\ c = cur /\ c \in live /\ IsOpen(s)
           /\ o = obj[c] /\ s = sock[c] /\ h = data[c]
           /\ h.frames \in Input /\ o.recv_buf \in Input /\ s.inbox \in Input
           /\ h.peer \in Nat /\ h.torn \in BOOLEAN
           /\ l = "closed" => ~Lasting(s)
<1>1. LoopTypes /\ obj \in [Conns -> Objs] /\ sock \in [Conns -> Socks]
      /\ data \in [Conns -> Histories] /\ MaxPeer \in Nat
  BY ServerAssumption DEF Types, DataTypes, KernelTypes
<1>2. PICK c \in Conns : c = cur /\ c \in live /\ IsOpen(sock[c])
  BY <1>1, AtIs DEF LifeInv, RefInv, FdInv
<1>3. PICK o \in Objs, s \in Socks, h \in Histories :
        o = obj[c] /\ s = sock[c] /\ h = data[c]
  BY <1>1
<1>4. /\ h.frames \in Input /\ o.recv_buf \in Input /\ s.inbox \in Input
      /\ h.peer \in 0..MaxPeer /\ h.torn \in BOOLEAN
  BY DEF Objs, Socks, Histories, Input
<1>5. ASSUME l = "closed" PROVE ~Lasting(s)
  <2>1. Closing(pc)
    BY <1>1, <1>5 DEF At, LoopTypes, Closing
  <2> QED
    BY <1>2, <1>3, <2>1 DEF PhaseInv, Lasting, IsOpen
<1> QED
  BY <1>1, <1>2, <1>3, <1>4, <1>5

\* What every phase keeps.
Keeps == /\ obj' \in [Conns -> Objs] /\ sock' \in [Conns -> Socks]
         /\ data' \in [Conns -> Histories]
         /\ \A c \in Conns : obj'[c].fd = obj[c].fd /\ sock'[c].sk = sock[c].sk
         /\ StreamInv'

LEMMA ReadKeeps ==
  ASSUME Types, PhaseInv, LifeInv, StreamInv, Read
  PROVE  Keeps
<1>t. /\ obj \in [Conns -> Objs] /\ sock \in [Conns -> Socks]
      /\ data \in [Conns -> Histories] /\ data' = data
  BY DEF Types, DataTypes, KernelTypes, Read, ghosts, app
<1>1. PICK c \in Conns, o \in Objs, s \in Socks, h \in Histories :
           /\ c = cur /\ c \in live /\ IsOpen(s)
           /\ o = obj[c] /\ s = sock[c] /\ h = data[c]
           /\ h.frames \in Input /\ o.recv_buf \in Input /\ s.inbox \in Input
           /\ h.peer \in Nat /\ h.torn \in BOOLEAN
  BY SessionIs DEF Read, Phases
<1>2. PICK f \in Input, b \in Input, q \in Input :
        f = h.frames /\ b = o.recv_buf /\ q = s.inbox
  BY <1>1
<1>3. InputInv(h, o, s) /\ OutputInv(h, o)
  BY <1>1 DEF StreamInv
<1>4. PICK buf \in Input : /\ obj' = [obj EXCEPT ![c].recv_buf = buf]
                           /\ \/ buf = b \o q
                              \/ buf = <<>> /\ ~Lasting(s)
  <2>1. b \o q \in Input /\ <<>> \in Input
    BY InputConcat DEF Input
  <2>2. \/ obj' = [obj EXCEPT ![c].recv_buf = b \o q]
        \/ s.sk # "established" /\ obj' = [obj EXCEPT ![c].recv_buf = <<>>]
    BY <1>1, <1>2 DEF Read
  <2>3. s.sk # "established" => ~Lasting(s)
    BY <1>1 DEF Lasting, IsOpen
  <2> QED
    BY <2>1, <2>2, <2>3
<1>5. /\ obj' \in [Conns -> Objs] /\ obj'[c] = [o EXCEPT !.recv_buf = buf]
      /\ \A d \in Conns : d # c => obj'[d] = obj[d]
  BY <1>t, <1>1, <1>4 DEF Objs, Input
<1>e. <<>> \in Input
  BY DEF Input
<1>6. PICK none \in Input : none = <<>>
  BY <1>e
<1>7. sock' = [sock EXCEPT ![c].inbox = none, ![c].err = None]
  BY <1>1, <1>6 DEF Read
<1>8. /\ sock' \in [Conns -> Socks]
      /\ sock'[c] = [s EXCEPT !.inbox = none, !.err = None]
      /\ \A d \in Conns : d # c => sock'[d] = sock[d]
  BY <1>t, <1>1, <1>7 DEF Socks, Input
<1>9. PICK o2 \in Objs, s2 \in Socks : o2 = obj'[c] /\ s2 = sock'[c]
  BY <1>5, <1>8
<1>10. /\ o2.recv_buf = buf /\ o2.send_buf = o.send_buf /\ o2.fd = o.fd
       /\ s2.inbox = none /\ s2.err = None /\ s2.sk = s.sk
  BY <1>5, <1>8, <1>9 DEF Objs, Socks
<1>11. InputInv(h, o2, s2)
  <2>1. Flow((f \o b) \o q, h.peer, h.torn, Lasting(s)) /\ Lasting(s2) = Lasting(s)
    BY <1>2, <1>3, <1>10 DEF InputInv, Lasting
  <2>2. (f \o b) \o q = f \o (b \o q)
    BY SMTT(30), InputAssoc
  <2>3. f \o buf \in Input /\ (f \o buf) \o none = f \o buf
    BY <1>6, InputConcat
  <2>4. CASE buf = b \o q
    BY <1>2, <1>10, <2>1, <2>2, <2>3, <2>4 DEF InputInv
  <2>5. CASE buf = <<>> /\ ~Lasting(s)
    <3>1. PICK bq \in Input : bq = b \o q
      BY InputConcat
    <3>2. PICK lasting : lasting = Lasting(s)
      OBVIOUS
    <3>3. Flow(f \o bq, h.peer, h.torn, lasting)
      BY <2>1, <2>2, <3>1, <3>2
    <3>4. Flow(f, h.peer, h.torn, FALSE)
      BY <1>1, <3>3, FlowEnds
    <3>5. (f \o buf) \o none = f
      BY <2>3, <2>5, InputConcat
    <3>6. Flow(f, h.peer, h.torn, Lasting(s2))
      BY <2>1, <2>5, <3>4 DEF Flow
    <3> QED
      BY <1>2, <1>10, <3>5, <3>6 DEF InputInv
  <2> QED
    BY <1>4, <2>4, <2>5
<1>12. OutputInv(h, o2) /\ ErrorInv(s2)
  BY <1>3, <1>10 DEF OutputInv, ErrorInv
<1>13. Others(c) /\ data'[c] = h
  BY <1>t, <1>1, <1>5, <1>8 DEF Others
<1>14. StreamInv'
  BY <1>9, <1>11, <1>12, <1>13, StreamOne
<1>15. \A d \in Conns : obj'[d].fd = obj[d].fd /\ sock'[d].sk = sock[d].sk
  BY <1>1, <1>5, <1>8, <1>9, <1>10
<1> QED
  BY <1>t, <1>5, <1>8, <1>14, <1>15 DEF Keeps
\* recv_buf_ is emptied, when the connection does not last.
LEMMA Cleared ==
  ASSUME NEW h \in Histories, NEW o \in Objs, NEW s \in Socks,
         NEW h2 \in Histories, NEW o2 \in Objs, NEW s2 \in Socks,
         InputInv(h, o, s), ~Lasting(s),
         h2.frames = h.frames, h2.peer = h.peer, o2.recv_buf = <<>>,
         s2.inbox = s.inbox, s2.sk = s.sk,
         h2.torn = (h.torn \/ (o.recv_buf # <<>> /\ s.inbox # <<>>))
  PROVE  InputInv(h2, o2, s2)
<1>1. PICK f \in Input, b \in Input, q \in Input, peer \in Nat, torn \in BOOLEAN :
        /\ f = h.frames /\ b = o.recv_buf /\ q = s.inbox
        /\ peer = h.peer /\ torn = h.torn
  <2>1. /\ h.frames \in Input /\ o.recv_buf \in Input /\ s.inbox \in Input
        /\ h.peer \in 0..MaxPeer /\ h.torn \in BOOLEAN
    BY DEF Objs, Socks, Histories, Input
  <2>2. h.peer \in Nat
    BY <2>1
  <2> QED
    BY <2>1, <2>2
<1>2. PICK lasting : lasting = Lasting(s)
  OBVIOUS
<1>3. Flow((f \o b) \o q, peer, torn, lasting)
  BY <1>1, <1>2 DEF InputInv
<1>a. PICK after \in BOOLEAN : after = (torn \/ (b # <<>> /\ q # <<>>))
  OBVIOUS
<1>4. Flow((f \o <<>>) \o q, peer, after, FALSE)
  <2>1. /\ f \in Input /\ b \in Input /\ q \in Input /\ peer \in Nat
        /\ torn \in BOOLEAN /\ after \in BOOLEAN
    BY <1>1, <1>a
  <2> QED
    BY ONLY <1>3, <1>a, <2>1, FlowCleared
<1>5. PICK all : all = (f \o <<>>) \o q
  OBVIOUS
<1>6. Flow(all, peer, h2.torn, Lasting(s2))
  <2>1. ~Lasting(s2)
    BY DEF Lasting
  <2> QED
    BY <1>1, <1>4, <1>5, <1>a, <2>1 DEF Flow
<1> QED
  BY <1>1, <1>5, <1>6 DEF InputInv

LEMMA ClearKeeps ==
  ASSUME Types, StreamInv, NEW c \in Conns, c = cur, ~Lasting(sock[c]), ClearBuffers,
         sock' = sock \/ sock' = [sock EXCEPT ![c].err = None]
  PROVE  Keeps
<1>t. /\ obj \in [Conns -> Objs] /\ sock \in [Conns -> Socks]
      /\ data \in [Conns -> Histories]
  BY DEF Types, DataTypes, KernelTypes
<1>1. PICK o \in Objs, s \in Socks, h \in Histories :
        o = obj[c] /\ s = sock[c] /\ h = data[c]
  BY <1>t
<1>2. PICK lost \in BOOLEAN, torn \in BOOLEAN :
        /\ lost = (h.lost \/ o.send_buf # <<>>)
        /\ torn = (h.torn \/ (o.recv_buf # <<>> /\ s.inbox # <<>>))
  OBVIOUS
<1>3. /\ obj' = [obj EXCEPT ![c].send_buf = <<>>, ![c].recv_buf = <<>>]
      /\ data' = [data EXCEPT ![c].lost = lost, ![c].torn = torn]
  BY <1>1, <1>2 DEF ClearBuffers, Torn
<1>4. <<>> \in Seq(Messages) /\ <<>> \in Seq(1..MaxPeer)
  OBVIOUS
<1>5. /\ obj' \in [Conns -> Objs] /\ \A d \in Conns : d # c => obj'[d] = obj[d]
      /\ obj'[c] = [o EXCEPT !.send_buf = <<>>, !.recv_buf = <<>>]
  BY <1>t, <1>1, <1>3, <1>4 DEF Objs
<1>6. /\ data' \in [Conns -> Histories]
      /\ \A d \in Conns : d # c => data'[d] = data[d]
      /\ data'[c] = [h EXCEPT !.lost = lost, !.torn = torn]
  BY <1>t, <1>1, <1>3 DEF Histories
<1>7. /\ sock' \in [Conns -> Socks] /\ \A d \in Conns : d # c => sock'[d] = sock[d]
      /\ sock'[c].sk = s.sk /\ sock'[c].inbox = s.inbox
      /\ sock'[c].err = s.err \/ sock'[c].err = None
  <2>1. CASE sock' = sock
    BY <1>t, <1>1, <2>1
  <2>2. CASE sock' = [sock EXCEPT ![c].err = None]
    BY <1>t, <1>1, <2>2 DEF Socks
  <2> QED
    BY <2>1, <2>2
<1>8. PICK o2 \in Objs, s2 \in Socks, h2 \in Histories :
        o2 = obj'[c] /\ s2 = sock'[c] /\ h2 = data'[c]
  BY <1>5, <1>6, <1>7
<1>9. /\ o2.send_buf = <<>> /\ o2.recv_buf = <<>> /\ o2.fd = o.fd
      /\ h2.frames = h.frames /\ h2.peer = h.peer /\ h2.taken = h.taken
      /\ h2.sent = h.sent /\ h2.lost = lost /\ h2.torn = torn
  BY <1>5, <1>6, <1>8 DEF Objs, Histories
<1>10. InputInv(h, o, s) /\ OutputInv(h, o) /\ ErrorInv(s)
  BY <1>1 DEF StreamInv
<1>11. InputInv(h2, o2, s2)
  <2>1. /\ ~Lasting(s) /\ s2.inbox = s.inbox /\ s2.sk = s.sk
        /\ h2.torn = (h.torn \/ (o.recv_buf # <<>> /\ s.inbox # <<>>))
    BY <1>1, <1>2, <1>7, <1>8, <1>9
  <2> QED
    BY <1>9, <1>10, <2>1, Cleared
<1>12. OutputInv(h2, o2)
  BY <1>2, <1>9, <1>10 DEF OutputInv
<1>13. ErrorInv(s2)
  BY <1>7, <1>8, <1>10 DEF ErrorInv
<1>14. StreamInv'
  BY <1>5, <1>6, <1>7, <1>8, <1>11, <1>12, <1>13, StreamOne DEF Others
<1>15. \A d \in Conns : obj'[d].fd = obj[d].fd /\ sock'[d].sk = sock[d].sk
  BY <1>1, <1>5, <1>7, <1>8, <1>9
<1> QED
  BY <1>5, <1>6, <1>7, <1>14, <1>15 DEF Keeps

LEMMA ErrorKeeps ==
  ASSUME Types, PhaseInv, LifeInv, StreamInv, Error
  PROVE  Keeps
<1>t. /\ obj \in [Conns -> Objs] /\ sock \in [Conns -> Socks]
      /\ data \in [Conns -> Histories]
  BY DEF Types, DataTypes, KernelTypes
<1>1. PICK c \in Conns, s \in Socks : c = cur /\ s = sock[c] /\ IsOpen(s)
  BY SessionIs DEF Error, Phases
<1>2. sock' = [sock EXCEPT ![c].err = None]
  BY <1>1 DEF Error
<1>3. CASE s.err \in {None, "reset"}
  <2>1. UNCHANGED <<obj, data>>
    BY <1>1, <1>3 DEF Error
  <2>2. /\ sock' \in [Conns -> Socks] /\ \A d \in Conns : d # c => sock'[d] = sock[d]
        /\ sock'[c].sk = s.sk /\ sock'[c].inbox = s.inbox /\ sock'[c].err = None
    BY <1>t, <1>1, <1>2 DEF Socks
  <2>3. InputInv(data'[c], obj'[c], sock'[c]) /\ OutputInv(data'[c], obj'[c])
    BY <1>1, <2>1, <2>2 DEF StreamInv, InputInv, Lasting
  <2>4. Others(c) /\ ErrorInv(sock'[c])
    BY <2>1, <2>2 DEF Others, ErrorInv
  <2>5. StreamInv'
    BY <2>3, <2>4, StreamOne
  <2> QED
    BY <1>t, <1>1, <2>1, <2>2, <2>5 DEF Keeps
<1>4. CASE s.err \notin {None, "reset"}
  <2>1. ClearBuffers
    BY <1>1, <1>4 DEF Error
  <2>2. ~Lasting(sock[c])
    BY <1>1, <1>4 DEF StreamInv, ErrorInv, Lasting
  <2> QED
    BY <1>1, <1>2, <2>1, <2>2, ClearKeeps
<1> QED
  BY <1>3, <1>4

LEMMA ClosedKeeps ==
  ASSUME Types, PhaseInv, LifeInv, StreamInv, Closed
  PROVE  Keeps
<1>1. PICK c \in Conns, s \in Socks : c = cur /\ s = sock[c] /\ ~Lasting(s)
  BY SessionIs DEF Closed, Phases
<1>2. ClearBuffers /\ sock' = sock
  BY DEF Closed, kernel
<1> QED
  BY <1>1, <1>2, ClearKeeps
LEMMA WriteKeeps ==
  ASSUME Types, PhaseInv, LifeInv, StreamInv, Write
  PROVE  Keeps
<1>t. /\ obj \in [Conns -> Objs] /\ sock \in [Conns -> Socks]
      /\ data \in [Conns -> Histories]
  BY DEF Types, DataTypes, KernelTypes
<1>1. PICK c \in Conns, o \in Objs, s \in Socks, h \in Histories :
        c = cur /\ IsOpen(s) /\ o = obj[c] /\ s = sock[c] /\ h = data[c]
  BY SessionIs DEF Write, Phases
<1>2. PICK units \in Seq(Messages), out \in Seq(Messages) :
        units = o.send_buf /\ out = h.sent
  BY DEF Objs, Histories
<1>3. PICK rest \in Seq(Messages), taken \in Seq(Messages) :
        /\ rest = Rest(c, units) /\ taken = SubSeq(units, 1, Accepted(c, units))
        /\ taken \o rest = units
  BY SendTakes
<1>4. InputInv(h, o, s) /\ OutputInv(h, o) /\ ErrorInv(s)
  BY <1>1 DEF StreamInv
<1>5. sock' = AfterSend(c, units)
  BY <1>1, <1>2 DEF Write
<1>6. /\ sock' \in [Conns -> Socks]
      /\ \A d \in Conns : sock'[d].sk = sock[d].sk /\ sock'[d].inbox = sock[d].inbox
      /\ \A d \in Conns : sock'[d].err = sock[d].err \/ sock'[d].err = None
      /\ \A d \in Conns : d # c => sock'[d] = sock[d]
  <2>1. \A d \in Conns : d # c => sock'[d] = sock[d]
    BY <1>t, <1>5 DEF AfterSend
  <2> QED
    BY <1>5, <2>1, SendKeeps
<1>7. PICK s2 \in Socks : s2 = sock'[c]
  BY <1>6
<1>8. s2.sk = s.sk /\ s2.inbox = s.inbox /\ ErrorInv(s2)
  BY <1>1, <1>4, <1>6, <1>7 DEF ErrorInv
<1>9. CASE /\ obj' = [obj EXCEPT ![c].send_buf = rest,
                        ![c].types = IF rest = <<>> THEN o.types \ {"W"} ELSE @]
           /\ data' = [data EXCEPT ![c].sent = Sent(c, units)]
  <2>1. PICK ty \in SUBSET EventTypes :
          ty = IF rest = <<>> THEN o.types \ {"W"} ELSE o.types
    BY DEF Objs
  <2>2. /\ out \o taken \in Seq(Messages)
        /\ (out \o taken) \o rest = out \o (taken \o rest)
    <3>1. out \in Seq(Messages) /\ taken \in Seq(Messages) /\ rest \in Seq(Messages)
      BY <1>2, <1>3
    <3>2. out \o taken \in Seq(Messages)
      BY ONLY <3>1, ConcatProperties
    <3> QED
      BY <3>1, <3>2, MessagesInOrder
  <2>3. PICK sn \in Seq(Messages) : sn = out \o taken
    BY <2>2
  <2>4. /\ obj' = [obj EXCEPT ![c].send_buf = rest, ![c].types = ty]
        /\ data' = [data EXCEPT ![c].sent = sn]
    BY <1>1, <1>2, <1>3, <1>9, <2>1, <2>3 DEF Sent
  <2>5. /\ obj' \in [Conns -> Objs] /\ data' \in [Conns -> Histories]
        /\ \A d \in Conns : d # c => obj'[d] = obj[d] /\ data'[d] = data[d]
        /\ obj'[c] = [o EXCEPT !.send_buf = rest, !.types = ty]
        /\ data'[c] = [h EXCEPT !.sent = sn]
    BY <1>t, <1>1, <1>3, <2>4 DEF Objs, Histories
  <2>6. PICK o2 \in Objs, h2 \in Histories : o2 = obj'[c] /\ h2 = data'[c]
    BY <2>5
  <2>7. /\ o2.fd = o.fd /\ o2.send_buf = rest /\ o2.recv_buf = o.recv_buf
        /\ h2.frames = h.frames /\ h2.peer = h.peer /\ h2.torn = h.torn
        /\ h2.lost = h.lost /\ h2.sent = sn /\ h2.taken = h.taken
    BY <2>5, <2>6 DEF Objs, Histories
  <2>8. InputInv(h2, o2, s2)
    BY <1>4, <1>8, <2>7 DEF InputInv, Lasting
  <2>9. OutputInv(h2, o2)
    BY <1>2, <1>3, <1>4, <2>2, <2>3, <2>7 DEF OutputInv
  <2>10. StreamInv'
    BY <1>6, <1>7, <1>8, <2>5, <2>6, <2>8, <2>9, StreamOne DEF Others
  <2> QED
    BY <1>1, <1>6, <2>5, <2>6, <2>7, <2>10 DEF Keeps
<1>10. CASE UNCHANGED <<obj, data>>
  <2>1. InputInv(h, o, s2)
    BY <1>4, <1>8 DEF InputInv, Lasting
  <2>2. StreamInv'
    BY <1>1, <1>4, <1>6, <1>7, <1>8, <1>10, <2>1, StreamOne DEF Others
  <2> QED
    BY <1>t, <1>6, <1>10, <2>2 DEF Keeps
<1>11. CASE /\ ~Sending(c)
            /\ obj' = [obj EXCEPT ![c].recv_buf = <<>>]
            /\ data' = [data EXCEPT ![c].torn = @ \/ Torn(c)]
  <2>1. PICK torn \in BOOLEAN :
          torn = (h.torn \/ (o.recv_buf # <<>> /\ s.inbox # <<>>))
    OBVIOUS
  <2>2. /\ data' = [data EXCEPT ![c].torn = torn] /\ <<>> \in Seq(1..MaxPeer)
    BY <1>1, <1>11, <2>1 DEF Torn
  <2>3. /\ obj' \in [Conns -> Objs] /\ data' \in [Conns -> Histories]
        /\ \A d \in Conns : d # c => obj'[d] = obj[d] /\ data'[d] = data[d]
        /\ obj'[c] = [o EXCEPT !.recv_buf = <<>>]
        /\ data'[c] = [h EXCEPT !.torn = torn]
    <3>1. /\ obj' \in [Conns -> Objs] /\ \A d \in Conns : d # c => obj'[d] = obj[d]
          /\ obj'[c] = [o EXCEPT !.recv_buf = <<>>]
      BY <1>t, <1>1, <1>11, <2>2 DEF Objs
    <3>2. /\ data' \in [Conns -> Histories]
          /\ \A d \in Conns : d # c => data'[d] = data[d]
          /\ data'[c] = [h EXCEPT !.torn = torn]
      BY <1>t, <1>1, <2>1, <2>2 DEF Histories
    <3> QED
      BY <3>1, <3>2
  <2>4. PICK o2 \in Objs, h2 \in Histories : o2 = obj'[c] /\ h2 = data'[c]
    BY <2>3
  <2>5. /\ o2.fd = o.fd /\ o2.send_buf = o.send_buf /\ o2.recv_buf = <<>>
        /\ h2.frames = h.frames /\ h2.peer = h.peer /\ h2.torn = torn
        /\ h2.lost = h.lost /\ h2.sent = h.sent /\ h2.taken = h.taken
    BY <2>3, <2>4 DEF Objs, Histories
  <2>6. ~Lasting(s)
    BY <1>1, <1>11 DEF Sending, IsOpen, Lasting
  <2>7. InputInv(h2, o2, s2)
    BY <1>4, <1>8, <2>1, <2>5, <2>6, Cleared
  <2>8. OutputInv(h2, o2)
    BY <1>4, <2>5 DEF OutputInv
  <2>9. StreamInv'
    BY <1>6, <1>7, <1>8, <2>3, <2>4, <2>7, <2>8, StreamOne DEF Others
  <2> QED
    BY <1>1, <1>6, <2>3, <2>4, <2>5, <2>9 DEF Keeps
<1> QED
  BY <1>1, <1>2, <1>3, <1>9, <1>10, <1>11 DEF Write

LEMMA SplitKeeps ==
  ASSUME Types, PhaseInv, LifeInv, StreamInv, Split
  PROVE  /\ Keeps
         /\ heavy' \in Seq([who : Conns])
         /\ \A i \in DOMAIN heavy' : heavy'[i].who \in live
<1>t. /\ obj \in [Conns -> Objs] /\ sock \in [Conns -> Socks]
      /\ data \in [Conns -> Histories] /\ heavy \in Seq([who : Conns])
      /\ \A i \in DOMAIN heavy : heavy[i].who \in live
      /\ sock' = sock /\ FrameLen \in Nat \ {0}
  BY ServerAssumption
     DEF Types, DataTypes, KernelTypes, LoopTypes, LifeInv, RefInv, Split, kernel
<1>1. PICK c \in Conns, o \in Objs, s \in Socks, h \in Histories :
           /\ c = cur /\ c \in live /\ IsOpen(s)
           /\ o = obj[c] /\ s = sock[c] /\ h = data[c]
           /\ h.frames \in Input /\ o.recv_buf \in Input /\ s.inbox \in Input
  BY SessionIs DEF Split, Phases
<1>2. PICK f \in Input, b \in Input, q \in Input, l \in Nat :
        f = h.frames /\ b = o.recv_buf /\ q = s.inbox /\ l = Len(b)
  BY <1>1, InputIs
<1>3. PICK n \in Nat : n = Frames(b)
  <2>1. l \div FrameLen \in Nat
    BY <1>t
  <2> QED
    BY <1>2, <2>1 DEF Frames
<1>4. PICK m \in Nat : m = FrameLen * n /\ m <= l
  <2>1. n = l \div FrameLen
    BY <1>2, <1>3 DEF Frames
  <2>2. FrameLen * n \in Nat /\ FrameLen * n <= l
    BY <1>t, <2>1
  <2> QED
    BY <2>2
<1>5. PICK x \in Input, y \in Input :
        /\ x = SubSeq(b, 1, m) /\ y = SubSeq(b, m + 1, l)
        /\ ((f \o x) \o y) \o q = (f \o b) \o q
  <2>1. m \in 0..Len(b)
    BY <1>2, <1>4
  <2>2. /\ SubSeq(b, 1, m) \in Input /\ SubSeq(b, m + 1, Len(b)) \in Input
        /\ ((f \o SubSeq(b, 1, m)) \o SubSeq(b, m + 1, Len(b))) \o q = (f \o b) \o q
    <3>1. f \in Input /\ b \in Input /\ q \in Input
      BY <1>2
    <3> QED
      BY ONLY <2>1, <3>1, FlowSplits
  <2> QED
    BY <1>2, <2>2
<1>6. PICK g \in Input : g = f \o x
  BY InputConcat
<1>7. /\ obj' = [obj EXCEPT ![c].recv_buf = y]
      /\ data' = [data EXCEPT ![c].frames = g]
  BY <1>1, <1>2, <1>3, <1>4, <1>5, <1>6 DEF Split, Unsplit
<1>8. /\ obj' \in [Conns -> Objs] /\ data' \in [Conns -> Histories]
      /\ \A d \in Conns : d # c => obj'[d] = obj[d] /\ data'[d] = data[d]
      /\ obj'[c] = [o EXCEPT !.recv_buf = y] /\ data'[c] = [h EXCEPT !.frames = g]
  BY <1>t, <1>1, <1>5, <1>6, <1>7 DEF Objs, Histories, Input
<1>9. PICK o2 \in Objs, h2 \in Histories : o2 = obj'[c] /\ h2 = data'[c]
  BY <1>8
<1>10. /\ o2.fd = o.fd /\ o2.send_buf = o.send_buf /\ o2.recv_buf = y
       /\ h2.frames = g /\ h2.peer = h.peer /\ h2.torn = h.torn
       /\ h2.lost = h.lost /\ h2.sent = h.sent /\ h2.taken = h.taken
  BY <1>8, <1>9 DEF Objs, Histories
<1>11. InputInv(h, o, s) /\ OutputInv(h, o) /\ ErrorInv(s)
  BY <1>1 DEF StreamInv
<1>12. InputInv(h2, o2, s) /\ OutputInv(h2, o2)
  BY <1>2, <1>5, <1>6, <1>10, <1>11 DEF InputInv, OutputInv
<1>13. StreamInv'
  BY <1>t, <1>1, <1>8, <1>9, <1>11, <1>12, StreamOne DEF Others
<1>14. Keeps
  BY <1>t, <1>1, <1>8, <1>9, <1>10, <1>13 DEF Keeps
<1>15. PICK new : new = [i \in 1..n |-> [who |-> c]]
  OBVIOUS
<1>16. new \in Seq([who : Conns]) /\ Elems(new) \subseteq {[who |-> c]}
  BY <1>15 DEF Elems
<1>17. heavy' = heavy \o new
  BY <1>1, <1>2, <1>3, <1>15 DEF Split
<1>18. /\ heavy' \in Seq([who : Conns])
       /\ Elems(heavy') \subseteq Elems(heavy) \cup {[who |-> c]}
  BY <1>t, <1>16, <1>17, ElemsConcat
<1>19. \A k \in Elems(heavy') : k.who \in live
  BY <1>t, <1>1, <1>18 DEF Elems
<1> QED
  BY <1>14, <1>18, <1>19 DEF Elems
Session == Read \/ Write \/ Error \/ Split \/ Closed

LEMMA SessionKeeps ==
  ASSUME Types, PhaseInv, LifeInv, StreamInv, Session
  PROVE  Keeps
  BY ReadKeeps, WriteKeeps, ErrorKeeps, SplitKeeps, ClosedKeeps DEF Session

LEMMA SessionFrame ==
  ASSUME Types, PhaseInv, LifeInv, StreamInv, Session
  PROVE  /\ UNCHANGED <<server, started, sessions, live, held, entry, ready, pending,
                        call, calls, starved>>
         /\ stopped' \in SUBSET Conns /\ stopped \subseteq stopped'
         /\ heavy' \in Seq([who : Conns])
         /\ \A i \in DOMAIN heavy' : heavy'[i].who \in live
<1>t. /\ LoopTypes /\ stopped \in SUBSET Conns /\ heavy \in Seq([who : Conns])
      /\ \A i \in DOMAIN heavy : heavy[i].who \in live
  BY DEF Types, DataTypes, LoopTypes, LifeInv, RefInv
<1>1. CASE Read
  BY <1>t, <1>1 DEF Read, owners, ghosts, app
<1>2. CASE Write
  BY <1>t, <1>2 DEF Write, Post, app
<1>3. CASE Error
  <2>1. cur \in Conns
    BY <1>t, <1>3, AtIs DEF Error, Phases
  <2> QED
    BY <1>t, <1>3, <2>1 DEF Error, Post, app
<1>4. CASE Split
  <2>1. UNCHANGED <<server, started, sessions, live, held, entry, ready, pending,
                    call, calls, starved, stopped>>
    BY <1>4 DEF Split, owners, kernel, app
  <2> QED
    BY <1>t, <1>4, <2>1, SplitKeeps
<1>5. CASE Closed
  <2>1. cur \in Conns
    BY <1>t, <1>5, AtIs DEF Closed, Phases
  <2> QED
    BY <1>t, <1>5, <2>1 DEF Closed, Post, kernel, app
<1> QED
  BY <1>1, <1>2, <1>3, <1>4, <1>5 DEF Session

\* The callback goes on; it will close the session only if the connection has
\* ended.
LEMMA SessionPhases ==
  ASSUME Types, PhaseInv, LifeInv, StreamInv, Session
  PROVE  cur' = cur /\ pc' \in Seq(Labels) /\ PhaseInv' /\ cur \in Conns
<1>t. LoopTypes
  BY DEF Types
<1>1. PICK l \in Phases : /\ At(l) /\ (Goto(<<>>) \/ Disconnected)
                          /\ Disconnected /\ ~Goto(<<>>) =>
                               sock[cur].sk # "established"
  <2>1. CASE Read
    BY <2>1 DEF Read, Phases, EndOfStream
  <2>2. CASE Write
    BY <2>2 DEF Write, Phases, Sending
  <2>3. CASE Error
    <3>1. PICK c \in Conns : c = cur
      BY <1>t, <2>3, AtIs DEF Error, Phases
    <3>2. sock[c].err # None => sock[c].sk # "established"
      BY DEF StreamInv, ErrorInv
    <3> QED
      BY <2>3, <3>1, <3>2 DEF Error, Phases
  <2>4. CASE Split
    BY <2>4 DEF Split, Phases
  <2>5. CASE Closed
    BY <2>5 DEF Closed, Phases
  <2> QED
    BY <2>1, <2>2, <2>3, <2>4, <2>5 DEF Session
<1>2. l # "leave" /\ cur \in Conns
  BY <1>t, <1>1, AtIs DEF Phases
<1>3. /\ cur' = cur /\ pc' \in Seq(Labels) /\ Shape(cur, pc')
      /\ Closing(pc') => Closing(pc) \/ Disconnected
  BY <1>t, <1>1, <1>2, PhaseEnds
<1>4. Goto(<<>>) /\ Closing(pc') => Closing(pc)
  <2>1. CASE Goto(<<>>)
    <3>1. /\ Tail(pc) \in Seq(Labels) /\ Len(Tail(pc)) = Len(pc) - 1
          /\ \A i \in 1..Len(pc) - 1 : Tail(pc)[i] = pc[i + 1]
      BY <1>t, <1>1, AtIs
    <3>2. pc' = Tail(pc)
      BY <2>1, <3>1 DEF Goto
    <3>3. pc \in Seq(Labels)
      BY <1>t DEF LoopTypes
    <3> QED
      BY <3>1, <3>2, <3>3 DEF Closing
  <2> QED
    BY <2>1
<1>5. Closing(pc') => sock[cur].sk # "established"
  BY <1>1, <1>3, <1>4 DEF PhaseInv
<1>6. sock'[cur].sk = sock[cur].sk
  BY <1>2, SessionKeeps DEF Keeps
<1> QED
  BY <1>2, <1>3, <1>5, <1>6 DEF PhaseInv

LEMMA SessionPosts ==
  ASSUME Types, PhaseInv, LifeInv, StreamInv, Session
  PROVE  \E t : /\ Posts(t)
                /\ \A k \in Elems(t) : /\ k.who \in live /\ k.op # "unregister"
                                       /\ k.op \in {"erase", "disable"} => k.who \in stopped'
<1>1. CASE Read \/ Split
  <2>1. queue' = queue
    BY <1>1 DEF Read, Split
  <2>2. queue \in Seq(Tasks)
    BY DEF Types, LoopTypes
  <2>3. Posts(<<>>)
    BY <2>1, <2>2, Nothing DEF Posts
  <2> QED
    BY <2>3, Nothing
<1>2. CASE Write \/ Error \/ Closed
  <2>1. live' = live /\ server' = server
    BY SessionFrame
  <2>2. ~Leave
    BY <1>2 DEF Leave, Write, Error, Closed, At
  <2>3. PICK t : /\ Posts(t)
                 /\ \A k \in Elems(t) :
                      \/ k.who = Listen /\ server' = "gone" /\ Leave
                      \/ /\ k.who \in live /\ k.op # "unregister"
                         /\ k.op \in {"erase", "disable"} => k.who \in stopped'
                      \/ \E c \in live \ live' : k \in Bye(c)
    BY <1>2, CallbackPosts
  <2> QED
    BY <2>1, <2>2, <2>3
<1> QED
  BY <1>1, <1>2 DEF Session
-------------------------------------------------------------------------------
(***************************************************************************)
(* Every step keeps the types, the phases, the lifetimes and the streams.  *)
(***************************************************************************)
Core == Types /\ PhaseInv /\ LifeInv /\ StreamInv

LEMMA SessionCore ==
  ASSUME Core, Session
  PROVE  Core'
<1>i. Types /\ PhaseInv /\ LifeInv /\ StreamInv
  BY DEF Core
<1>k. Keeps
  BY <1>i, SessionKeeps
<1>f. /\ UNCHANGED <<server, started, sessions, live, held, entry, ready, pending,
                     call, calls, starved>>
      /\ stopped' \in SUBSET Conns /\ stopped \subseteq stopped'
      /\ heavy' \in Seq([who : Conns])
      /\ \A i \in DOMAIN heavy' : heavy'[i].who \in live
  BY <1>i, SessionFrame
<1>p. cur' = cur /\ pc' \in Seq(Labels) /\ PhaseInv' /\ cur \in Conns
  BY <1>i, SessionPhases
<1>q. queue' \in Seq(Tasks) /\ \A k \in Elems(queue') : Proper(k)
  <2>1. PICK t : /\ Posts(t)
                 /\ \A k \in Elems(t) : /\ k.who \in live /\ k.op # "unregister"
                                        /\ k.op \in {"erase", "disable"} => k.who \in stopped'
    BY <1>i, SessionPosts
  <2>2. \A k \in Elems(t) : Proper(k)
    BY <2>1 DEF Proper
  <2>3. queue \in Seq(Tasks)
    BY <1>i DEF Types, LoopTypes
  <2> QED
    BY <2>1, <2>2, <2>3, ProperPosts
<1>1. Types'
  BY <1>i, <1>k, <1>f, <1>p, <1>q
     DEF Types, OwnerTypes, LoopTypes, KernelTypes, DataTypes, Keeps
<1>2. LifeInv'
  <2>1. /\ \A c \in live' : IsOpen(sock'[c])
        /\ \A c \in pending' : sock'[c].sk = "pending"
        /\ \A c \in Conns : /\ IsOpen(sock'[c]) => IsOpen(sock[c])
                            /\ Known(sock[c]) => Known(sock'[c])
                            /\ obj'[c].fd = obj[c].fd
    BY <1>i, <1>k, <1>f
       DEF Keeps, LifeInv, FdInv, IsOpen, Known, Types, OwnerTypes, KernelTypes
  <2>2. held' \subseteq live /\ (cur' \in Conns => cur' \in live)
    BY <1>i, <1>f, <1>p DEF LifeInv, RefInv
  <2> QED
    BY <1>i, <1>f, <1>q, <2>1, <2>2, LifeStep
<1> QED
  BY <1>1, <1>2, <1>k, <1>p DEF Core, Keeps

LEMMA UserCore ==
  ASSUME Core, CallInv, UserStep
  PROVE  Core'
<1>i. Types /\ PhaseInv /\ LifeInv /\ StreamInv
  BY DEF Core
<1>1. LifeInv'
  BY <1>i, UserLife
<1>2. /\ UNCHANGED <<cur, pc, entry, ready, sock, pending, data, starved>>
      /\ stopped' \in SUBSET Conns /\ calls' \in 0..MaxCalls
      /\ obj' \in [Conns -> Objs] /\ held' \subseteq live
      /\ \A c \in Conns : obj'[c].send_buf = obj[c].send_buf
                            /\ obj'[c].recv_buf = obj[c].recv_buf
      /\ heavy' \in Seq([who : Conns])
  BY <1>i, UserFrame
<1>3. /\ live' \in SUBSET Conns /\ IsFiniteSet(live')
      /\ sessions' \in [Fds -> Conns \cup {None}]
      /\ server' \in {"owned", "released", "gone"} /\ started' \in BOOLEAN
  BY <1>i, UserLives
<1>4. queue' \in Seq(Tasks)
  <2>1. queue \in Seq(Tasks)
    BY <1>i DEF Types, LoopTypes
  <2> QED
    BY <1>i, <2>1, UserPosts, QueueIs
<1>5. Types'
  BY <1>i, <1>2, <1>3, <1>4 DEF Types, OwnerTypes, LoopTypes, KernelTypes, DataTypes
<1>6. PhaseInv'
  BY <1>i, <1>2 DEF PhaseInv
<1>7. StreamInv'
  BY <1>i, <1>2 DEF StreamInv, InputInv, OutputInv
<1> QED
  BY <1>1, <1>5, <1>6, <1>7 DEF Core

LEMMA TaskCore ==
  ASSUME Core, RunTask
  PROVE  Core'
<1>i. Types /\ PhaseInv /\ LifeInv /\ StreamInv
  BY DEF Core
<1>1. LifeInv'
  BY <1>i, TaskLife
<1>2. /\ KernelTypes' /\ entry' \in [Watchable -> Entries]
      /\ obj' \in [Conns -> Objs] /\ data' \in [Conns -> Histories]
      /\ \A c \in Conns : /\ obj'[c].recv_buf = obj[c].recv_buf
                          /\ data'[c].frames = data[c].frames
                          /\ data'[c].peer = data[c].peer
                          /\ data'[c].torn = data[c].torn
                          /\ sock'[c].inbox = sock[c].inbox
                          /\ sock'[c].err = sock[c].err \/ sock'[c].err = None
                          /\ sock'[c].sk = sock[c].sk \/ sock'[c].sk = "closed"
      /\ (\A c \in Conns : OutputInv(data[c], obj[c])) =>
           \A c \in Conns : OutputInv(data'[c], obj'[c])
  BY <1>i, TaskFrame
<1>3. /\ live' \in SUBSET Conns /\ IsFiniteSet(live')
      /\ sessions' \in [Fds -> Conns \cup {None}]
      /\ UNCHANGED <<server, started, held, heavy, cur, pc, stopped, call, calls, starved>>
  BY <1>i, TaskLives
<1>4. queue' \in Seq(Tasks) /\ pc = <<>>
  <2>1. queue \in Seq(Tasks)
    BY <1>i DEF Types, LoopTypes
  <2>2. PICK t : Runs(t)
    BY <1>i, TaskPosts
  <2> QED
    BY <2>1, <2>2, QueueIs DEF Runs
<1>5. Types'
  BY <1>i, <1>2, <1>3, <1>4 DEF Types, OwnerTypes, LoopTypes, DataTypes
<1>6. PhaseInv'
  BY <1>i, <1>3, <1>4 DEF PhaseInv, Closing
<1>7. StreamInv'
  <2>1. ASSUME NEW c \in Conns
        PROVE  InputInv(data'[c], obj'[c], sock'[c]) /\ ErrorInv(sock'[c])
    <3>1. InputInv(data[c], obj[c], sock[c]) /\ ErrorInv(sock[c])
      BY <1>i DEF StreamInv
    <3>2. Lasting(sock'[c]) => Lasting(sock[c])
      BY <1>2 DEF Lasting
    <3>3. InputInv(data'[c], obj'[c], sock'[c])
      BY <1>2, <3>1, <3>2 DEF InputInv, Flow
    <3>4. ErrorInv(sock'[c])
      BY <1>2, <3>1 DEF ErrorInv
    <3> QED
      BY <3>3, <3>4
  <2> QED
    BY <1>i, <1>2, <2>1 DEF StreamInv
<1> QED
  BY <1>1, <1>5, <1>6, <1>7 DEF Core
\* The phases that the events select, and then on_split.
LEMMA PhasesOfEvents ==
  ASSUME NEW x \in Conns, NEW s \in Seq({"read", "write", "error"}), NEW p,
         p = s \o <<"split", "leave">>
  PROVE  p \in Seq(Labels) /\ Shape(x, p) /\ ~Closing(p)
<1>n. PICK n \in Nat : n = Len(s)
  OBVIOUS
<1>1. PICK e : e = <<"split", "leave">> /\ n = Len(s)
  BY <1>n
<1>2. e \in Seq(Labels) /\ Len(e) = 2 /\ e[1] = "split" /\ e[2] = "leave"
  BY <1>1 DEF Labels, Phases
<1>3. \A i \in 1..n : s[i] \in {"read", "write", "error"}
  BY <1>1, ElementOfSeq
<1>4. s \in Seq(Labels)
  <2>1. Len(s) \in Nat /\ s \in [1..Len(s) -> {"read", "write", "error"}]
    OBVIOUS
  <2>2. s \in [1..Len(s) -> Labels]
    BY <2>1 DEF Labels, Phases
  <2> QED
    BY <2>1, <2>2
<1>5. /\ p \in Seq(Labels) /\ Len(p) = n + 2
      /\ \A i \in 1..n + 2 : p[i] = IF i <= n THEN s[i] ELSE e[i - n]
  <2>1. /\ s \o e \in Seq(Labels) /\ Len(s \o e) = Len(s) + Len(e)
        /\ \A i \in 1..Len(s) + Len(e) :
             (s \o e)[i] = IF i <= Len(s) THEN s[i] ELSE e[i - Len(s)]
    BY <1>2, <1>4, ConcatProperties
  <2>2. p = s \o e
    BY <1>1
  <2> QED
    BY <1>1, <1>2, <2>1, <2>2
<1>6. p[n + 1] = "split" /\ p[n + 2] = "leave"
  <2>1. n + 1 \in 1..n + 2 /\ ~(n + 1 <= n) /\ (n + 1) - n = 1
    OBVIOUS
  <2>2. n + 2 \in 1..n + 2 /\ ~(n + 2 <= n) /\ (n + 2) - n = 2
    OBVIOUS
  <2> QED
    BY <1>2, <1>5, <2>1, <2>2
<1>7. \A i \in 1..n : p[i] \in {"read", "write", "error"}
  BY <1>3, <1>5
<1>8. \A i \in 1..n + 2 : i \in 1..n \/ i = n + 1 \/ i = n + 2
  OBVIOUS
<1>9. DOMAIN p = 1..n + 2 /\ p # <<>>
  BY <1>5
<1>10. x # None
  BY ServerAssumption
<1> QED
  BY <1>5, <1>6, <1>7, <1>8, <1>9, <1>10 DEF Shape, Closing, Phases

LEMMA CallbackPhases ==
  ASSUME NEW x \in Watchable, Callback(x)
  PROVE  /\ pc' \in Seq(Labels) /\ Shape(x, pc') /\ ~Closing(pc')
         /\ x = Listen => pc' # <<>> /\ Head(pc') = "accept"
<1>1. CASE x = Listen
  <2>1. PICK p : p = <<"accept", "leave">>
    OBVIOUS
  <2>2. /\ p \in Seq(Labels) /\ Len(p) = 2 /\ p[1] = "accept" /\ p[2] = "leave"
        /\ DOMAIN p = {1, 2} /\ p # <<>> /\ Head(p) = "accept"
    BY <2>1 DEF Labels
  <2>3. pc' = p
    BY <1>1, <2>1 DEF Callback
  <2>4. Shape(x, p) /\ ~Closing(p)
    BY <1>1, <2>2 DEF Shape, Closing, Phases, Listen, None
  <2> QED
    BY <2>2, <2>3, <2>4
<1>2. CASE x # Listen
  <2>1. PICK types : types = Level(x, entry[x].mask)
    OBVIOUS
  <2>2. PICK r, w, e : /\ r = IF "R" \in types THEN <<"read">> ELSE <<>>
                       /\ w = IF "W" \in types THEN <<"write">> ELSE <<>>
                       /\ e = IF "E" \in types THEN <<"error">> ELSE <<>>
    OBVIOUS
  <2>3. pc' = r \o w \o e \o <<"split", "leave">>
    BY <1>2, <2>1, <2>2 DEF Callback
  <2>4. PICK L : L = {"read", "write", "error"}
    OBVIOUS
  <2>5. r \in Seq(L) /\ w \in Seq(L) /\ e \in Seq(L)
    <3>1. /\ <<"read">> \in Seq(L) /\ <<"write">> \in Seq(L)
          /\ <<"error">> \in Seq(L) /\ <<>> \in Seq(L)
      BY <2>4
    <3> QED
      BY <2>2, <3>1
  <2>6. (r \o w) \o e \in Seq(L)
    BY ONLY <2>5, ConcatProperties
  <2>7. PICK s \in Seq(L) : s = (r \o w) \o e
    BY <2>6
  <2>8. x \in Conns
    BY <1>2 DEF Watchable
  <2> QED
    BY <1>2, <2>3, <2>4, <2>7, <2>8, PhasesOfEvents
<1> QED
  BY <1>1, <1>2

\* Events are taken, callbacks begin, and the accept loop ends or meets a
\* connection that was given up.
Begin == \/ \E x \in Watchable : Ignored(x) \/ Callback(x)
         \/ AcceptEnds
         \/ \E c \in Conns : AcceptAborted(c)

LEMMA BeginFrame ==
  ASSUME Core, Begin
  PROVE  /\ UNCHANGED <<owners, obj, queue, heavy, entry, call, calls, data, stopped>>
         /\ ready' \in SUBSET Watchable /\ pending' \subseteq pending
         /\ starved' \in BOOLEAN /\ sock' \in [Conns -> Socks]
         /\ \A c \in Conns :
              \/ sock'[c] = sock[c] /\ (c \in pending => c \in pending')
              \/ /\ sock[c].sk = "pending" /\ sock'[c].sk = "closed"
                 /\ c \notin pending' /\ sock'[c].err = sock[c].err
                 /\ sock'[c].inbox = sock[c].inbox
         /\ cur' \in Watchable \cup {None} /\ (cur' \in Conns => cur' \in live)
         /\ pc' \in Seq(Labels) /\ PhaseInv'
<1>t. /\ LoopTypes /\ PhaseInv /\ starved \in BOOLEAN /\ sock \in [Conns -> Socks]
      /\ ready \in SUBSET Watchable /\ pending \in SUBSET Conns
      /\ (cur \in Conns => cur \in live) /\ cur \in Watchable \cup {None}
      /\ pc \in Seq(Labels)
      /\ \A c \in pending : sock[c].sk = "pending"
  BY DEF Core, Types, KernelTypes, DataTypes, LifeInv, RefInv, FdInv, LoopTypes
<1>1. ASSUME NEW x \in Watchable, Ignored(x)
      PROVE  /\ UNCHANGED <<owners, obj, queue, heavy, entry, call, calls, data, stopped>>
             /\ UNCHANGED <<cur, pc, sock, pending, starved>>
             /\ ready' \in SUBSET Watchable
  BY <1>t, <1>1 DEF Ignored, Event, io, ghosts, app
<1>2. CASE \E x \in Watchable : Ignored(x)
  <2>1. PhaseInv'
    BY <1>t, <1>1, <1>2 DEF PhaseInv
  <2> QED
    BY <1>t, <1>1, <1>2, <2>1
<1>3. ASSUME NEW x \in Watchable, Callback(x)
      PROVE  /\ UNCHANGED <<owners, obj, queue, heavy, entry, call, calls, data, stopped>>
             /\ UNCHANGED <<sock, pending>> /\ starved' \in BOOLEAN
             /\ ready' \in SUBSET Watchable /\ cur' = x /\ (x \in Conns => x \in live)
             /\ pc' \in Seq(Labels) /\ Shape(x, pc') /\ ~Closing(pc')
  <2>1. Listen \notin Conns
    BY ServerAssumption
  <2> QED
    BY <1>t, <1>3, <2>1, CallbackPhases DEF Callback, Event, app
<1>4. CASE \E x \in Watchable : Callback(x)
  BY <1>t, <1>3, <1>4 DEF PhaseInv
<1>5. CASE AcceptEnds
  <2>1. At("accept") /\ Goto(<<>>)
    BY <1>5 DEF AcceptEnds
  <2>2. /\ UNCHANGED <<owners, obj, queue, heavy, entry, call, calls, data, stopped>>
        /\ UNCHANGED <<sock, pending, ready>> /\ starved' \in BOOLEAN
    BY <1>5 DEF AcceptEnds, kernel, app
  <2>3. /\ cur' = cur /\ pc' \in Seq(Labels) /\ Shape(cur, pc')
        /\ Closing(pc') => Closing(pc) \/ Disconnected
    BY <1>t, <2>1, PhaseEnds
  <2>4. ~Closing(pc')
    BY <1>t, <2>1, <2>3, AtIs, ServerAssumption DEF Closing, Shape, Phases
  <2> QED
    BY <1>t, <2>2, <2>3, <2>4 DEF PhaseInv
<1>6. ASSUME NEW c \in Conns, AcceptAborted(c)
      PROVE  /\ UNCHANGED <<owners, obj, queue, heavy, entry, call, calls, data, stopped>>
             /\ UNCHANGED <<ready, starved>> /\ pending' = pending \ {c}
             /\ c \in pending /\ sock' = [sock EXCEPT ![c].sk = "closed"]
             /\ cur' = cur /\ pc' \in Seq(Labels) /\ Shape(cur, pc') /\ ~Closing(pc')
  <2>1. At("accept") /\ Goto(<<"accept">>)
    BY <1>6 DEF AcceptAborted, AfterAbort
  <2>2. /\ cur' = cur /\ pc' \in Seq(Labels) /\ Shape(cur, pc')
        /\ Closing(pc') => Closing(pc) \/ Disconnected
    BY <1>t, <2>1, PhaseEnds
  <2>3. ~Closing(pc')
    BY <1>t, <2>1, <2>2, AtIs, ServerAssumption DEF Closing, Shape, Phases
  <2> QED
    BY <1>6, <2>2, <2>3 DEF AcceptAborted, ghosts, app
<1>7. ASSUME NEW c \in Conns, AcceptAborted(c)
      PROVE  /\ sock' \in [Conns -> Socks] /\ sock[c].sk = "pending"
             /\ sock'[c].sk = "closed" /\ sock'[c].err = sock[c].err
             /\ sock'[c].inbox = sock[c].inbox
             /\ \A d \in Conns : d # c => sock'[d] = sock[d]
  <2>1. c \in pending /\ sock' = [sock EXCEPT ![c].sk = "closed"]
    BY <1>6, <1>7
  <2>2. "closed" \in States /\ sock[c].sk = "pending"
    BY <1>t, <2>1 DEF States
  <2> QED
    BY <1>t, <2>1, <2>2 DEF Socks
<1>8. CASE \E c \in Conns : AcceptAborted(c)
  <2>1. PICK c \in Conns : AcceptAborted(c)
    BY <1>8
  <2> QED
    BY <1>t, <1>6, <1>7, <2>1 DEF PhaseInv
<1> QED
  BY <1>2, <1>4, <1>5, <1>8 DEF Begin

LEMMA BeginCore ==
  ASSUME Core, Begin
  PROVE  Core'
<1>i. Types /\ PhaseInv /\ LifeInv /\ StreamInv
  BY DEF Core
<1>1. /\ UNCHANGED <<server, started, sessions, live, held, obj, queue, heavy, entry,
                     call, calls, data, stopped>>
      /\ ready' \in SUBSET Watchable /\ pending' \subseteq pending
      /\ starved' \in BOOLEAN /\ sock' \in [Conns -> Socks]
      /\ \A c \in Conns :
           \/ sock'[c] = sock[c] /\ (c \in pending => c \in pending')
           \/ /\ sock[c].sk = "pending" /\ sock'[c].sk = "closed"
              /\ c \notin pending' /\ sock'[c].err = sock[c].err
              /\ sock'[c].inbox = sock[c].inbox
      /\ cur' \in Watchable \cup {None} /\ (cur' \in Conns => cur' \in live)
      /\ pc' \in Seq(Labels) /\ PhaseInv'
  BY BeginFrame DEF owners
<1>2. Types'
  BY <1>i, <1>1 DEF Types, OwnerTypes, LoopTypes, KernelTypes, DataTypes
<1>3. LifeInv'
  <2>1. /\ \A c \in Conns : /\ IsOpen(sock'[c]) => IsOpen(sock[c])
                            /\ Known(sock[c]) => Known(sock'[c])
                            /\ obj'[c].fd = obj[c].fd
    BY <1>1 DEF IsOpen, Known
  <2>2. \A c \in live' : IsOpen(sock'[c])
    BY <1>i, <1>1 DEF LifeInv, FdInv, IsOpen, Types, OwnerTypes
  <2>3. \A c \in pending' : sock'[c].sk = "pending"
    BY <1>i, <1>1 DEF LifeInv, FdInv, Types, KernelTypes
  <2>4. \A k \in Elems(queue') : Proper(k)
    BY <1>1 DEF Proper
  <2>5. /\ held' \subseteq live /\ \A i \in DOMAIN heavy' : heavy'[i].who \in live
    BY <1>i, <1>1 DEF LifeInv, RefInv
  <2> QED
    BY <1>i, <1>1, <2>1, <2>2, <2>3, <2>4, <2>5, LifeStep
<1>4. StreamInv'
  <2>1. ASSUME NEW c \in Conns
        PROVE  InputInv(data'[c], obj'[c], sock'[c]) /\ ErrorInv(sock'[c])
    <3>1. InputInv(data[c], obj[c], sock[c]) /\ ErrorInv(sock[c])
      BY <1>i DEF StreamInv
    <3>2. CASE sock'[c] = sock[c]
      BY <1>1, <3>1, <3>2
    <3>3. CASE /\ sock'[c].sk = "closed" /\ sock'[c].err = sock[c].err
               /\ sock'[c].inbox = sock[c].inbox
      <4>1. ~Lasting(sock'[c])
        BY <3>3 DEF Lasting
      <4> QED
        BY <1>1, <3>1, <3>3, <4>1 DEF InputInv, Flow, ErrorInv
    <3> QED
      BY <1>1, <3>2, <3>3
  <2> QED
    BY <1>i, <1>1, <2>1 DEF StreamInv
<1> QED
  BY <1>1, <1>2, <1>3, <1>4 DEF Core
LEMMA LeaveCore ==
  ASSUME Core, Leave
  PROVE  Core'
<1>i. Types /\ PhaseInv /\ LifeInv /\ StreamInv
  BY DEF Core
<1>t. /\ OwnerTypes /\ queue \in Seq(Tasks) /\ server \in {"owned", "released", "gone"}
      /\ started \in BOOLEAN /\ sessions \in [Fds -> Conns \cup {None}]
      /\ None \notin Conns
  BY <1>i, ServerAssumption DEF Types, OwnerTypes, LoopTypes
<1>1. /\ cur' = None /\ pc' = <<>>
      /\ UNCHANGED <<held, heavy, obj, entry, ready, sock, pending, call, calls, data, stopped,
                     starved>>
  BY DEF Leave, kernel, ghosts, app
<1>2. /\ live' \in SUBSET Conns /\ IsFiniteSet(live') /\ live' \subseteq live
      /\ \A c \in live : Referenced(c)' => c \in live'
      /\ sessions' \in [Fds -> Conns \cup {None}]
      /\ server' \in {"owned", "released", "gone"} /\ started' \in BOOLEAN
      /\ \A fd \in Fds : sessions'[fd] # sessions[fd] =>
           sessions'[fd] = None /\ server' = "gone"
      /\ server = "gone" => server' = "gone"
  <2>1. CASE ServerDies
    <3>1. /\ sessions' \in [Fds -> Conns \cup {None}]
          /\ \A fd \in Fds : sessions'[fd] = None
          /\ server' = "gone" /\ started' = FALSE
      BY <2>1 DEF ServerDies
    <3> QED
      BY <1>t, <2>1, <3>1, DyingServer
  <2>2. CASE UNCHANGED <<server, started, sessions>> /\ Settle(<<>>, {}, <<>>)
    BY <1>t, <2>2, JustSettles
  <2> QED
    BY <2>1, <2>2 DEF Leave
<1>3. queue' \in Seq(Tasks) /\ \A k \in Elems(queue') : Proper(k)
  <2>1. PICK t : /\ Posts(t)
                 /\ \A k \in Elems(t) :
                      \/ k.who = Listen /\ server' = "gone" /\ Leave
                      \/ /\ k.who \in live /\ k.op # "unregister"
                         /\ k.op \in {"erase", "disable"} => k.who \in stopped'
                      \/ \E c \in live \ live' : k \in Bye(c)
    BY <1>i, CallbackPosts
  <2>2. \A k \in Elems(t) : Proper(k)
    BY <2>1 DEF Proper
  <2> QED
    BY <1>t, <2>1, <2>2, ProperPosts
<1>4. LifeInv'
  <2>1. /\ \A c \in live' : IsOpen(sock'[c])
        /\ \A c \in pending' : sock'[c].sk = "pending"
        /\ held' \subseteq live /\ (cur' \in Conns => cur' \in live)
        /\ \A i \in DOMAIN heavy' : heavy'[i].who \in live
    BY <1>i, <1>t, <1>1, <1>2 DEF LifeInv, FdInv, RefInv
  <2> QED
    BY <1>i, <1>1, <1>2, <1>3, <2>1, LifeStep
<1>5. Types'
  <2>1. pc' \in Seq(Labels)
    BY <1>1
  <2> QED
    BY <1>i, <1>1, <1>2, <1>3, <2>1 DEF Types, OwnerTypes, LoopTypes, KernelTypes, DataTypes
<1>6. PhaseInv'
  BY <1>1 DEF PhaseInv, Shape, Closing
<1>7. StreamInv'
  BY <1>i, <1>1 DEF StreamInv
<1> QED
  BY <1>4, <1>5, <1>6, <1>7 DEF Core

LEMMA AcceptCore ==
  ASSUME Core, NEW c \in Conns, NEW fd \in Fds, Accept(c, fd)
  PROVE  Core'
<1>i. Types /\ PhaseInv /\ LifeInv /\ StreamInv
  BY DEF Core
<1>t. /\ LoopTypes /\ queue \in Seq(Tasks) /\ sessions \in [Fds -> Conns \cup {None}]
      /\ obj \in [Conns -> Objs] /\ sock \in [Conns -> Socks] /\ Listen \notin Conns
  BY <1>i, ServerAssumption
     DEF Types, OwnerTypes, LoopTypes, DataTypes, KernelTypes
<1>1. LifeInv'
  BY <1>i, AcceptLife
<1>2. /\ live' \in SUBSET Conns /\ IsFiniteSet(live') /\ sock[c].sk = "pending"
      /\ sessions' = [sessions EXCEPT ![fd] = c] /\ queue' \in Seq(Tasks)
  BY <1>i, <1>t, AcceptIs, QueueIs
<1>3. /\ sock' = [sock EXCEPT ![c].sk = "established"]
      /\ obj' = [obj EXCEPT ![c].fd = fd, ![c].types = {"R", "E"}]
      /\ pending' = pending \ {c} /\ At("accept") /\ Goto(<<"accept">>)
      /\ UNCHANGED <<held, heavy, server, started, entry, ready, call, calls, data, stopped,
                     starved>>
  BY DEF Accept, ghosts, app
<1>4. /\ sock' \in [Conns -> Socks] /\ obj' \in [Conns -> Objs]
      /\ \A d \in Conns : d # c => sock'[d] = sock[d] /\ obj'[d] = obj[d]
      /\ sock'[c].sk = "established" /\ sock'[c].err = sock[c].err
      /\ sock'[c].inbox = sock[c].inbox
      /\ obj'[c].send_buf = obj[c].send_buf /\ obj'[c].recv_buf = obj[c].recv_buf
  <2>1. "established" \in States /\ {"R", "E"} \in SUBSET EventTypes
    BY DEF States, EventTypes
  <2> QED
    BY ZenonT(30), <1>t, <1>3, <2>1 DEF Socks, Objs
<1>5. /\ cur' = cur /\ pc' \in Seq(Labels) /\ Shape(cur, pc') /\ ~Closing(pc')
  <2>1. /\ cur' = cur /\ pc' \in Seq(Labels) /\ Shape(cur, pc')
        /\ Closing(pc') => Closing(pc) \/ Disconnected
    BY <1>i, <1>t, <1>3, PhaseEnds
  <2>2. cur = Listen
    BY <1>i, <1>t, <1>3, AtIs
  <2> QED
    BY <1>t, <2>1, <2>2 DEF Closing, Shape, Phases
<1>6. Types'
  <2>1. sessions' \in [Fds -> Conns \cup {None}]
    BY <1>t, <1>2
  <2> QED
    BY <1>i, <1>2, <1>3, <1>4, <1>5, <2>1
       DEF Types, OwnerTypes, LoopTypes, KernelTypes, DataTypes
<1>7. PhaseInv'
  BY <1>5 DEF PhaseInv
<1>8. StreamInv'
  <2>1. /\ InputInv(data[c], obj[c], sock[c]) /\ ErrorInv(sock[c])
        /\ OutputInv(data[c], obj[c])
    BY <1>i DEF StreamInv
  <2>2. InputInv(data'[c], obj'[c], sock'[c])
    <3>1. Lasting(sock[c]) /\ Lasting(sock'[c])
      BY <1>2, <1>4 DEF Lasting
    <3> QED
      BY <1>3, <1>4, <2>1, <3>1 DEF InputInv, Flow
  <2>3. OutputInv(data'[c], obj'[c]) /\ ErrorInv(sock'[c])
    BY <1>2, <1>3, <1>4, <2>1 DEF OutputInv, ErrorInv
  <2>4. Others(c)
    BY <1>3, <1>4 DEF Others
  <2> QED
    BY <1>i, <2>2, <2>3, <2>4, StreamOne
<1> QED
  BY <1>1, <1>6, <1>7, <1>8 DEF Core
\* The network, at the connection c.
NetAt(c) == \/ Connect(c) \/ PeerSends(c) \/ PeerCloses(c) \/ Drain(c)
            \/ \E e \in NetErrors : Breaks(c, e)

LEMMA NetFrame ==
  ASSUME Core, NEW c \in Conns, NetAt(c)
  PROVE  /\ Network /\ ready' \in SUBSET Watchable /\ ready \subseteq ready'
         /\ sock' \in [Conns -> Socks] /\ data' \in [Conns -> Histories] /\ Others(c)
         /\ \/ pending' = pending /\ (c \in pending => sock'[c].sk = sock[c].sk)
            \/ /\ pending' = pending \cup {c} /\ sock[c].sk = "none"
               /\ sock'[c].sk = "pending"
               /\ entry[Listen].mask # {} => Listen \in ready'
         /\ IsOpen(sock'[c]) <=> IsOpen(sock[c])
         /\ Known(sock[c]) => Known(sock'[c])
         /\ sock'[c].sk = "established" => sock[c].sk = "established"
         /\ InputInv(data'[c], obj'[c], sock'[c])
         /\ OutputInv(data'[c], obj'[c]) /\ ErrorInv(sock'[c])
<1>t. /\ sock \in [Conns -> Socks] /\ data \in [Conns -> Histories]
      /\ ready \in SUBSET Watchable /\ c \in Watchable /\ Listen \in Watchable
      /\ \A d \in pending : sock[d].sk = "pending"
      /\ obj \in [Conns -> Objs] /\ NetErrors \subseteq {"reset", "timedout"}
  BY ServerAssumption
     DEF Core, Types, KernelTypes, DataTypes, LifeInv, FdInv, Watchable
<1>1. PICK o \in Objs, s \in Socks, h \in Histories :
        /\ o = obj[c] /\ s = sock[c] /\ h = data[c]
        /\ InputInv(h, o, s) /\ OutputInv(h, o) /\ ErrorInv(s)
  BY <1>t DEF Core, StreamInv
<1>n. Network /\ obj' = obj
  BY DEF NetAt, Connect, PeerSends, PeerCloses, Drain, Breaks, Network, app
<1>2. CASE Connect(c)
  <2>1. /\ sock' = [sock EXCEPT ![c].sk = "pending"] /\ data' = data
        /\ pending' = pending \cup {c} /\ s.sk = "none"
        /\ ready' = ready \/ ready' = ready \cup {Listen}
        /\ entry[Listen].mask # {} => Listen \in ready'
    BY <1>1, <1>2 DEF Connect, Signal
  <2>2. "pending" \in States
    BY DEF States
  <2>3. /\ sock' \in [Conns -> Socks] /\ \A d \in Conns : d # c => sock'[d] = sock[d]
        /\ sock'[c].sk = "pending" /\ sock'[c].err = s.err /\ sock'[c].inbox = s.inbox
    BY <1>t, <1>1, <2>1, <2>2 DEF Socks
  <2>4. Lasting(s) /\ Lasting(sock'[c])
    BY <2>1, <2>3 DEF Lasting
  <2>5. InputInv(h, o, sock'[c])
    BY <1>1, <2>3, <2>4 DEF InputInv, Flow
  <2>6. ErrorInv(sock'[c])
    BY <1>1, <2>1, <2>3 DEF ErrorInv
  <2> QED
    BY <1>t, <1>1, <1>n, <2>1, <2>3, <2>5, <2>6 DEF Others, IsOpen, Known
<1>3. CASE PeerSends(c)
  <2>1. PICK peer \in Nat : peer = h.peer /\ peer < MaxPeer
    <3>1. h.peer \in 0..MaxPeer
      BY DEF Histories
    <3>2. h.peer < MaxPeer
      BY <1>1, <1>3 DEF PeerSends
    <3> QED
      BY <3>1, <3>2
  <2>2. PICK n : n = peer + 1 /\ n \in 0..MaxPeer
    BY <2>1, ServerAssumption
  <2>3. data' = [data EXCEPT ![c].peer = n]
    BY <1>1, <1>3, <2>1, <2>2 DEF PeerSends
  <2>4. /\ data' \in [Conns -> Histories]
        /\ \A d \in Conns : d # c => data'[d] = data[d]
        /\ data'[c] = [h EXCEPT !.peer = n]
    BY <1>t, <1>1, <2>2, <2>3 DEF Histories
  <2>5. PICK h2 \in Histories : h2 = data'[c]
    BY <2>4
  <2>6. /\ h2.peer = n /\ h2.frames = h.frames /\ h2.torn = h.torn
        /\ h2.lost = h.lost /\ h2.sent = h.sent /\ h2.taken = h.taken
    BY <2>4, <2>5 DEF Histories
  <2>7. PICK f \in Input, b \in Input, q \in Input, torn \in BOOLEAN :
          f = h.frames /\ b = o.recv_buf /\ q = s.inbox /\ torn = h.torn
    BY DEF Histories, Objs, Socks, Input
  <2>8. PICK fb \in Input : fb = f \o b
    BY <2>7, InputConcat
  <2>9. Flow(fb \o q, peer, torn, TRUE)
    <3>1. Lasting(s)
      BY <1>1, <1>3 DEF PeerSends, Lasting
    <3> QED
      BY <1>1, <2>1, <2>7, <2>8, <3>1 DEF InputInv, Flow
  <2>10. /\ Append(q, peer + 1) \in Input
         /\ Flow(fb \o Append(q, peer + 1), peer + 1, torn, TRUE)
    <3>1. fb \in Input /\ q \in Input /\ peer \in Nat /\ peer < MaxPeer
          /\ torn \in BOOLEAN
      BY <2>1, <2>7, <2>8
    <3> QED
      BY ONLY <2>9, <3>1, FlowGrows
  <2>11. PICK q2 \in Input : q2 = Append(q, n)
    BY <2>2, <2>10
  <2>12. sock' = [sock EXCEPT ![c].inbox = q2]
    BY <1>1, <1>3, <2>5, <2>6, <2>7, <2>11 DEF PeerSends
  <2>13. /\ sock' \in [Conns -> Socks] /\ \A d \in Conns : d # c => sock'[d] = sock[d]
         /\ sock'[c].sk = s.sk /\ sock'[c].err = s.err /\ sock'[c].inbox = q2
    BY <1>t, <1>1, <2>11, <2>12 DEF Socks, Input
  <2>14. InputInv(h2, o, sock'[c])
    <3>1. Lasting(sock'[c])
      BY <1>1, <1>3, <2>13 DEF PeerSends, Lasting
    <3>2. PICK all : all = fb \o q2
      OBVIOUS
    <3>3. Flow(all, n, torn, TRUE)
      BY <2>2, <2>10, <2>11, <3>2
    <3>4. Flow(all, n, torn, Lasting(sock'[c]))
      BY <3>1, <3>3 DEF Flow
    <3> QED
      BY <2>6, <2>7, <2>8, <2>13, <3>2, <3>4 DEF InputInv
  <2>15. OutputInv(h2, o) /\ ErrorInv(sock'[c])
    BY <1>1, <2>6, <2>13 DEF OutputInv, ErrorInv
  <2>16. pending' = pending /\ (ready' = ready \/ ready' = ready \cup {c})
    BY <1>3 DEF PeerSends, Signal
  <2> QED
    BY <1>t, <1>1, <1>n, <2>4, <2>5, <2>13, <2>14, <2>15, <2>16
       DEF Others, IsOpen, Known
<1>4. ASSUME NEW sk \in {"fin", "dead"}, NEW err \in NetErrors \cup {None},
             s.sk \in {"established", "fin"},
             sock' = [sock EXCEPT ![c].sk = sk, ![c].err = err],
             err # None => sk = "dead",
             data' = data, pending' = pending, ready' = ready \/ ready' = ready \cup {c}
      PROVE  /\ ready' \in SUBSET Watchable /\ ready \subseteq ready'
             /\ sock' \in [Conns -> Socks] /\ data' \in [Conns -> Histories] /\ Others(c)
             /\ pending' = pending /\ (c \in pending => sock'[c].sk = sock[c].sk)
             /\ IsOpen(sock'[c]) <=> IsOpen(sock[c])
             /\ Known(sock[c]) => Known(sock'[c])
             /\ sock'[c].sk = "established" => sock[c].sk = "established"
             /\ InputInv(data'[c], obj'[c], sock'[c])
             /\ OutputInv(data'[c], obj'[c]) /\ ErrorInv(sock'[c])
  <2>1. sk \in States
    BY DEF States
  <2>2. /\ sock' \in [Conns -> Socks] /\ \A d \in Conns : d # c => sock'[d] = sock[d]
        /\ sock'[c].sk = sk /\ sock'[c].err = err /\ sock'[c].inbox = s.inbox
    BY <1>t, <1>1, <1>4, <2>1 DEF Socks
  <2>3. ~Lasting(sock'[c])
    BY <2>2 DEF Lasting
  <2>4. InputInv(h, o, sock'[c])
    BY <1>1, <2>2, <2>3 DEF InputInv, Flow
  <2>5. ErrorInv(sock'[c])
    BY <1>4, <2>2 DEF ErrorInv
  <2> QED
    BY <1>t, <1>1, <1>4, <1>n, <2>2, <2>4, <2>5 DEF Others, IsOpen, Known
<1>5. CASE PeerCloses(c)
  <2>1. /\ sock' = [sock EXCEPT ![c].sk = "fin"] /\ s.sk = "established"
        /\ data' = data /\ pending' = pending
        /\ ready' = ready \/ ready' = ready \cup {c}
    BY <1>1, <1>5 DEF PeerCloses, Signal
  <2>2. s.err = None
    BY <1>1, <2>1 DEF ErrorInv
  <2>3. sock' = [sock EXCEPT ![c].sk = "fin", ![c].err = None]
    <3>1. [s EXCEPT !.sk = "fin"] = [s EXCEPT !.sk = "fin", !.err = None]
      BY <2>2 DEF Socks
    <3> QED
      BY <1>t, <1>1, <2>1, <3>1
  <2> QED
    BY <1>n, <1>4, <2>1, <2>3
<1>6. ASSUME NEW e \in NetErrors, Breaks(c, e)
      PROVE  \E err \in NetErrors \cup {None} :
               /\ sock' = [sock EXCEPT ![c].sk = "dead", ![c].err = err]
               /\ s.sk \in {"established", "fin"} /\ data' = data /\ pending' = pending
               /\ ready' = ready \/ ready' = ready \cup {c}
  <2>1. PICK err \in NetErrors \cup {None} : err = IF s.sk = "fin" THEN None ELSE e
    OBVIOUS
  <2> QED
    BY <1>1, <1>6, <2>1 DEF Breaks, Signal
<1>7. CASE \E e \in NetErrors : Breaks(c, e)
  <2>1. PICK err \in NetErrors \cup {None} :
               /\ sock' = [sock EXCEPT ![c].sk = "dead", ![c].err = err]
               /\ s.sk \in {"established", "fin"} /\ data' = data /\ pending' = pending
               /\ ready' = ready \/ ready' = ready \cup {c}
    BY <1>6, <1>7
  <2> QED
    BY <1>n, <1>4, <2>1
<1>8. CASE Drain(c)
  <2>1. /\ sock' = [sock EXCEPT ![c].room = Room] /\ data' = data
        /\ pending' = pending /\ (ready' = ready \/ ready' = ready \cup {c})
    BY <1>8 DEF Drain, Signal
  <2>2. Room \in 0..Room
    BY ServerAssumption
  <2>3. /\ sock' \in [Conns -> Socks] /\ \A d \in Conns : d # c => sock'[d] = sock[d]
        /\ sock'[c].sk = s.sk /\ sock'[c].err = s.err /\ sock'[c].inbox = s.inbox
    BY <1>t, <1>1, <2>1, <2>2 DEF Socks
  <2>4. InputInv(h, o, sock'[c]) /\ ErrorInv(sock'[c])
    BY <1>1, <2>3 DEF InputInv, Lasting, ErrorInv
  <2> QED
    BY <1>t, <1>1, <1>n, <2>1, <2>3, <2>4 DEF Others, IsOpen, Known
<1> QED
  BY <1>2, <1>3, <1>5, <1>7, <1>8 DEF NetAt

LEMMA NetCore ==
  ASSUME Core, NEW c \in Conns, NetAt(c)
  PROVE  Core'
<1>i. Types /\ PhaseInv /\ LifeInv /\ StreamInv
  BY DEF Core
<1>1. /\ ready' \in SUBSET Watchable
      /\ sock' \in [Conns -> Socks] /\ data' \in [Conns -> Histories] /\ Others(c)
      /\ \/ pending' = pending /\ (c \in pending => sock'[c].sk = sock[c].sk)
         \/ /\ pending' = pending \cup {c} /\ sock[c].sk = "none"
            /\ sock'[c].sk = "pending"
      /\ IsOpen(sock'[c]) <=> IsOpen(sock[c])
      /\ Known(sock[c]) => Known(sock'[c])
      /\ sock'[c].sk = "established" => sock[c].sk = "established"
      /\ InputInv(data'[c], obj'[c], sock'[c])
      /\ OutputInv(data'[c], obj'[c]) /\ ErrorInv(sock'[c])
  BY NetFrame
<1>2. UNCHANGED <<server, started, sessions, live, held, obj, queue, heavy, cur, pc,
                  entry, call, calls, stopped, starved>>
  BY NetFrame DEF Network, owners, io, app
<1>t. live \in SUBSET Conns /\ pending \in SUBSET Conns /\ cur \in Watchable \cup {None}
  BY <1>i DEF Types, OwnerTypes, KernelTypes, LoopTypes
<1>3. \A d \in Conns : d # c => sock'[d] = sock[d]
  BY <1>1 DEF Others
<1>4. Types'
  BY <1>i, <1>1, <1>2, <1>t DEF Types, OwnerTypes, LoopTypes, KernelTypes, DataTypes
<1>5. PhaseInv'
  <2>1. Closing(pc) => cur \in Conns
    BY <1>i DEF PhaseInv, Shape, Closing, Phases
  <2> QED
    BY <1>i, <1>1, <1>2, <1>3, <2>1 DEF PhaseInv
<1>6. LifeInv'
  <2>1. \A d \in Conns : /\ IsOpen(sock'[d]) <=> IsOpen(sock[d])
                         /\ Known(sock[d]) => Known(sock'[d])
                         /\ obj'[d].fd = obj[d].fd
    BY <1>1, <1>2, <1>3
  <2>2. \A d \in live' : IsOpen(sock'[d])
    BY <1>i, <1>2, <1>t, <2>1 DEF LifeInv, FdInv
  <2>3. \A d \in pending' : sock'[d].sk = "pending"
    BY <1>i, <1>1, <1>3, <1>t DEF LifeInv, FdInv
  <2>4. \A k \in Elems(queue') : Proper(k)
    BY <1>2 DEF Proper
  <2>5. /\ held' \subseteq live /\ \A i \in DOMAIN heavy' : heavy'[i].who \in live
        /\ (cur' \in Conns => cur' \in live)
    BY <1>i, <1>2 DEF LifeInv, RefInv
  <2> QED
    BY <1>i, <1>2, <2>1, <2>2, <2>3, <2>4, <2>5, LifeStep
<1>7. StreamInv'
  BY <1>i, <1>1, StreamOne
<1> QED
  BY <1>4, <1>5, <1>6, <1>7 DEF Core
LEMMA InitCore ==
  ASSUME Init
  PROVE  Core
<1>c. /\ None \notin Conns /\ MaxCalls \in Nat /\ MaxPeer \in Nat
      /\ Room \in Nat /\ Listen # None
  BY ServerAssumption DEF Listen, None
<1>1. OwnerTypes
  BY FS_EmptySet DEF Init, OwnerTypes
<1>2. LoopTypes
  <2>1. Enable(Listen, {"R", "E"}) \in Tasks
    BY DEF Enable, Tasks, Watchable, EventTypes
  <2>2. queue \in Seq(Tasks)
    BY <2>1 DEF Init
  <2>3. heavy \in Seq([who : Conns]) /\ pc \in Seq(Labels) /\ cur \in Watchable \cup {None}
    BY DEF Init
  <2>4. entry \in [Watchable -> Entries]
    BY DEF Init, Watchable, Entries
  <2> QED
    BY <2>2, <2>3, <2>4 DEF LoopTypes
<1>3. KernelTypes
  <2>1. <<>> \in Seq(1..MaxPeer) /\ Room \in 0..Room /\ "none" \in States
    BY <1>c DEF States
  <2>2. [sk |-> "none", err |-> None, room |-> Room, inbox |-> <<>>] \in Socks
    BY <2>1 DEF Socks
  <2> QED
    BY <2>2 DEF Init, KernelTypes
<1>4. DataTypes
  <2>1. <<>> \in Seq(1..MaxPeer) /\ <<>> \in Seq(Messages) /\ 0 \in 0..MaxPeer
    BY <1>c
  <2>2. [fd |-> None, types |-> {}, send_buf |-> <<>>, recv_buf |-> <<>>] \in Objs
    BY <2>1 DEF Objs
  <2>3. [taken |-> <<>>, sent |-> <<>>, lost |-> FALSE, peer |-> 0, frames |-> <<>>,
         torn |-> FALSE] \in Histories
    BY <2>1 DEF Histories
  <2>4. obj \in [Conns -> Objs] /\ data \in [Conns -> Histories]
    BY <2>2, <2>3 DEF Init
  <2>5. calls \in 0..MaxCalls /\ stopped \in SUBSET Conns /\ starved \in BOOLEAN
    <3>1. calls = 0 /\ stopped = {} /\ starved = FALSE
      BY DEF Init
    <3>2. calls \in 0..MaxCalls
      BY <1>c, <3>1
    <3> QED
      BY <3>1, <3>2
  <2> QED
    BY <2>4, <2>5 DEF DataTypes
<1>5. PhaseInv
  BY DEF Init, PhaseInv, Shape, Closing
<1>6. LifeInv
  <2>1. RefInv
    BY <1>c DEF Init, RefInv
  <2>2. FdInv
    BY DEF Init, FdInv, IsOpen
  <2>3. TaskInv
    <3>1. Elems(queue) = {Enable(Listen, {"R", "E"})}
      BY ElemsFew DEF Init
    <3> QED
      BY <3>1, ServerAssumption DEF TaskInv, Due, Enable
  <2>4. TableInv
    BY DEF Init, TableInv
  <2> QED
    BY <2>1, <2>2, <2>3, <2>4 DEF LifeInv
<1>7. StreamInv
  <2>1. ASSUME NEW c \in Conns
        PROVE  /\ InputInv(data[c], obj[c], sock[c])
               /\ OutputInv(data[c], obj[c]) /\ ErrorInv(sock[c])
    <3>1. PICK none \in Input : none = <<>>
      <4>1. <<>> \in Input
        BY DEF Input
      <4> QED
        BY <4>1
    <3>2. (none \o none) \o none = <<>>
      BY <3>1, InputConcat
    <3>3. Flow(<<>>, 0, FALSE, Lasting(sock[c]))
      BY DEF Flow, Ascending
    <3>4. /\ data[c].frames = none /\ obj[c].recv_buf = none /\ sock[c].inbox = none
          /\ data[c].peer = 0 /\ data[c].torn = FALSE
          /\ data[c].sent = <<>> /\ obj[c].send_buf = <<>> /\ data[c].taken = <<>>
          /\ sock[c].err = None
      BY <3>1 DEF Init
    <3>5. <<>> \o <<>> = <<>>
      BY <3>1, <3>2, InputConcat
    <3> QED
      BY <3>2, <3>3, <3>4, <3>5 DEF InputInv, OutputInv, ErrorInv
  <2> QED
    BY <2>1 DEF StreamInv
<1> QED
  BY <1>1, <1>2, <1>3, <1>4, <1>5, <1>6, <1>7 DEF Core, Types

\* The io thread and the network leave calls alone, and do not undo their grounds.
LEMMA IoFrame ==
  ASSUME Core, [Next]_vars, ~UserStep
  PROVE  /\ call' = call /\ held' = held /\ stopped \subseteq stopped'
         /\ server = "owned" => server' = "owned"
         /\ started' => started
<1>i. Types /\ PhaseInv /\ LifeInv /\ StreamInv
  BY DEF Core
<1>1. CASE RunTask
  BY <1>i, <1>1, TaskLives
<1>2. CASE Begin
  BY <1>2, BeginFrame DEF owners
<1>3. CASE \E c \in Conns, fd \in Fds : Accept(c, fd)
  BY <1>3 DEF Accept, ghosts, app
<1>4. CASE Session
  BY <1>i, <1>4, SessionFrame
<1>5. CASE Leave
  BY <1>5 DEF Leave, ServerDies, ghosts, app
<1>6. CASE \E c \in Conns : NetAt(c)
  BY <1>6, NetFrame DEF Network, owners, app
<1>7. CASE UNCHANGED vars
  BY <1>7 DEF vars, owners, ghosts, app
<1> QED
  BY <1>1, <1>2, <1>3, <1>4, <1>5, <1>6, <1>7
     DEF Next, IoStep, NetStep, Begin, Session, NetAt, Watchable

\* A step that leaves a call as it is keeps its grounds.
LEMMA CallsStay ==
  ASSUME CallInv, call' = call,
         \A t \in Callers : \A k \in Elems(call[t]) : Fit(k) => Fit(k)'
  PROVE  CallInv'
  BY DEF CallInv

LEMMA FitStays ==
  ASSUME Types, LifeInv, NEW k, Fit(k),
         k.who = Listen /\ server = "owned" => server' = "owned",
         k.who \in held \cap stopped => k.who \in held' \cap stopped'
  PROVE  Fit(k)'
<1>1. CASE /\ server = "owned"
           /\ k \in {Plain("set", Listen), Plain("disable", Listen),
                     Enable(Listen, {"R", "E"})}
  <2>1. k.who = Listen
    BY <1>1 DEF Plain, Enable
  <2> QED
    BY <1>1, <2>1 DEF Fit
<1>2. ASSUME NEW c \in held \cap stopped, NEW types \in SUBSET EventTypes,
             k \in {Enable(c, types), Store(c, types)}
      PROVE  Fit(k)'
  <2>1. k.who = c
    BY <1>2 DEF Store, Enable
  <2> QED
    BY <1>2, <2>1 DEF Fit
<1> QED
  BY <1>1, <1>2 DEF Fit

LEMMA CallsKept ==
  ASSUME Core, CallInv, [Next]_vars
  PROVE  CallInv'
<1>i. /\ Types /\ LifeInv /\ call \in [Callers -> Seq(Steps)]
      /\ held \subseteq live /\ live \in SUBSET Conns /\ Listen \notin Conns
      /\ \A t \in Callers : \A k \in Elems(call[t]) : Fit(k) /\ k.who = Head(call[t]).who
  BY ServerAssumption DEF Core, CallInv, LifeInv, RefInv, Types, OwnerTypes
<1>e. ASSUME NEW t \in Callers, NEW k \in Elems(call[t]) PROVE InUse(k.who)
  <2>1. call[t] # << >>
    BY <1>e, ElemsFew
  <2> QED
    BY <1>i, <1>e, <2>1 DEF InUse
<1>0. CASE /\ call' = call /\ held \subseteq held' /\ stopped \subseteq stopped'
           /\ server = "owned" => server' = "owned"
  <2>1. \A k : k.who \in held \cap stopped => k.who \in held' \cap stopped'
    BY <1>0
  <2> QED
    BY <1>i, <1>0, <2>1, FitStays, CallsStay
<1>1. CASE ~UserStep
  BY <1>0, <1>1, IoFrame
<1>2. CASE Release
  <2>1. UNCHANGED <<call, held, stopped>> /\ ~InUse(Listen)
    BY <1>2 DEF Release, ghosts, app
  <2> QED
    BY <1>i, <1>e, <2>1, FitStays, CallsStay
<1>3. CASE RunFragment
  BY <1>0, <1>3 DEF RunFragment, ghosts, app
<1>4. ASSUME NEW c \in Conns, SessionStop(c) \/ \E m \in Messages : PostSend(c, m)
      PROVE  CallInv'
  BY <1>0, <1>4 DEF SessionStop, PostSend, ghosts, app
<1>5. ASSUME NEW c \in Conns, Drop(c) PROVE CallInv'
  <2>1. UNCHANGED <<call, stopped, server>> /\ held' = held \ {c} /\ ~InUse(c)
    BY <1>5 DEF Drop, ghosts, app
  <2> QED
    BY <1>i, <1>e, <2>1, FitStays, CallsStay
<1>6. ASSUME NEW t \in Callers, CallStep(t) PROVE CallInv'
  <2>0. UNCHANGED <<server, held, stopped>>
    BY <1>6 DEF CallStep, Start, Stop, SessionStart, Begins, CallSets, CallPosts, CallStores,
                Calling
  <2>1. \A k : Fit(k) => Fit(k)'
    BY <2>0 DEF Fit
  <2>2. SUFFICES ASSUME NEW s \in Seq(Steps), call' = [call EXCEPT ![t] = s],
                        \A k \in Elems(s) : Fit(k) /\ k.who = Head(s).who
                 PROVE  CallInv'
    <3>1. CASE CallSets(t) \/ CallPosts(t) \/ CallStores(t)
      <4>1. call[t] # << >> /\ call' = [call EXCEPT ![t] = Tail(call[t])]
        BY <3>1 DEF CallSets, CallPosts, CallStores, Calling
      <4> QED
        BY <1>i, <2>2, <4>1, CallIs
    <3>2. CASE Stop(t) \/ (Start(t) /\ ~started)
      <4>1. PICK a, b, d : /\ a = Plain("set", Listen) /\ b = Enable(Listen, {"R", "E"})
                           /\ d = Plain("disable", Listen)
        OBVIOUS
      <4>2. /\ a \in Steps /\ b \in Steps /\ d \in Steps
            /\ a.who = Listen /\ b.who = Listen /\ d.who = Listen
        BY <4>1 DEF Steps, Plain, Enable, Watchable, EventTypes
      <4>3. server = "owned" /\ (call' = [call EXCEPT ![t] = <<d>>]
                                  \/ call' = [call EXCEPT ![t] = <<a, b>>])
        BY <3>2, <4>1 DEF Start, Stop, Begins
      <4>4. Fit(a) /\ Fit(b) /\ Fit(d)
        BY <4>1, <4>3 DEF Fit
      <4>5. /\ <<d>> \in Seq(Steps) /\ Head(<<d>>) = d
            /\ <<a, b>> \in Seq(Steps) /\ Head(<<a, b>>) = a
        BY <4>2
      <4>6. Elems(<<d>>) = {d} /\ Elems(<<a, b>>) = {a, b}
        BY ElemsFew
      <4> QED
        BY <2>2, <4>2, <4>3, <4>4, <4>5, <4>6
    <3>3. CASE Start(t) /\ started
      <4>1. call' = [call EXCEPT ![t] = << >>]
        BY <3>3 DEF Start, Begins
      <4>2. << >> \in Seq(Steps) /\ Elems(<< >>) = {}
        BY ElemsFew
      <4> QED
        BY <2>2, <4>1, <4>2
    <3>4. ASSUME NEW c \in Conns, SessionStart(t, c) PROVE CallInv'
      <4>1. PICK types : types = StartTypes(c)
        OBVIOUS
      <4>2. types \in SUBSET EventTypes
        BY <4>1 DEF StartTypes, EventTypes
      <4>3. PICK a, b : a = Enable(c, types) /\ b = Store(c, types)
        OBVIOUS
      <4>4. a \in Steps /\ b \in Steps /\ a.who = c /\ b.who = c
        BY <4>2, <4>3 DEF Steps, Enable, Store, Watchable
      <4>5. call' = [call EXCEPT ![t] = <<a, b>>] /\ c \in held \cap stopped
        BY <3>4, <4>1, <4>3 DEF SessionStart, Begins
      <4>6. Fit(a) /\ Fit(b)
        BY <4>2, <4>3, <4>5 DEF Fit
      <4>7. <<a, b>> \in Seq(Steps) /\ Head(<<a, b>>) = a /\ Elems(<<a, b>>) = {a, b}
        BY <4>4, ElemsFew
      <4> QED
        BY <2>2, <4>4, <4>5, <4>6, <4>7
    <3> QED
      BY <1>6, <3>1, <3>2, <3>3, <3>4 DEF CallStep
  <2>3. call' \in [Callers -> Seq(Steps)]
    BY <1>i, <2>2
  <2>4. ASSUME NEW u \in Callers
        PROVE  \A k \in Elems(call'[u]) : Fit(k)' /\ k.who = Head(call'[u]).who
    <3>1. CASE u = t
      BY <1>i, <2>1, <2>2, <3>1
    <3>2. CASE u # t
      BY <1>i, <2>1, <2>2, <3>2
    <3> QED
      BY <3>1, <3>2
  <2> QED
    BY <2>3, <2>4 DEF CallInv
<1> QED
  BY <1>1, <1>2, <1>3, <1>4, <1>5, <1>6 DEF UserStep

LEMMA StepCore ==
  ASSUME Core, CallInv, [Next]_vars
  PROVE  Core'
<1>1. CASE UserStep
  BY <1>1, UserCore
<1>2. CASE RunTask
  BY <1>2, TaskCore
<1>3. CASE Begin
  BY <1>3, BeginCore
<1>4. CASE \E c \in Conns, fd \in Fds : Accept(c, fd)
  BY <1>4, AcceptCore
<1>5. CASE Session
  BY <1>5, SessionCore
<1>6. CASE Leave
  BY <1>6, LeaveCore
<1>7. CASE \E c \in Conns : NetAt(c)
  BY <1>7, NetCore
<1>8. CASE UNCHANGED vars
  <2>1. UNCHANGED <<server, started, sessions, live, held, obj, queue, heavy, cur, pc,
                    entry, ready, sock, pending, call, calls, data, stopped, starved>>
    BY <1>8 DEF vars, owners, io, kernel, ghosts, app
  <2>2. Types'
    BY <2>1 DEF Core, Types, OwnerTypes, LoopTypes, KernelTypes, DataTypes
  <2>3. PhaseInv' /\ StreamInv'
    BY <2>1 DEF Core, PhaseInv, StreamInv
  <2>4. LifeInv'
    BY <2>1 DEF Core, LifeInv, RefInv, FdInv, TaskInv, TableInv
  <2> QED
    BY <2>2, <2>3, <2>4 DEF Core
<1> QED
  BY <1>1, <1>2, <1>3, <1>4, <1>5, <1>6, <1>7, <1>8
     DEF Next, IoStep, NetStep, Begin, Session, NetAt, Watchable
-------------------------------------------------------------------------------
(***************************************************************************)
(* The listening socket.                                                   *)
(***************************************************************************)
Clear(q) == \A i \in DOMAIN q : q[i].who # Listen

LEMMA WatchAppend ==
  ASSUME NEW q \in Seq(Tasks), NEW t \in Seq(Tasks), \A k \in Elems(t) : k.who # Listen
  PROVE  (Watching(q) => Watching(q \o t)) /\ (Clear(q) => Clear(q \o t))
<1>1. PICK w \in Seq(Tasks), n \in Nat, m \in Nat :
        /\ w = q \o t /\ n = Len(q) /\ m = Len(t)
        /\ Len(w) = n + m /\ DOMAIN w = 1..n + m /\ DOMAIN q = 1..n
        /\ \A i \in 1..n + m : w[i] = IF i <= n THEN q[i] ELSE t[i - n]
  <2>1. /\ q \o t \in Seq(Tasks) /\ Len(q \o t) = Len(q) + Len(t)
        /\ \A i \in 1..Len(q) + Len(t) :
             (q \o t)[i] = IF i <= Len(q) THEN q[i] ELSE t[i - Len(q)]
    BY ConcatProperties
  <2>n. Len(q) \in Nat /\ Len(t) \in Nat /\ DOMAIN q = 1..Len(q)
    OBVIOUS
  <2>2. PICK w \in Seq(Tasks), n \in Nat, m \in Nat :
          w = q \o t /\ n = Len(q) /\ m = Len(t)
    BY <2>1, <2>n
  <2>3. DOMAIN w = 1..Len(w)
    BY <2>2
  <2> QED
    BY <2>1, <2>n, <2>2, <2>3
<1>2. ASSUME NEW i \in 1..n + m, i > n PROVE w[i].who # Listen
  <2>1. PICK j \in 1..m : j = i - n
    <3>1. i - n \in 1..m
      BY <1>2
    <3> QED
      BY <3>1
  <2>2. w[i] = t[j] /\ j \in DOMAIN t
    BY <1>1, <1>2, <2>1
  <2> QED
    BY <2>2 DEF Elems
<1>3. \A i \in 1..n : i \in 1..n + m /\ w[i] = q[i]
  BY <1>1
<1>4. ASSUME Watching(q) PROVE Watching(w)
  <2>1. PICK i \in 1..n : /\ q[i] = Enable(Listen, {"R", "E"})
                          /\ \A j \in 1..n : j > i => q[j].who # Listen
    BY <1>1, <1>4 DEF Watching
  <2>2. \A j \in 1..n + m : j > i => w[j].who # Listen
    BY <1>2, <1>3, <2>1
  <2> QED
    BY <1>1, <1>3, <2>1, <2>2 DEF Watching
<1>5. ASSUME Clear(q) PROVE Clear(w)
  BY <1>1, <1>2, <1>3, <1>5 DEF Clear
<1> QED
  BY <1>1, <1>4, <1>5

LEMMA WatchTail ==
  ASSUME NEW q \in Seq(Tasks), q # <<>>
  PROVE  /\ Watching(q) => \/ Watching(Tail(q))
                           \/ Head(q) = Enable(Listen, {"R", "E"}) /\ Clear(Tail(q))
         /\ Clear(q) => Clear(Tail(q)) /\ Head(q).who # Listen
<1>1. PICK r \in Seq(Tasks), n \in Nat :
        /\ r = Tail(q) /\ n = Len(r) /\ Len(q) = n + 1
        /\ DOMAIN r = 1..n /\ DOMAIN q = 1..n + 1
        /\ (\A i \in 1..n : r[i] = q[i + 1]) /\ Head(q) = q[1]
  <2>1. /\ Tail(q) \in Seq(Tasks) /\ Len(Tail(q)) = Len(q) - 1 /\ Len(q) \in Nat
        /\ \A i \in 1..Len(Tail(q)) : Tail(q)[i] = q[i + 1]
        /\ Head(q) = q[1] /\ DOMAIN q = 1..Len(q)
    OBVIOUS
  <2>2. PICK r \in Seq(Tasks) : r = Tail(q)
    BY <2>1
  <2>3. PICK n \in Nat : n = Len(r) /\ DOMAIN r = 1..n
    BY <2>2
  <2>4. Len(q) = n + 1
    BY <2>1, <2>2, <2>3
  <2> QED
    BY <2>1, <2>2, <2>3, <2>4
<1>2. \A i \in 1..n : i + 1 \in 1..n + 1
  OBVIOUS
<1>3. ASSUME Watching(q)
      PROVE  Watching(r) \/ (Head(q) = Enable(Listen, {"R", "E"}) /\ Clear(r))
  <2>1. PICK i \in 1..n + 1 : /\ q[i] = Enable(Listen, {"R", "E"})
                              /\ \A j \in 1..n + 1 : j > i => q[j].who # Listen
    BY <1>1, <1>3 DEF Watching
  <2>2. CASE i = 1
    <3>1. \A j \in 1..n : r[j].who # Listen
      BY <1>1, <1>2, <2>1, <2>2
    <3> QED
      BY <1>1, <2>1, <2>2, <3>1 DEF Clear
  <2>3. CASE i # 1
    <3>1. PICK k \in 1..n : i = k + 1
      <4>1. i - 1 \in 1..n /\ i = (i - 1) + 1
        BY <2>3
      <4> QED
        BY <4>1
    <3>2. r[k] = Enable(Listen, {"R", "E"})
      BY <1>1, <2>1, <3>1
    <3>3. \A j \in 1..n : j > k => r[j].who # Listen
      BY <1>1, <1>2, <2>1, <3>1
    <3> QED
      BY <1>1, <3>2, <3>3 DEF Watching
  <2> QED
    BY <2>2, <2>3
<1>4. ASSUME Clear(q) PROVE Clear(r) /\ Head(q).who # Listen
  <2>1. 1 \in 1..n + 1
    OBVIOUS
  <2> QED
    BY <1>1, <1>2, <1>4, <2>1 DEF Clear
<1> QED
  BY <1>1, <1>3, <1>4

\* The backlog is empty, or somebody is going to look at it.
Heeded == pending # {} => Listen \in ready \/ starved \/ At("accept")
OnWatch == entry[Listen] = [cb |-> TRUE, mask |-> {"R", "E"}]

\* A step that posts nothing about the listening socket.
LEMMA ListenKept ==
  ASSUME ListenInv, queue \in Seq(Tasks), NEW t, Posts(t),
         \A k \in Elems(t) : k.who # Listen,
         server' # "gone" => server # "gone", started' => started,
         InUse(Listen) => InUse(Listen)',
         entry' = entry, server # "gone" /\ OnWatch /\ Heeded => Heeded'
  PROVE  ListenInv'
<1>1. t \in Seq(Tasks) /\ queue' = queue \o t
  BY DEF Posts
<1>2. CASE Watching(queue)
  BY <1>1, <1>2, WatchAppend DEF ListenInv
<1>3. CASE server # "gone" /\ Clear(queue) /\ OnWatch /\ Heeded
  <2>1. Clear(queue')
    BY <1>1, <1>3, WatchAppend
  <2> QED
    BY <1>3, <2>1 DEF ListenInv, Clear, OnWatch, Heeded
<1>4. CASE server = "gone" \/ ~started \/ InUse(Listen)
  BY <1>4 DEF ListenInv
<1> QED
  BY <1>2, <1>3, <1>4 DEF ListenInv, Clear, OnWatch, Heeded

\* The only caller, inside start() or stop() of the server.
CallerInv(t) ==
  call[t] # << >> /\ Head(call[t]).who = Listen =>
    \/ call[t] = <<Plain("set", Listen), Enable(Listen, {"R", "E"})>>
    \/ call[t] = <<Enable(Listen, {"R", "E"})>>
    \/ call[t] = <<Plain("disable", Listen)>> /\ ~started

LEMMA CallerKept ==
  ASSUME NEW t \in Callers, Callers = {t}, Core, CallInv, CallerInv(t), [Next]_vars
  PROVE  CallerInv(t)'
<1>i. Types /\ LifeInv /\ call \in [Callers -> Seq(Steps)]
  BY DEF Core, CallInv
<1>1. CASE call' = call /\ (started' => started)
  BY <1>1 DEF CallerInv
<1>2. CASE Stop(t) \/ Start(t)
  <2>1. call'[t] \in {<< >>, <<Plain("disable", Listen)>>,
                      <<Plain("set", Listen), Enable(Listen, {"R", "E"})>>}
    BY <1>i, <1>2 DEF Stop, Start, Begins
  <2>2. call'[t] = <<Plain("disable", Listen)>> => ~started'
    <3>1. CASE Stop(t)
      BY <3>1 DEF Stop
    <3>2. CASE Start(t)
      <4>1. call'[t] = << >> \/ Head(call'[t]) = Plain("set", Listen)
        BY <1>i, <3>2 DEF Start, Begins
      <4>2. Head(<<Plain("disable", Listen)>>) = Plain("disable", Listen)
            /\ << >> # <<Plain("disable", Listen)>>
        OBVIOUS
      <4>3. Plain("disable", Listen) # Plain("set", Listen)
        BY DEF Plain
      <4> QED
        BY <4>1, <4>2, <4>3
    <3> QED
      BY <1>2, <3>1, <3>2
  <2> QED
    BY <2>1, <2>2 DEF CallerInv
<1>3. ASSUME NEW c \in Conns, SessionStart(t, c) PROVE CallerInv(t)'
  <2>1. Head(call'[t]) = Enable(c, StartTypes(c))
    BY <1>i, <1>3 DEF SessionStart, Begins
  <2>2. Head(call'[t]).who # Listen
    BY <2>1, ServerAssumption DEF Enable
  <2> QED
    BY <2>2 DEF CallerInv
<1>4. CASE CallSets(t) \/ CallPosts(t) \/ CallStores(t)
  <2>1. call[t] # << >> /\ call'[t] = Tail(call[t])
    BY <1>i, <1>4 DEF CallSets, CallPosts, CallStores, Calling
  <2>2. CASE call[t] = <<Plain("set", Listen), Enable(Listen, {"R", "E"})>>
    <3>1. Tail(call[t]) = <<Enable(Listen, {"R", "E"})>>
      BY <2>2
    <3> QED
      BY <2>1, <3>1 DEF CallerInv
  <2>3. ASSUME NEW k, call[t] = << k >> PROVE CallerInv(t)'
    <3>1. Tail(<< k >>) = << >>
      OBVIOUS
    <3> QED
      BY <2>1, <2>3, <3>1 DEF CallerInv
  <2>4. CASE Head(call[t]).who # Listen
    <3>1. CASE Tail(call[t]) = << >>
      BY <2>1, <3>1 DEF CallerInv
    <3>2. CASE Tail(call[t]) # << >>
      <4>1. Head(Tail(call[t])) \in Elems(Tail(call[t]))
        BY <1>i, <2>1, <3>2, CallIs, ElemsTail
      <4> QED
        BY <1>i, <2>1, <2>4, <4>1, CallIs DEF CallerInv
    <3> QED
      BY <3>1, <3>2
  <2> QED
    BY <2>1, <2>2, <2>3, <2>4 DEF CallerInv
<1>5. CASE ~UserStep
  BY <1>1, <1>5, IoFrame
<1>6. CASE UserStep /\ ~CallStep(t)
  <2>1. Release => call' = call /\ (started' => started)
    BY DEF Release, ServerDies, ghosts, app
  <2>2. RunFragment => call' = call /\ started' = started
    BY DEF RunFragment, ghosts, app
  <2>3. ASSUME NEW c \in Conns, \/ SessionStop(c) \/ Drop(c)
                                \/ \E m \in Messages : PostSend(c, m)
        PROVE  call' = call /\ started' = started
    BY <2>3 DEF SessionStop, Drop, PostSend, ghosts, app
  <2>4. ~\E th \in Callers : CallStep(th)
    BY <1>6
  <2> QED
    BY <1>1, <1>6, <2>1, <2>2, <2>3, <2>4 DEF UserStep
<1> QED
  BY <1>2, <1>3, <1>4, <1>5, <1>6 DEF CallStep

LEMMA UserListens ==
  ASSUME Core, CallInv, ListenInv, NEW th \in Callers, Callers = {th}, CallerInv(th),
         UserStep
  PROVE  ListenInv'
<1>i. Types /\ PhaseInv /\ LifeInv /\ StreamInv /\ queue \in Seq(Tasks)
      /\ live \in SUBSET Conns /\ call \in [Callers -> Seq(Steps)]
  BY DEF Core, Types, OwnerTypes, LoopTypes, CallInv
<1>f. UNCHANGED <<pc, entry, ready, pending, starved>>
  BY <1>i, UserFrame
<1>h. Heeded => Heeded'
  BY <1>f DEF Heeded, At
<1>s. server' # "gone" => server # "gone"
  BY <1>i, UserLives
<1>1. CASE server' = "gone" \/ ~started' \/ InUse(Listen)'
  BY <1>1 DEF ListenInv
<1>2. CASE InUse(Listen) /\ ~InUse(Listen)'
  <2>1. call[th] # << >> /\ Head(call[th]).who = Listen
    BY <1>2 DEF InUse
  <2>2. call' # call
    BY <1>2 DEF InUse
  <2>3. CallSets(th) \/ CallPosts(th) \/ CallStores(th)
    BY <2>1, <2>2 DEF UserStep, Release, RunFragment, SessionStop, PostSend, Drop, ghosts, app,
                      CallStep, Start, Stop, SessionStart, Begins
  <2>4. call'[th] = Tail(call[th])
    BY <1>i, <2>3 DEF CallSets, CallPosts, CallStores, Calling
  <2>5. CASE call[th] = <<Plain("set", Listen), Enable(Listen, {"R", "E"})>>
    <3>1. call'[th] = <<Enable(Listen, {"R", "E"})>>
      BY <2>4, <2>5
    <3>2. Head(<<Enable(Listen, {"R", "E"})>>).who = Listen
      BY DEF Enable
    <3> QED
      BY <1>2, <3>1, <3>2 DEF InUse
  <2>6. CASE call[th] = <<Plain("disable", Listen)>> /\ ~started
    <3>1. Head(call[th]).op = "disable"
      BY <2>6 DEF Plain
    <3>2. started' = started
      BY <2>3, <3>1 DEF CallSets, CallPosts, CallStores, Calling
    <3> QED
      BY <1>1, <2>6, <3>2
  <2>7. CASE call[th] = <<Enable(Listen, {"R", "E"})>>
    <3>1. PICK k : k = Enable(Listen, {"R", "E"})
      OBVIOUS
    <3>2. Head(call[th]) = k /\ k.op = "enable"
      BY <2>7, <3>1 DEF Enable
    <3>3. k \in Tasks
      BY <3>1 DEF Enable, Tasks, Watchable, EventTypes
    <3>4. queue' = queue \o <<k>>
      BY <2>3, <3>2 DEF CallSets, CallPosts, CallStores, Calling, Post
    <3>5. PICK n \in Nat : n = Len(queue)
      BY <1>i
    <3>6. Len(queue') = n + 1 /\ DOMAIN queue' = 1..n + 1 /\ queue'[n + 1] = k
      BY <1>i, <3>3, <3>4, <3>5
    <3>7. Watching(queue')
      BY <3>1, <3>6 DEF Watching
    <3> QED
      BY <3>7 DEF ListenInv
  <2> QED
    BY <2>1, <2>5, <2>6, <2>7 DEF CallerInv
<1>3. CASE server' # "gone" /\ started' /\ ~InUse(Listen) /\ ~InUse(Listen)'
  <2>1. PICK t : /\ Posts(t)
                 /\ \A k \in Elems(t) : \/ k.who \in live
                                        \/ \E c \in live \ live' : k \in Bye(c)
    BY <1>i, <1>3, UserPosts
  <2>2. \A k \in Elems(t) : k.who # Listen
    BY <1>i, <2>1, ServerAssumption DEF Bye, Plain
  <2>3. started
    <3>1. ~CallSets(th)
      <4>1. ASSUME CallSets(th) PROVE FALSE
        <5>1. call[th] # << >> /\ Head(call[th]).op = "set"
          BY <4>1 DEF CallSets, Calling
        <5>2. Head(call[th]).who = Listen
          BY <1>i, <5>1, CallIs, FitIs
        <5> QED
          BY <1>3, <5>1, <5>2 DEF InUse
      <4> QED
        BY <4>1
    <3>2. Start(th) => started
      <4>1. ASSUME Start(th), ~started PROVE FALSE
        <5>1. call'[th] = <<Plain("set", Listen), Enable(Listen, {"R", "E"})>>
          BY <1>i, <4>1 DEF Start, Begins
        <5>2. call'[th] # << >> /\ Head(call'[th]).who = Listen
          BY <5>1 DEF Plain
        <5> QED
          BY <1>3, <5>2 DEF InUse
      <4> QED
        BY <4>1
    <3> QED
      BY <1>3, <3>1, <3>2
         DEF UserStep, Release, RunFragment, SessionStop, PostSend, Drop, ServerDies, CallStep,
             Stop, SessionStart, CallPosts, CallStores
  <2> QED
    BY <1>i, <1>3, <1>f, <1>h, <1>s, <2>1, <2>2, <2>3, ListenKept
<1> QED
  BY <1>1, <1>2, <1>3

\* The tasks of the io thread: the last one about the listening socket enables
\* its event, and the kernel reports a backlog at once.
LEMMA TaskListens ==
  ASSUME Core, ListenInv, RunTask
  PROVE  ListenInv'
<1>i. /\ Types /\ LifeInv /\ LoopTypes /\ queue \in Seq(Tasks) /\ live \in SUBSET Conns
      /\ entry \in [Watchable -> Entries] /\ Listen \notin Conns /\ Listen \in Watchable
  BY ServerAssumption DEF Core, Types, OwnerTypes, LoopTypes, Watchable
<1>f. UNCHANGED <<server, started, pc, starved>> /\ InUse(Listen)' = InUse(Listen)
  BY <1>i, TaskLives DEF InUse
<1>1. PICK t : /\ Runs(t)
               /\ \A k \in Elems(t) : \/ k.who \in live /\ k.op = "update"
                                      \/ \E c \in live \ live' : k \in Bye(c)
  BY <1>i, TaskPosts
<1>2. \A k \in Elems(t) : k.who # Listen
  BY <1>i, <1>1 DEF Bye, Plain
<1>3. PICK q \in Seq(Tasks) : /\ q = Tail(queue) /\ queue' = q \o t
                              /\ t \in Seq(Tasks) /\ queue # <<>> /\ pc = <<>>
  BY <1>i, <1>1, ElemsTail DEF Runs
<1>4. CASE Watching(q)
  BY <1>2, <1>3, <1>4, WatchAppend DEF ListenInv
<1>5. CASE /\ server # "gone" /\ Clear(q) /\ Head(queue).who # Listen
           /\ OnWatch /\ Heeded
  <2>1. Clear(queue')
    BY <1>2, <1>3, <1>5, WatchAppend
  <2>2. Who # Listen
    BY <1>5 DEF Who
  <2>3. entry'[Listen] = entry[Listen] /\ (Listen \in ready => Listen \in ready')
    <3>1. CASE EnableTask
      BY <1>i, <2>2, <3>1 DEF EnableTask
    <3>2. CASE DisableTask \/ UnregisterTask
      BY <1>i, <2>2, <3>2 DEF DisableTask, UnregisterTask, Forget
    <3>3. CASE EraseTask \/ SendTask
      BY <3>3 DEF EraseTask, SendTask, kernel
    <3> QED
      BY <3>1, <3>2, <3>3 DEF RunTask
  <2>4. pending' = pending
    <3>1. CASE UnregisterTask
      BY <2>2, <3>1 DEF UnregisterTask
    <3> QED
      BY <1>i, <3>1, TaskFrame
  <2>5. OnWatch' /\ Heeded'
    BY <1>3, <1>5, <1>f, <2>3, <2>4 DEF OnWatch, Heeded, At
  <2> QED
    BY <1>5, <1>f, <2>1, <2>5 DEF ListenInv, Clear, OnWatch, Heeded
<1>6. CASE Head(queue) = Enable(Listen, {"R", "E"}) /\ Clear(q)
  <2>1. Clear(queue')
    BY <1>2, <1>3, <1>6, WatchAppend
  <2>2. /\ Head(queue).op = "enable" /\ Who = Listen /\ Head(queue).types = {"R", "E"}
    BY <1>6 DEF Enable, Who
  <2>3. Running("enable") /\ EnableTask
    BY <1>3, <2>2 DEF RunTask, EnableTask, DisableTask, UnregisterTask, EraseTask,
                      SendTask, Running
  <2>4. PICK ty : ty = {"R", "E"}
    OBVIOUS
  <2>5. /\ entry' = [entry EXCEPT ![Listen].mask = ty,
                                  ![Listen].cb = @ \/ Running("enable")]
        /\ ready' = IF Level(Listen, ty) # {} THEN ready \cup {Listen} ELSE ready
        /\ pending' = pending
    BY <2>2, <2>3, <2>4 DEF EnableTask
  <2>6. entry'[Listen] = [cb |-> TRUE, mask |-> {"R", "E"}]
    <3>1. PICK e \in Entries : e = entry[Listen]
      BY <1>i
    <3>2. entry'[Listen] = [e EXCEPT !.mask = ty, !.cb = TRUE]
      BY <1>i, <2>3, <2>5, <3>1
    <3> QED
      BY <2>4, <3>2 DEF Entries
  <2>7. pending # {} => "R" \in Level(Listen, ty)
    BY <2>4 DEF Level
  <2>8. pending' # {} => Listen \in ready'
    BY <2>5, <2>7
  <2> QED
    BY <2>1, <2>6, <2>8 DEF ListenInv, Clear
<1>7. CASE server = "gone" \/ ~started \/ InUse(Listen)
  BY <1>7, <1>f DEF ListenInv
<1>8. Watching(queue) => Watching(q) \/ (Head(queue) = Enable(Listen, {"R", "E"}) /\ Clear(q))
  BY <1>i, <1>3, WatchTail
<1>9. Clear(queue) => Clear(q) /\ Head(queue).who # Listen
  BY <1>i, <1>3, WatchTail
<1> QED
  BY <1>4, <1>5, <1>6, <1>7, <1>8, <1>9 DEF ListenInv, Clear, OnWatch, Heeded
LEMMA CallbackListens ==
  ASSUME Core, ListenInv, Session \/ Leave
  PROVE  ListenInv'
<1>i. /\ Types /\ PhaseInv /\ LifeInv /\ StreamInv /\ queue \in Seq(Tasks)
      /\ live \in SUBSET Conns /\ LoopTypes /\ Listen \notin Conns
  BY ServerAssumption DEF Core, Types, OwnerTypes, LoopTypes
<1>1. CASE Session
  <2>1. UNCHANGED <<server, started, entry, ready, pending, starved>>
        /\ InUse(Listen)' = InUse(Listen)
    BY <1>i, <1>1, SessionFrame DEF InUse
  <2>2. PICK t : Posts(t) /\ \A k \in Elems(t) : k.who \in live
    BY <1>i, <1>1, SessionPosts
  <2>3. ~At("accept")
    BY <1>1 DEF Session, Read, Write, Error, Split, Closed, At
  <2>4. Heeded => Heeded'
    BY <2>1, <2>3 DEF Heeded
  <2>5. \A k \in Elems(t) : k.who # Listen
    BY <1>i, <2>2
  <2> QED
    BY <1>i, <2>1, <2>2, <2>4, <2>5, ListenKept
<1>2. CASE Leave /\ server' # "gone"
  <2>1. UNCHANGED <<server, started, entry, ready, pending, starved>>
        /\ InUse(Listen)' = InUse(Listen)
    BY <1>2 DEF Leave, ServerDies, kernel, ghosts, app, InUse
  <2>2. PICK t : /\ Posts(t)
                 /\ \A k \in Elems(t) : \/ k.who \in live
                                        \/ \E c \in live \ live' : k \in Bye(c)
    BY <1>i, <1>2, CallbackPosts
  <2>3. ~At("accept")
    BY <1>2 DEF Leave, At
  <2>4. Heeded => Heeded'
    BY <2>1, <2>3 DEF Heeded
  <2>5. \A k \in Elems(t) : k.who # Listen
    BY <1>i, <2>2 DEF Bye, Plain
  <2> QED
    BY <1>i, <2>1, <2>2, <2>4, <2>5, ListenKept
<1>3. CASE server' = "gone"
  BY <1>3 DEF ListenInv
<1> QED
  BY <1>1, <1>2, <1>3

\* The accept loop empties the backlog, or fails for want of a number.
LEMMA AcceptListens ==
  ASSUME Core, ListenInv, Begin \/ \E c \in Conns, fd \in Fds : Accept(c, fd)
  PROVE  ListenInv'
<1>i. /\ Types /\ PhaseInv /\ LifeInv /\ StreamInv /\ queue \in Seq(Tasks)
      /\ live \in SUBSET Conns /\ Listen \notin Conns /\ LoopTypes /\ pc \in Seq(Labels)
  BY ServerAssumption DEF Core, Types, OwnerTypes, LoopTypes
<1>a. ASSUME At("accept"), Goto(<<"accept">>) PROVE At("accept")'
  <2>1. PICK a, r : a = <<"accept">> /\ r = Tail(pc) /\ r \in Seq(Labels)
    BY <1>i, <1>a, AtIs
  <2>2. pc' = a \o r
    BY <1>a, <2>1 DEF Goto
  <2>3. a \in Seq(Labels) /\ Len(a) = 1 /\ a[1] = "accept"
    BY <2>1 DEF Labels
  <2>4. /\ a \o r \in Seq(Labels) /\ Len(a \o r) = Len(a) + Len(r)
        /\ \A i \in 1..Len(a) : (a \o r)[i] = a[i]
    BY <2>1, <2>3
  <2>5. pc' \in Seq(Labels) /\ Len(pc') > 0 /\ pc'[1] = "accept"
    BY <2>1, <2>2, <2>3, <2>4
  <2> QED
    BY <2>5 DEF At
<1>0. Posts(<<>>) <=> queue' = queue
  BY <1>i, Nothing DEF Posts
<1>1. CASE Begin
  <2>1. UNCHANGED <<server, started, queue, entry>> /\ InUse(Listen)' = InUse(Listen)
    BY <1>1, BeginFrame DEF owners, InUse
  <2>2. ASSUME server # "gone", OnWatch, Heeded PROVE Heeded'
    <3>1. ASSUME NEW x \in Watchable, Ignored(x) PROVE Heeded'
      <4>1. UNCHANGED <<pending, starved>> /\ ready' = ready \ {x} /\ pc = <<>>
        BY <3>1 DEF Ignored, Event, ghosts, app
      <4>2. CASE x = Listen
        <5>1. entry[x].cb /\ entry[x].mask = {"R", "E"}
          BY <2>2, <4>2 DEF OnWatch
        <5>2. Level(x, entry[x].mask) = {}
          BY <2>2, <3>1, <4>2, <5>1 DEF Ignored
        <5>3. pending = {}
          BY <4>2, <5>1, <5>2 DEF Level
        <5> QED
          BY <4>1, <5>3 DEF Heeded
      <4>3. CASE x # Listen
        BY <2>2, <4>1, <4>3 DEF Heeded, At
      <4> QED
        BY <4>2, <4>3
    <3>2. ASSUME NEW x \in Watchable, Callback(x) PROVE Heeded'
      <4>1. UNCHANGED pending /\ ready' = ready \ {x} /\ pc = <<>>
        BY <3>2 DEF Callback, Event
      <4>2. CASE x = Listen
        <5>1. At("accept")'
          BY <3>2, <4>2, CallbackPhases DEF At
        <5> QED
          BY <5>1 DEF Heeded
      <4>3. CASE x # Listen
        <5>1. starved' = starved
          BY <3>2, <4>3 DEF Callback
        <5> QED
          BY <2>2, <4>1, <4>3, <5>1 DEF Heeded, At
      <4> QED
        BY <4>2, <4>3
    <3>3. ASSUME AcceptEnds PROVE Heeded'
      BY <3>3 DEF AcceptEnds, kernel, Heeded
    <3>4. ASSUME NEW c \in Conns, AcceptAborted(c) PROVE Heeded'
      <4>1. At("accept")'
        BY <1>a, <3>4 DEF AcceptAborted, AfterAbort
      <4> QED
        BY <4>1 DEF Heeded
    <3> QED
      BY <1>1, <3>1, <3>2, <3>3, <3>4 DEF Begin
  <2> QED
    BY <1>i, <1>0, <2>1, <2>2, Nothing, ListenKept
<1>2. ASSUME NEW c \in Conns, NEW fd \in Fds, Accept(c, fd)
      PROVE  ListenInv'
  <2>1. UNCHANGED <<server, started, entry>> /\ At("accept")'
        /\ InUse(Listen)' = InUse(Listen)
    BY <1>a, <1>2 DEF Accept, ghosts, app, InUse
  <2>2. PICK t : /\ Posts(t)
                 /\ \A k \in Elems(t) : \/ k.who = c /\ k.op = "enable"
                                        \/ \E d \in live \ live' : k \in Bye(d)
    BY <1>i, <1>2, AcceptIs
  <2>3. \A k \in Elems(t) : k.who # Listen
    BY <1>i, <2>2 DEF Bye, Plain
  <2>4. Heeded'
    BY <2>1 DEF Heeded
  <2> QED
    BY <1>i, <2>1, <2>2, <2>3, <2>4, ListenKept
<1> QED
  BY <1>1, <1>2

LEMMA NetListens ==
  ASSUME Core, ListenInv, NEW c \in Conns, NetAt(c)
  PROVE  ListenInv'
<1>1. queue \in Seq(Tasks)
  BY DEF Core, Types, LoopTypes
<1>2. /\ UNCHANGED <<server, started, queue, entry, pc, starved>>
      /\ ready \subseteq ready' /\ InUse(Listen)' = InUse(Listen)
      /\ \/ pending' = pending
         \/ entry[Listen].mask # {} => Listen \in ready'
  BY NetFrame DEF Network, owners, io, app, InUse
<1>3. Posts(<<>>)
  BY <1>1, <1>2, Nothing DEF Posts
<1>4. OnWatch /\ Heeded => Heeded'
  BY <1>2 DEF OnWatch, Heeded, At
<1> QED
  BY <1>1, <1>2, <1>3, <1>4, Nothing, ListenKept

LEMMA StepListens ==
  ASSUME Core, CallInv, ListenInv, NEW t \in Callers, Callers = {t}, CallerInv(t),
         [Next]_vars
  PROVE  ListenInv'
<1>1. CASE UserStep
  BY <1>1, UserListens
<1>2. CASE RunTask
  BY <1>2, TaskListens
<1>3. CASE Begin \/ \E c \in Conns, fd \in Fds : Accept(c, fd)
  BY <1>3, AcceptListens
<1>4. CASE Session \/ Leave
  BY <1>4, CallbackListens
<1>5. CASE \E c \in Conns : NetAt(c)
  BY <1>5, NetListens
<1>6. CASE UNCHANGED vars
  BY <1>6 DEF ListenInv, InUse, At, vars, owners, io, kernel, ghosts, app
<1> QED
  BY <1>1, <1>2, <1>3, <1>4, <1>5, <1>6
     DEF Next, IoStep, NetStep, Begin, Session, NetAt, Watchable
-------------------------------------------------------------------------------
(***************************************************************************)
(* The theorems.                                                           *)
(***************************************************************************)
LEMMA InitCalls ==
  ASSUME Init
  PROVE  CallInv
<1>1. call \in [Callers -> Seq(Steps)] /\ \A t \in Callers : call[t] = << >>
  BY DEF Init
<1> QED
  BY <1>1, ElemsFew DEF CallInv

LEMMA Invariance == Spec => []IInv
<1>1. Init => IInv
  BY InitCore, InitCalls DEF IInv, Core
<1>2. IInv /\ [Next]_vars => IInv'
  BY StepCore, CallsKept DEF IInv, Core
<1> QED
  BY <1>1, <1>2, PTL DEF Spec

\* The state has its types: the owners' pointers, the buffers, the queues and the
\* kernel's tables, whatever the io thread, the heavy thread, the application and
\* the network do, in whatever order.
THEOREM TypeCorrect == Spec => []TypeOK
<1>1. IInv => TypeOK
  <2>1. SUFFICES ASSUME IInv PROVE TypeOK
    OBVIOUS
  <2>2. /\ Types /\ RefInv /\ Shape(cur, pc)
    BY <2>1 DEF IInv, LifeInv, PhaseInv
  <2>3. ASSUME NEW c \in Conns
        PROVE  /\ obj[c].fd \in Fds \cup {None}
               /\ obj[c].types \subseteq EventTypes
               /\ obj[c].send_buf \in Seq(Messages)
               /\ obj[c].recv_buf \in Seq(1..MaxPeer)
               /\ sock[c].room \in 0..Room
               /\ sock[c].inbox \in Seq(1..MaxPeer)
    <3>1. obj[c] \in Objs /\ sock[c] \in Socks
      BY <2>2 DEF Types, DataTypes, KernelTypes
    <3> QED
      BY <3>1 DEF Objs, Socks
  <2> QED
    BY <2>2, <2>3
       DEF TypeOK, Types, OwnerTypes, LoopTypes, KernelTypes, DataTypes, RefInv, Shape,
           Watchable
<1> QED
  BY <1>1, Invariance, PTL

\* The destructors are safe: no session that something can still reach (the table,
\* the application, a queued fragment, a running callback) has been destroyed, and
\* no descriptor is closed before its session is gone.
ReachedAreAlive ==
  /\ \A c \in Conns : Referenced(c) => c \in live
  /\ \A c \in live : c \in Open
  /\ \A i \in DOMAIN queue : queue[i].op = "unregister" => queue[i].who \notin live
THEOREM SessionsAreAlive == Spec => []ReachedAreAlive
<1>1. IInv => ReachedAreAlive
  <2>1. SUFFICES ASSUME IInv PROVE ReachedAreAlive
    OBVIOUS
  <2>2. /\ RefInv /\ FdInv /\ TaskInv /\ TableInv /\ live \in SUBSET Conns
        /\ None \notin Conns
    BY <2>1, ServerAssumption DEF IInv, LifeInv, Types, OwnerTypes
  <2>3. ASSUME NEW c \in Conns, Referenced(c) PROVE c \in live
    BY <2>2, <2>3 DEF Referenced, RefInv, TableInv
  <2>4. \A c \in live : c \in Open
    BY <2>2 DEF FdInv, IsOpen, Open
  <2>5. ASSUME NEW i \in DOMAIN queue, queue[i].op = "unregister"
        PROVE  queue[i].who \notin live
    BY <2>2, <2>5 DEF TaskInv, Elems, Due
  <2> QED
    BY <2>3, <2>4, <2>5 DEF ReachedAreAlive
<1> QED
  BY <1>1, Invariance, PTL

\* sessions_ agrees with the sessions that exist, although descriptor numbers are
\* reused and erase tasks run late, perhaps twice for a session or after another
\* connection has got the number.
THEOREM TableIsRight == Spec => []TableIsExact
<1>1. IInv => TableIsExact
  <2>1. SUFFICES ASSUME IInv PROVE TableIsExact
    OBVIOUS
  <2>2. FdInv /\ TableInv /\ live \in SUBSET Conns
    BY <2>1 DEF IInv, LifeInv, Types, OwnerTypes
  <2>3. live \subseteq Open
    BY <2>2 DEF FdInv, IsOpen, Open
  <2> QED
    BY <2>2, <2>3 DEF TableIsExact, TableInv
<1> QED
  BY <1>1, Invariance, PTL

\* What a session sends and what it hands to on_fragment follow the two streams,
\* for any sizes of messages, frames and send buffers the kernel may have.
THEOREM StreamsAreKept == Spec => []SessionStreams
<1>1. IInv => SessionStreams
  <2>1. SUFFICES ASSUME IInv, NEW c \in Conns
        PROVE  /\ ~data[c].lost => data[c].sent \o obj[c].send_buf = data[c].taken
               /\ \A i, j \in DOMAIN data[c].frames :
                    i < j => data[c].frames[i] < data[c].frames[j]
               /\ ~data[c].torn =>
                    \A i \in DOMAIN data[c].frames : data[c].frames[i] = i
    BY DEF SessionStreams
  <2>2. PICK o \in Objs, s \in Socks, h \in Histories :
          /\ o = obj[c] /\ s = sock[c] /\ h = data[c]
          /\ InputInv(h, o, s) /\ OutputInv(h, o)
    BY <2>1 DEF IInv, Types, DataTypes, KernelTypes, StreamInv
  <2>3. PICK f \in Input, b \in Input, q \in Input, peer \in Nat :
          f = h.frames /\ b = o.recv_buf /\ q = s.inbox /\ peer = h.peer
    <3>1. /\ h.frames \in Input /\ o.recv_buf \in Input /\ s.inbox \in Input
          /\ h.peer \in 0..MaxPeer
      BY DEF Histories, Objs, Socks, Input
    <3>2. h.peer \in Nat
      BY <3>1
    <3> QED
      BY <3>1, <3>2
  <2>4. PICK bq, torn, lasting :
          bq \in Input /\ bq = b \o q /\ torn = h.torn /\ lasting = Lasting(s)
    BY <2>3, InputConcat
  <2>5. (f \o b) \o q = f \o bq
    <3>1. f \in Input /\ b \in Input /\ q \in Input
      BY <2>3
    <3>2. (f \o b) \o q = f \o (b \o q)
      BY ONLY <3>1, InputAssoc
    <3> QED
      BY <2>4, <3>2
  <2>6. Flow(f \o bq, peer, torn, lasting)
    BY <2>2, <2>3, <2>4, <2>5 DEF InputInv
  <2>7. Flow(f, peer, torn, FALSE)
    BY <2>3, <2>4, <2>6, FlowEnds
  <2> QED
    BY <2>2, <2>3, <2>4, <2>7 DEF OutputInv, Flow, Ascending
<1> QED
  BY <1>1, Invariance, PTL

\* A started server does not leave a connection in its backlog, although its edge
\* is reported once and the steps of stop() and start() interleave with the accept
\* loop and the clients.  One thread calls them: two can leave the flag set and the
\* socket disabled, as UdpSocket's can.
THEOREM BacklogIsServed ==
  ASSUME NEW t \in Callers, Callers = {t} PROVE Spec => []PendingIsAccepted
<1> DEFINE Inv == IInv /\ ListenInv /\ CallerInv(t)
<1>1. Init => Inv
  <2>1. SUFFICES ASSUME Init PROVE Inv
    OBVIOUS
  <2>2. PICK k : k = Enable(Listen, {"R", "E"})
    OBVIOUS
  <2>3. queue = <<k>> /\ call[t] = << >>
    BY <2>1, <2>2 DEF Init
  <2>4. DOMAIN queue = {1} /\ queue[1] = k
    BY <2>3
  <2>5. Watching(queue)
    BY <2>2, <2>4 DEF Watching
  <2> QED
    BY <2>1, <2>3, <2>5, InitCore, InitCalls DEF IInv, Core, ListenInv, CallerInv
<1>2. Inv /\ [Next]_vars => Inv'
  <2>1. SUFFICES ASSUME Inv, [Next]_vars PROVE Inv'
    OBVIOUS
  <2>2. Core /\ CallInv /\ ListenInv /\ CallerInv(t)
    BY <2>1 DEF IInv, Core
  <2>3. Core' /\ CallInv'
    BY <2>1, <2>2, StepCore, CallsKept
  <2>4. ListenInv' /\ CallerInv(t)'
    BY <2>1, <2>2, StepListens, CallerKept
  <2> QED
    BY <2>3, <2>4 DEF IInv, Core
<1>3. Inv => PendingIsAccepted
  <2>1. SUFFICES ASSUME Inv, Quiet, ~InUse(Listen), server # "gone", started, pending # {}
                 PROVE  Listen \in ready \/ starved
    BY DEF PendingIsAccepted
  <2>2. ~At("accept") /\ ~Watching(queue)
    BY <2>1 DEF Quiet, At, Watching
  <2> QED
    BY <2>1, <2>2 DEF ListenInv
<1> QED
  BY <1>1, <1>2, <1>3, PTL DEF Spec
-------------------------------------------------------------------------------
(***************************************************************************)
(* No session outlives its use, and none is forgotten.                     *)
(***************************************************************************)
\* A callback keeps the server; with the server goes the table.
ServerInv ==
  /\ cur # None => server # "gone"
  /\ server = "gone" => \A fd \in Fds : sessions[fd] = None

\* A session exists as long as something refers to it; an open connection has
\* its session, or is going to be closed; a session that was stopped is going
\* to leave the table.
Sessions == \A c \in live : Referenced(c)
Served   == \A c \in Conns :
              IsOpen(sock[c]) => c \in live \/ Plain("unregister", c) \in Elems(queue)
Leaving  == \A c \in live \cap stopped :
              InTable(c) => Plain("erase", c) \in Elems(queue)
Fresh    == \A c \in Conns : ~Known(sock[c]) => c \notin stopped /\ obj[c].send_buf = <<>>
OwnedInv == Sessions /\ Served /\ Leaving /\ Fresh

LEMMA OrdersReach ==
  ASSUME NEW S, IsFiniteSet(S), NEW o \in Orders(S)
  PROVE  \A x \in S : \E i \in 1..Cardinality(S) : o[i] = x
<1> DEFINE n == Cardinality(S)
<1>1. n \in Nat
  BY FS_CardinalityType
<1>2. o \in [1..n -> S] /\ \A i, j \in 1..n : o[i] = o[j] => i = j
  BY DEF Orders
<1> HIDE DEF n
<1>3. o \in Injection(1..n, S)
  BY <1>2, Fun_IsInj
<1>4. Cardinality(1..n) = n
  BY <1>1, FS_Interval
<1>5. o \in Surjection(1..n, S)
  BY <1>3, <1>4, FS_Injection DEF n
<1> QED
  BY <1>5 DEF Surjection, n

\* Every session that is destroyed closes its descriptor.
LEMMA FarewellsClose ==
  ASSUME NEW S \in SUBSET Conns, IsFiniteSet(S), NEW f \in Farewells(S), NEW c \in S
  PROVE  Plain("unregister", c) \in Elems(f)
<1>1. PICK o \in Orders(S) :
        f = [i \in 1..3 * Len(o) |-> Farewell(o[(i + 2) \div 3])[((i - 1) % 3) + 1]]
  BY DEF Farewells
<1>2. PICK n \in Nat : n = Cardinality(S)
  BY FS_CardinalityType
<1>3. o \in [1..n -> S]
  BY <1>1, <1>2 DEF Orders
<1>4. Len(o) = n
  BY <1>3
<1>5. PICK a \in 1..n : o[a] = c
  BY <1>1, <1>2, OrdersReach
<1>6. PICK i \in Int : i = 3 * a
  OBVIOUS
<1>7. i \in 1..3 * n /\ (i + 2) \div 3 = a /\ ((i - 1) % 3) + 1 = 3
  <2>1. a >= 1 /\ a <= n
    OBVIOUS
  <2>2. i \in 1..3 * n
    BY <1>6, <2>1
  <2>3. (i + 2) \div 3 = a
    BY <1>6
  <2>4. (i - 1) % 3 = 2
    BY <1>6
  <2> QED
    BY <2>2, <2>3, <2>4
<1>8. f[i] = Farewell(c)[3]
  BY <1>1, <1>4, <1>5, <1>7
<1>9. Farewell(c)[3] = Plain("unregister", c)
  <2>1. PICK d, e, u : d = Plain("disable", c) /\ e = Plain("erase", c)
                         /\ u = Plain("unregister", c)
    OBVIOUS
  <2>2. Farewell(c) = <<d, e>> \o <<u>>
    BY <2>1 DEF Farewell, StopPosts
  <2>3. (<<d, e>> \o <<u>>)[3] = u
    OBVIOUS
  <2> QED
    BY <2>1, <2>2, <2>3
<1>10. i \in DOMAIN f
  BY <1>1, <1>4, <1>7
<1> QED
  BY <1>8, <1>9, <1>10 DEF Elems

\* A step that drops references leaves no session without one.
LEMMA Settled ==
  ASSUME OwnerTypes, queue \in Seq(Tasks),
         NEW before \in Seq(Tasks), NEW after \in Seq(Tasks),
         NEW born \in SUBSET Conns, IsFiniteSet(born), Settle(before, born, after)
  PROVE  /\ \A c \in live' : Referenced(c)'
         /\ \A c \in (live \cup born) \ live' : Plain("unregister", c) \in Elems(queue')
         /\ Elems(queue) \subseteq Elems(queue')
<1>1. PICK dying : dying = {c \in live \cup born : ~Referenced(c)'}
  OBVIOUS
<1>2. live' = (live \cup born) \ dying
  BY <1>1 DEF Settle
<1>3. live \in SUBSET Conns /\ IsFiniteSet(live \cup born)
  BY FS_Union DEF OwnerTypes
<1>4. IsFiniteSet(dying) /\ dying \in SUBSET Conns
  BY <1>1, <1>3, FS_Subset
<1>5. PICK f \in Farewells(dying) : queue' = queue \o before \o f \o after
  BY <1>1 DEF Settle
<1>6. f \in Seq(Tasks) /\ \A c \in dying : Plain("unregister", c) \in Elems(f)
  BY <1>4, FarewellsAre, FarewellsClose
<1>7. PICK a : a = queue \o before
  OBVIOUS
<1>8. a \in Seq(Tasks) /\ Elems(a) = Elems(queue) \cup Elems(before)
  BY <1>7, ElemsConcat
<1>9. PICK b : b = a \o f
  OBVIOUS
<1>10. b \in Seq(Tasks) /\ Elems(b) = Elems(a) \cup Elems(f)
  BY <1>6, <1>8, <1>9, ElemsConcat
<1>11. Elems(b \o after) = Elems(b) \cup Elems(after)
  BY <1>10, ElemsConcat
<1>12. queue' = b \o after
  BY <1>5, <1>7, <1>9
<1> QED
  BY <1>1, <1>2, <1>6, <1>8, <1>10, <1>11, <1>12

LEMMA SettledNow ==
  ASSUME OwnerTypes, queue \in Seq(Tasks), Settle(<<>>, {}, <<>>) \/ ServerDies
  PROVE  /\ \A c \in live' : Referenced(c)'
         /\ \A c \in live \ live' : Plain("unregister", c) \in Elems(queue')
         /\ Elems(queue) \subseteq Elems(queue')
<1>1. PICK none : none = {} /\ none \in SUBSET Conns /\ IsFiniteSet(none)
  BY FS_EmptySet
<1>2. PICK e, d, u : e = <<>> /\ d = <<Plain("disable", Listen)>>
                       /\ u = <<Plain("unregister", Listen)>>
  OBVIOUS
<1>3. Plain("disable", Listen) \in Tasks /\ Plain("unregister", Listen) \in Tasks
  BY DEF Plain, Tasks, Watchable
<1>4. e \in Seq(Tasks) /\ d \in Seq(Tasks) /\ u \in Seq(Tasks)
  BY <1>2, <1>3
<1>5. Settle(e, none, e) \/ Settle(d, none, u)
  BY <1>1, <1>2 DEF ServerDies
<1>6. live \cup none = live
  BY <1>1
<1> QED
  BY <1>1, <1>4, <1>5, <1>6, Settled

LEMMA ErasedNow ==
  ASSUME Types, EraseTask
  PROVE  /\ \A c \in live' : Referenced(c)'
         /\ \A c \in live \ live' : Plain("unregister", c) \in Elems(queue')
         /\ Elems(Tail(queue)) \subseteq Elems(queue')
<1>t. OwnerTypes /\ LoopTypes
  BY DEF Types
<1>1. PICK dying : dying = {c \in live : ~Referenced(c)'}
  OBVIOUS
<1>2. live' = live \ dying
  BY <1>1 DEF EraseTask
<1>3. IsFiniteSet(dying) /\ dying \in SUBSET Conns
  BY <1>t, <1>1, FS_Subset DEF OwnerTypes
<1>4. PICK f \in Farewells(dying) : queue' = Tail(queue) \o f
  BY <1>1 DEF EraseTask
<1>5. f \in Seq(Tasks) /\ \A c \in dying : Plain("unregister", c) \in Elems(f)
  BY <1>3, FarewellsAre, FarewellsClose
<1>6. PICK r \in Seq(Tasks) : r = Tail(queue)
  BY <1>t, HeadIs DEF EraseTask
<1>7. Elems(r \o f) = Elems(r) \cup Elems(f)
  BY <1>5, <1>6, ElemsConcat
<1> QED
  BY <1>1, <1>2, <1>4, <1>5, <1>6, <1>7

\* The first task runs, and the others stay.
LEMMA ElemsHead ==
  ASSUME NEW S, NEW s \in Seq(S), s # <<>>, NEW k \in Elems(s), k # Head(s)
  PROVE  k \in Elems(Tail(s))
<1>1. PICK i \in DOMAIN s : s[i] = k
  BY DEF Elems
<1>2. Tail(s) \in Seq(S) /\ Len(Tail(s)) = Len(s) - 1 /\ Len(s) \in Nat /\ Head(s) = s[1]
      /\ DOMAIN s = 1..Len(s) /\ \A j \in 1..Len(s) - 1 : Tail(s)[j] = s[j + 1]
  OBVIOUS
<1>3. PICK n \in Nat : n = Len(s)
  BY <1>2
<1>4. i \in 1..n /\ i # 1
  BY <1>1, <1>2, <1>3
<1>5. PICK j \in 1..n - 1 : i = j + 1
  <2>1. i - 1 \in 1..n - 1 /\ i = (i - 1) + 1
    BY <1>4
  <2> QED
    BY <2>1
<1>6. PICK r \in Seq(S) : r = Tail(s) /\ Len(r) = n - 1
  BY <1>2, <1>3
<1>7. j \in DOMAIN r /\ r[j] = k
  BY <1>1, <1>2, <1>3, <1>5, <1>6
<1> QED
  BY <1>6, <1>7 DEF Elems

LEMMA TailStays ==
  ASSUME Types, RunTask, NEW k \in Elems(queue), k # Head(queue)
  PROVE  k \in Elems(queue')
<1>1. PICK t : Runs(t)
  BY TaskPosts
<1>2. queue \in Seq(Tasks) /\ queue # <<>>
  BY <1>1 DEF Types, LoopTypes, Runs
<1>3. k \in Elems(Tail(queue))
  BY <1>2, ElemsHead
<1>4. PICK r \in Seq(Tasks) : r = Tail(queue)
  BY <1>2, ElemsTail
<1>5. queue' = r \o t /\ t \in Seq(Tasks)
  BY <1>1, <1>4 DEF Runs
<1>6. Elems(r \o t) = Elems(r) \cup Elems(t)
  BY <1>5, ElemsConcat
<1> QED
  BY <1>3, <1>4, <1>5, <1>6

LEMMA PostsStay ==
  ASSUME queue \in Seq(Tasks), NEW t, Posts(t)
  PROVE  Elems(queue') = Elems(queue) \cup Elems(t)
  BY ElemsConcat DEF Posts

LEMMA ServerStep ==
  ASSUME Core, CallInv, ServerInv, [Next]_vars
  PROVE  ServerInv'
<1>t. /\ Types /\ PhaseInv /\ LifeInv /\ StreamInv /\ LoopTypes
      /\ sessions \in [Fds -> Conns \cup {None}]
  BY DEF Core, Types, OwnerTypes
<1>0. ASSUME ServerDies PROVE \A fd \in Fds : sessions'[fd] = None
  BY <1>0 DEF ServerDies
<1>1. CASE UserStep
  <2>1. /\ \A fd \in Fds : sessions'[fd] # sessions[fd] => sessions'[fd] = None
        /\ server = "gone" => server' = "gone"
    BY <1>t, <1>1, UserLives
  <2>2. cur' = cur
    BY <1>t, <1>1, UserFrame
  <2>3. server' = "gone" => server = "gone" \/ (cur = None /\ ServerDies)
    BY <1>1 DEF UserStep, Release, RunFragment, SessionStop, PostSend, Drop, CallStep,
                Start, Stop, SessionStart, Begins, CallSets, CallPosts, CallStores, Calling
  <2> QED
    BY <1>0, <2>1, <2>2, <2>3 DEF ServerInv
<1>2. CASE RunTask
  BY <1>t, <1>2, TaskLives DEF ServerInv
<1>3. CASE Begin
  <2>1. UNCHANGED <<server, sessions>>
    BY <1>3, BeginFrame DEF owners
  <2>2. cur' = cur \/ server # "gone"
    BY <1>3 DEF Begin, Ignored, Callback, AcceptEnds, AcceptAborted, Goto, io
  <2> QED
    BY <2>1, <2>2 DEF ServerInv
<1>4. CASE \E c \in Conns, fd \in Fds : Accept(c, fd)
  <2>1. server' = server /\ At("accept")
    BY <1>4 DEF Accept
  <2>2. server # "gone"
    BY <1>t, <2>1, AtIs DEF ServerInv
  <2> QED
    BY <2>1, <2>2 DEF ServerInv
<1>5. CASE Session
  <2>1. UNCHANGED <<server, sessions>> /\ cur' = cur
    BY <1>t, <1>5, SessionFrame, SessionPhases
  <2> QED
    BY <2>1 DEF ServerInv
<1>6. CASE Leave
  <2>1. cur' = None
    BY <1>6 DEF Leave
  <2>2. ServerDies \/ UNCHANGED <<server, sessions>>
    BY <1>6 DEF Leave
  <2> QED
    BY <1>0, <2>1, <2>2 DEF ServerInv
<1>7. CASE \E c \in Conns : NetAt(c)
  <2>1. UNCHANGED <<server, sessions, cur>>
    BY <1>7, NetFrame DEF Network, owners, io, app
  <2> QED
    BY <2>1 DEF ServerInv
<1>8. CASE UNCHANGED vars
  BY <1>8 DEF ServerInv, vars, owners, io
<1> QED
  BY <1>1, <1>2, <1>3, <1>4, <1>5, <1>6, <1>7, <1>8
     DEF Next, IoStep, NetStep, Begin, Session, NetAt, Watchable

\* A step that runs no task.
LEMMA OwnedKept ==
  ASSUME live \in SUBSET Conns, OwnedInv,
         \A c \in live' : Referenced(c)',
         Elems(queue) \subseteq Elems(queue'),
         \A c \in Conns : IsOpen(sock'[c]) => IsOpen(sock[c]) \/ c \in live',
         \A c \in live \ live' : Plain("unregister", c) \in Elems(queue'),
         \A c \in live' \cap stopped' :
           InTable(c)' => \/ c \in live \cap stopped /\ InTable(c)
                          \/ Plain("erase", c) \in Elems(queue'),
         \A c \in Conns : ~Known(sock'[c]) =>
           /\ ~Known(sock[c]) /\ (c \in stopped' => c \in stopped)
           /\ obj'[c].send_buf = obj[c].send_buf
  PROVE  OwnedInv'
<1>1. Sessions'
  BY DEF Sessions
<1>2. Served'
  BY DEF OwnedInv, Served
<1>3. Leaving'
  BY DEF OwnedInv, Leaving
<1>4. Fresh'
  BY DEF OwnedInv, Fresh
<1> QED
  BY <1>1, <1>2, <1>3, <1>4 DEF OwnedInv

LEMMA UserOwned ==
  ASSUME Core, CallInv, OwnedInv, UserStep
  PROVE  OwnedInv'
<1>t. /\ Types /\ LifeInv /\ OwnerTypes /\ queue \in Seq(Tasks) /\ live \in SUBSET Conns
      /\ stopped \in SUBSET Conns /\ None \notin Conns
  BY ServerAssumption DEF Core, Types, OwnerTypes, LoopTypes, DataTypes
<1>f. /\ cur' = cur /\ sock' = sock
      /\ \A c \in Conns : obj'[c].send_buf = obj[c].send_buf
  BY <1>t, UserFrame
<1>l. /\ live' \subseteq live
      /\ \A fd \in Fds : sessions'[fd] # sessions[fd] => sessions'[fd] = None
  BY <1>t, UserLives
<1>1. \/ Settle(<<>>, {}, <<>>) \/ ServerDies
      \/ UNCHANGED <<live, sessions, held, heavy>>
  BY DEF UserStep, Release, RunFragment, SessionStop, PostSend, Drop, Post, CallStep,
         Start, Stop, SessionStart, Begins, CallSets, CallPosts, CallStores, Calling
<1>2. PICK t : Posts(t)
  BY <1>t, UserPosts
<1>3. /\ \A c \in live' : Referenced(c)'
      /\ \A c \in live \ live' : Plain("unregister", c) \in Elems(queue')
      /\ Elems(queue) \subseteq Elems(queue')
  <2>1. CASE Settle(<<>>, {}, <<>>) \/ ServerDies
    BY <1>t, <2>1, SettledNow
  <2>2. CASE UNCHANGED <<live, sessions, held, heavy>>
    <3>1. \A c \in live : Referenced(c) => Referenced(c)'
      BY <1>f, <2>2 DEF Referenced
    <3> QED
      BY <1>t, <1>2, <2>2, <3>1, PostsStay DEF OwnedInv, Sessions
  <2> QED
    BY <1>1, <2>1, <2>2
<1>4. ASSUME NEW c \in Conns, c \in stopped', c \notin stopped
      PROVE  /\ Plain("erase", c) \in Elems(queue') /\ Known(sock[c])
  <2>1. SessionStop(c)
    BY <1>4 DEF UserStep, Release, RunFragment, SessionStop, PostSend, Drop, ghosts,
                CallStep, Start, Stop, SessionStart, Begins, CallSets, CallPosts,
                CallStores, Calling
  <2>2. PICK s : s = StopPosts(c)
    OBVIOUS
  <2>3. s \in Seq(Tasks) /\ Plain("erase", c) \in Elems(s)
    BY <2>2, FarewellIs
  <2>4. Posts(s)
    BY <2>1, <2>2, <2>3 DEF SessionStop, Post, Posts
  <2>5. IsOpen(sock[c])
    BY <1>t, <2>1 DEF SessionStop, LifeInv, RefInv, FdInv
  <2> QED
    BY <1>t, <2>3, <2>4, <2>5, PostsStay DEF IsOpen, Known
<1>5. \A c \in Conns : InTable(c)' => InTable(c)
  BY <1>l, <1>t DEF InTable
<1> QED
  BY <1>t, <1>f, <1>l, <1>3, <1>4, <1>5, OwnedKept

LEMMA AcceptOwned ==
  ASSUME Core, OwnedInv, NEW c \in Conns, NEW fd \in Fds, Accept(c, fd)
  PROVE  OwnedInv'
<1>t. /\ Types /\ PhaseInv /\ LifeInv /\ OwnerTypes /\ queue \in Seq(Tasks)
      /\ live \in SUBSET Conns /\ sessions \in [Fds -> Conns \cup {None}]
      /\ obj \in [Conns -> Objs] /\ sock \in [Conns -> Socks]
  BY DEF Core, Types, OwnerTypes, LoopTypes, DataTypes, KernelTypes
<1>1. /\ live' \subseteq live \cup {c} /\ c \in live' /\ sock[c].sk = "pending"
      /\ sessions' = [sessions EXCEPT ![fd] = c]
  BY <1>t, AcceptIs
<1>2. /\ sock' = [sock EXCEPT ![c].sk = "established"]
      /\ obj' = [obj EXCEPT ![c].fd = fd, ![c].types = {"R", "E"}]
      /\ stopped' = stopped
  BY DEF Accept, ghosts, app
<1>3. /\ sock'[c].sk = "established"
      /\ \A d \in Conns : d # c => sock'[d] = sock[d] /\ obj'[d] = obj[d]
  BY <1>2, <1>t DEF Socks, Objs
<1>4. PICK b, n, e : b = <<Enable(c, StartTypes(c))>> /\ n = {c} /\ e = <<>>
  OBVIOUS
<1>5. StartTypes(c) \in SUBSET EventTypes
  BY DEF StartTypes, EventTypes
<1>6. b \in Seq(Tasks) /\ e \in Seq(Tasks)
  BY <1>4, <1>5, OneTask, TasksAre DEF Watchable
<1>7. n \in SUBSET Conns /\ IsFiniteSet(n)
  BY <1>4, FS_Singleton
<1>8. Settle(b, n, e)
  BY <1>4 DEF Accept
<1>9. /\ \A d \in live' : Referenced(d)'
      /\ \A d \in (live \cup n) \ live' : Plain("unregister", d) \in Elems(queue')
      /\ Elems(queue) \subseteq Elems(queue')
  BY <1>t, <1>6, <1>7, <1>8, Settled
<1>10. \A d \in Conns : IsOpen(sock'[d]) => IsOpen(sock[d]) \/ d \in live'
  BY <1>1, <1>3
<1>11. \A d \in live' \cap stopped' :
         InTable(d)' => d \in live \cap stopped /\ InTable(d)
  <2>1. c \notin stopped
    BY <1>1 DEF OwnedInv, Fresh, Known
  <2> QED
    BY <1>t, <1>1, <1>2, <2>1 DEF InTable
<1>12. \A d \in Conns : ~Known(sock'[d]) => d # c
  BY <1>3 DEF Known
<1> QED
  BY <1>t, <1>2, <1>3, <1>9, <1>10, <1>11, <1>12, OwnedKept

LEMMA BeginOwned ==
  ASSUME Core, OwnedInv, Begin
  PROVE  OwnedInv'
<1>t. /\ PhaseInv /\ live \in SUBSET Conns /\ None \notin Conns
  BY ServerAssumption DEF Core, Types, OwnerTypes
<1>1. /\ UNCHANGED <<server, started, sessions, live, held, obj, queue, heavy, stopped>>
      /\ \A c \in Conns : \/ sock'[c] = sock[c]
                          \/ sock[c].sk = "pending" /\ sock'[c].sk = "closed"
  BY BeginFrame DEF owners
<1>2. cur' = cur \/ cur = None
  BY <1>t DEF Begin, Ignored, Callback, Event, AcceptEnds, AcceptAborted, Goto, io,
              PhaseInv, Shape
<1>3. \A c \in live' : Referenced(c)'
  BY <1>t, <1>1, <1>2 DEF OwnedInv, Sessions, Referenced
<1>4. \A c \in Conns : /\ IsOpen(sock'[c]) => IsOpen(sock[c])
                       /\ ~Known(sock'[c]) => ~Known(sock[c])
  BY <1>1 DEF IsOpen, Known
<1>5. \A c \in Conns : InTable(c)' => InTable(c)
  BY <1>1 DEF InTable
<1> QED
  BY <1>t, <1>1, <1>3, <1>4, <1>5, OwnedKept

\* A phase of a session's callback leaves the other connections alone.
LEMMA SessionOthers ==
  ASSUME Types, Session
  PROVE  /\ \A c \in Conns : c # cur => obj'[c] = obj[c] /\ sock'[c] = sock[c]
         /\ stopped' = stopped \/ stopped' = stopped \cup {cur}
<1>t. obj \in [Conns -> Objs] /\ sock \in [Conns -> Socks]
  BY DEF Types, DataTypes, KernelTypes
<1>1. CASE Read
  BY <1>t, <1>1 DEF Read, ghosts, app
<1>2. CASE Write
  <2>1. \A c \in Conns : c # cur => sock'[c] = sock[c]
    BY <1>t, <1>2 DEF Write, AfterSend
  <2> QED
    BY <1>t, <1>2, <2>1 DEF Write
<1>3. CASE Error
  BY <1>t, <1>3 DEF Error, ClearBuffers
<1>4. CASE Split
  BY <1>t, <1>4 DEF Split, kernel
<1>5. CASE Closed
  BY <1>t, <1>5 DEF Closed, ClearBuffers, kernel
<1> QED
  BY <1>1, <1>2, <1>3, <1>4, <1>5 DEF Session

LEMMA SessionOwned ==
  ASSUME Core, OwnedInv, Session
  PROVE  OwnedInv'
<1>t. /\ Types /\ PhaseInv /\ LifeInv /\ StreamInv /\ queue \in Seq(Tasks)
      /\ live \in SUBSET Conns /\ heavy \in Seq([who : Conns])
  BY DEF Core, Types, OwnerTypes, LoopTypes
<1>1. UNCHANGED <<sessions, live, held>>
  BY <1>t, SessionFrame
<1>2. cur' = cur /\ cur \in Conns
  BY <1>t, SessionPhases
<1>3. PICK c \in Conns : c = cur /\ c \in live /\ IsOpen(sock[c])
  BY <1>t, <1>2 DEF LifeInv, RefInv, FdInv
<1>4. /\ \A d \in Conns : d # c => obj'[d] = obj[d] /\ sock'[d] = sock[d]
      /\ stopped' = stopped \/ stopped' = stopped \cup {c}
  BY <1>t, <1>3, SessionOthers
<1>5. sock'[c].sk = sock[c].sk
  BY <1>t, SessionKeeps DEF Keeps
<1>6. PICK t : Posts(t)
  BY <1>t, SessionPosts
<1>7. \A i \in DOMAIN heavy : i \in DOMAIN heavy' /\ heavy'[i] = heavy[i]
  <2>1. CASE Split
    <3>1. PICK n, more : n = Frames(obj[cur].recv_buf)
                           /\ more = [i \in 1..n |-> [who |-> cur]]
      OBVIOUS
    <3>2. n \in Nat
      <4>1. obj[c] \in Objs /\ FrameLen \in Nat \ {0}
        BY <1>t, ServerAssumption DEF Types, DataTypes
      <4>2. PICK m \in Nat : m = Len(obj[c].recv_buf)
        BY <4>1 DEF Objs
      <4>3. \A a \in Nat, b \in Nat \ {0} : a \div b \in Nat
        OBVIOUS
      <4>4. n = m \div FrameLen
        BY <1>3, <3>1, <4>2 DEF Frames
      <4> QED
        BY <4>1, <4>3, <4>4
    <3>3. more \in Seq([who : Conns])
      <4>1. PICK r \in [who : Conns] : r = [who |-> cur]
        BY <1>2
      <4>2. more = [i \in 1..n |-> r]
        BY <3>1, <4>1
      <4> QED
        BY <3>2, <4>2
    <3>4. heavy' = heavy \o more
      BY <2>1, <3>1 DEF Split
    <3> QED
      BY <1>t, <3>3, <3>4
  <2>2. CASE heavy' = heavy
    BY <2>2
  <2> QED
    BY <2>1, <2>2 DEF Session, Read, Write, Error, Closed
<1>8. \A d \in live' : Referenced(d)'
  BY <1>1, <1>2, <1>7 DEF OwnedInv, Sessions, Referenced
<1>9. c \in stopped' /\ c \notin stopped => Plain("erase", c) \in Elems(queue')
  <2>1. SUFFICES ASSUME c \in stopped', c \notin stopped
                 PROVE  Plain("erase", c) \in Elems(queue')
    OBVIOUS
  <2>2. PICK s : s = StopPosts(c)
    OBVIOUS
  <2>3. s \in Seq(Tasks) /\ Plain("erase", c) \in Elems(s)
    BY <2>2, FarewellIs
  <2>4. Post(s)
    BY <1>3, <2>1, <2>2 DEF Session, Read, Write, Error, Split, Closed, OnSessionError,
                            OnDisconnect, ghosts, app
  <2> QED
    BY <1>t, <2>3, <2>4, PostIs, PostsStay
<1>10. \A d \in Conns : /\ IsOpen(sock'[d]) => IsOpen(sock[d])
                        /\ ~Known(sock'[d]) => d # c
  BY <1>3, <1>4, <1>5 DEF IsOpen, Known
<1>11. \A d \in Conns : InTable(d)' => InTable(d)
  BY <1>1 DEF InTable
<1>12. Elems(queue) \subseteq Elems(queue')
  BY <1>t, <1>6, PostsStay
<1>13. \A d \in live' \cap stopped' :
         InTable(d)' => \/ d \in live \cap stopped /\ InTable(d)
                        \/ Plain("erase", d) \in Elems(queue')
  <2>1. ASSUME NEW d \in live' \cap stopped', InTable(d)'
        PROVE  \/ d \in live \cap stopped /\ InTable(d)
               \/ Plain("erase", d) \in Elems(queue')
    <3>1. d \in live /\ d \in Conns /\ InTable(d)
      BY <1>t, <1>1, <1>11, <2>1
    <3>2. CASE d \in stopped
      BY <3>1, <3>2
    <3>3. CASE d \notin stopped
      <4>1. d = c
        BY <1>4, <2>1, <3>3
      <4> QED
        BY <1>9, <2>1, <3>3, <4>1
    <3> QED
      BY <3>2, <3>3
  <2> QED
    BY <2>1
<1> QED
  BY <1>t, <1>1, <1>4, <1>8, <1>10, <1>12, <1>13, OwnedKept

LEMMA LeaveOwned ==
  ASSUME Core, OwnedInv, Leave
  PROVE  OwnedInv'
<1>t. /\ OwnerTypes /\ queue \in Seq(Tasks) /\ live \in SUBSET Conns /\ None \notin Conns
  BY ServerAssumption DEF Core, Types, OwnerTypes, LoopTypes
<1>1. /\ UNCHANGED <<obj, sock, stopped>>
      /\ Settle(<<>>, {}, <<>>) \/ ServerDies
  BY DEF Leave, kernel, ghosts, app
<1>2. /\ \A c \in live' : Referenced(c)'
      /\ \A c \in live \ live' : Plain("unregister", c) \in Elems(queue')
      /\ Elems(queue) \subseteq Elems(queue')
  BY <1>t, <1>1, SettledNow
<1>3. live' \subseteq live
  BY <1>t, <1>1, JustSettles, DyingServer
<1>4. \A c \in Conns : InTable(c)' => InTable(c)
  BY <1>t DEF Leave, ServerDies, InTable
<1> QED
  BY <1>t, <1>1, <1>2, <1>3, <1>4, OwnedKept

LEMMA NetOwned ==
  ASSUME Core, OwnedInv, NEW c \in Conns, NetAt(c)
  PROVE  OwnedInv'
<1>1. /\ IsOpen(sock'[c]) <=> IsOpen(sock[c])
      /\ Known(sock[c]) => Known(sock'[c])
      /\ \A d \in Conns : d # c => sock'[d] = sock[d]
  BY NetFrame DEF Others
<1>2. UNCHANGED <<sessions, live, held, obj, queue, heavy, cur, stopped>>
  BY NetFrame DEF Network, owners, io, app
<1>3. live \in SUBSET Conns
  BY DEF Core, Types, OwnerTypes
<1>4. \A d \in live' : Referenced(d)'
  BY <1>2 DEF OwnedInv, Sessions, Referenced
<1>5. \A d \in Conns : /\ IsOpen(sock'[d]) => IsOpen(sock[d])
                       /\ ~Known(sock'[d]) => ~Known(sock[d])
  BY <1>1
<1>6. \A d \in Conns : InTable(d)' => InTable(d)
  BY <1>2 DEF InTable
<1> QED
  BY <1>2, <1>3, <1>4, <1>5, <1>6, OwnedKept

LEMMA TaskOwned ==
  ASSUME Core, ServerInv, OwnedInv, RunTask
  PROVE  OwnedInv'
<1>t. /\ Types /\ LifeInv /\ OwnerTypes /\ LoopTypes /\ live \in SUBSET Conns
      /\ sessions \in [Fds -> Conns \cup {None}] /\ None \notin Conns
      /\ obj \in [Conns -> Objs] /\ sock \in [Conns -> Socks]
  BY ServerAssumption DEF Core, Types, OwnerTypes, DataTypes, KernelTypes
<1>1. /\ live' \subseteq live
      /\ \A fd \in Fds : sessions'[fd] # sessions[fd] => sessions'[fd] = None
      /\ UNCHANGED <<server, held, heavy, cur, stopped>>
  BY <1>t, TaskLives
<1>2. \A c \in Conns : sock'[c].sk = sock[c].sk
                         \/ (sock'[c].sk = "closed" /\ c \notin live)
  BY <1>t, TaskFrame
<1>3. ~EraseTask => UNCHANGED <<live, sessions>>
  BY DEF RunTask, EnableTask, DisableTask, UnregisterTask, SendTask, owners
<1>4. Sessions'
  <2>1. CASE EraseTask
    BY <1>t, <2>1, ErasedNow DEF Sessions
  <2>2. CASE ~EraseTask
    BY <1>1, <1>3, <2>2 DEF OwnedInv, Sessions, Referenced
  <2> QED
    BY <2>1, <2>2
<1>5. Served'
  <2>1. SUFFICES ASSUME NEW c \in Conns, IsOpen(sock'[c])
                 PROVE  c \in live' \/ Plain("unregister", c) \in Elems(queue')
    BY DEF Served
  <2>2. IsOpen(sock[c])
    BY <1>2, <2>1 DEF IsOpen
  <2>3. CASE c \in live
    BY <1>t, <1>3, <2>3, ErasedNow
  <2>4. CASE c \notin live
    <3>1. Plain("unregister", c) \in Elems(queue)
      BY <2>2, <2>4 DEF OwnedInv, Served
    <3>2. CASE Plain("unregister", c) = Head(queue)
      <4>1. Head(queue).op = "unregister" /\ Who = c
        BY <3>2 DEF Plain, Who
      <4>2. UnregisterTask
        BY <4>1 DEF RunTask, EnableTask, DisableTask, EraseTask, SendTask, Running
      <4>3. c # Listen
        BY ServerAssumption
      <4>4. PICK closed : closed = IF Who = Listen THEN pending ELSE {Who}
        OBVIOUS
      <4>5. sock' = [d \in Conns |-> IF d \in closed THEN [sock[d] EXCEPT !.sk = "closed"]
                                                     ELSE sock[d]]
        BY <4>2, <4>4 DEF UnregisterTask
      <4>6. c \in closed /\ sock[c] \in Socks
        BY <1>t, <4>1, <4>3, <4>4
      <4>7. sock'[c].sk = "closed"
        BY <4>5, <4>6 DEF Socks
      <4> QED
        BY <2>1, <4>7 DEF IsOpen
    <3> QED
      BY <1>t, <3>1, <3>2, TailStays
  <2> QED
    BY <2>3, <2>4
<1>6. Leaving'
  <2>1. SUFFICES ASSUME NEW c \in live' \cap stopped', NEW fd \in Fds, sessions'[fd] = c
                 PROVE  Plain("erase", c) \in Elems(queue')
    BY DEF Leaving, InTable
  <2>2. /\ c \in live \cap stopped /\ c \in Conns /\ sessions[fd] = c
    BY <1>t, <1>1, <2>1
  <2>3. Plain("erase", c) \in Elems(queue)
    BY <2>2 DEF OwnedInv, Leaving, InTable
  <2>4. CASE Plain("erase", c) = Head(queue)
    <3>1. Head(queue).op = "erase" /\ Who = c
      BY <2>4 DEF Plain, Who
    <3>2. EraseTask
      BY <3>1 DEF RunTask, EnableTask, DisableTask, UnregisterTask, SendTask, Running
    <3>3. server # "gone"
      BY <1>t, <2>2 DEF ServerInv
    <3>4. obj[c].fd = fd
      BY <1>t, <2>2 DEF LifeInv, TableInv
    <3>5. sessions' = [sessions EXCEPT ![fd] = None]
      BY <2>2, <3>1, <3>2, <3>3, <3>4 DEF EraseTask
    <3> QED
      BY <1>t, <2>1, <2>2, <3>5
  <2> QED
    BY <1>t, <2>3, <2>4, TailStays
<1>7. Fresh'
  <2>1. SUFFICES ASSUME NEW c \in Conns, ~Known(sock'[c])
                 PROVE  c \notin stopped' /\ obj'[c].send_buf = <<>>
    BY DEF Fresh
  <2>2. ~Known(sock[c])
    BY <1>2, <2>1 DEF Known
  <2>3. c \notin stopped /\ obj[c].send_buf = <<>>
    BY <2>2 DEF OwnedInv, Fresh
  <2>4. obj'[c] = obj[c]
    <3>1. CASE SendTask
      <4>1. PICK d \in Conns : d = Who /\ Head(queue) \in Elems(queue)
        BY <1>t, <3>1, HeadIs DEF SendTask
      <4>2. Known(sock[d])
        BY <1>t, <4>1 DEF LifeInv, TaskInv, Due, Who
      <4>3. c # d
        BY <2>2, <4>2
      <4> QED
        BY <1>t, <3>1, <4>1, <4>3 DEF SendTask
    <3>2. CASE ~SendTask
      BY <3>2 DEF RunTask, EnableTask, DisableTask, UnregisterTask, EraseTask
    <3> QED
      BY <3>1, <3>2
  <2> QED
    BY <1>1, <2>3, <2>4
<1> QED
  BY <1>4, <1>5, <1>6, <1>7 DEF OwnedInv

LEMMA OwnedStep ==
  ASSUME Core, CallInv, ServerInv, OwnedInv, [Next]_vars
  PROVE  OwnedInv'
<1>1. CASE UserStep
  BY <1>1, UserOwned
<1>2. CASE RunTask
  BY <1>2, TaskOwned
<1>3. CASE Begin
  BY <1>3, BeginOwned
<1>4. CASE \E c \in Conns, fd \in Fds : Accept(c, fd)
  BY <1>4, AcceptOwned
<1>5. CASE Session
  BY <1>5, SessionOwned
<1>6. CASE Leave
  BY <1>6, LeaveOwned
<1>7. CASE \E c \in Conns : NetAt(c)
  BY <1>7, NetOwned
<1>8. CASE UNCHANGED vars
  BY <1>8 DEF OwnedInv, Sessions, Served, Leaving, Fresh, Referenced, InTable, vars, owners,
              io, kernel, ghosts, app
<1> QED
  BY <1>1, <1>2, <1>3, <1>4, <1>5, <1>6, <1>7, <1>8
     DEF Next, IoStep, NetStep, Begin, Session, NetAt, Watchable
-------------------------------------------------------------------------------
(***************************************************************************)
(* The sessions' descriptors: what is to be read or written is going to be *)
(* handled, although every edge is reported once.                          *)
(***************************************************************************)
\* The task sets the event types of the connection; the last one of the queue
\* that does has these types.
Touches(k, c)   == k.who = c /\ k.op \in {"enable", "update"}
Untouched(q, c) == \A i \in DOMAIN q : ~Touches(q[i], c)
LastTouch(q, c, types) ==
  \E i \in DOMAIN q : /\ Touches(q[i], c) /\ q[i].types = types
                      /\ \A j \in DOMAIN q : j > i => ~Touches(q[j], c)

\* The callback of the session is going to run this phase.
InPhase(c, l) == cur = c /\ \E i \in DOMAIN pc : pc[i] = l

\* The connection has ended, by a cause that the handler takes for its end; data
\* waits and the kernel has room for it.
Ended(c)    == sock[c].sk \in {"fin", "dead"} /\ NetErrors \subseteq {"reset"}
Writing(c)  == obj[c].send_buf # <<>> /\ Sending(c) /\ sock[c].room > 0
ReadyR(c)   == Ended(c) => c \in ready \/ InPhase(c, "read") \/ InPhase(c, "closed")
ReadyW(c)   == Writing(c) => c \in ready \/ InPhase(c, "write")

\* The event types of the channel are those of the epoll set, or the last task
\* about it will see to that, and enabling it reports what there is to report.
Awaited(c) == \E k \in Elems(queue) : k.op = "enable" /\ k.who = c
Watched(c) ==
  /\ {"R", "E"} \subseteq obj[c].types
  /\ obj[c].send_buf # <<>> => "W" \in obj[c].types
  /\ entry[c].cb \/ Awaited(c)
  /\ \/ LastTouch(queue, c, obj[c].types)
     \/ /\ Untouched(queue, c) /\ entry[c].mask = obj[c].types
        /\ ReadyR(c) /\ ReadyW(c)
WatchInv == server # "gone" => \A c \in live \ stopped : Watched(c)

LEMMA TouchAppend ==
  ASSUME NEW q \in Seq(Tasks), NEW t \in Seq(Tasks), NEW c,
         \A k \in Elems(t) : ~Touches(k, c)
  PROVE  /\ Untouched(q, c) => Untouched(q \o t, c)
         /\ \A types : LastTouch(q, c, types) => LastTouch(q \o t, c, types)
<1>1. PICK w \in Seq(Tasks), n \in Nat, m \in Nat :
        /\ w = q \o t /\ n = Len(q) /\ m = Len(t)
        /\ Len(w) = n + m /\ DOMAIN w = 1..n + m /\ DOMAIN q = 1..n
        /\ \A i \in 1..n + m : w[i] = IF i <= n THEN q[i] ELSE t[i - n]
  <2>1. /\ q \o t \in Seq(Tasks) /\ Len(q \o t) = Len(q) + Len(t)
        /\ \A i \in 1..Len(q) + Len(t) :
             (q \o t)[i] = IF i <= Len(q) THEN q[i] ELSE t[i - Len(q)]
    BY ConcatProperties
  <2>n. Len(q) \in Nat /\ Len(t) \in Nat /\ DOMAIN q = 1..Len(q)
    OBVIOUS
  <2>2. PICK w \in Seq(Tasks), n \in Nat, m \in Nat :
          w = q \o t /\ n = Len(q) /\ m = Len(t)
    BY <2>1, <2>n
  <2>3. DOMAIN w = 1..Len(w)
    BY <2>2
  <2> QED
    BY <2>1, <2>n, <2>2, <2>3
<1>2. ASSUME NEW i \in 1..n + m, i > n PROVE ~Touches(w[i], c)
  <2>1. PICK j \in 1..m : j = i - n
    <3>1. i - n \in 1..m
      BY <1>2
    <3> QED
      BY <3>1
  <2>2. w[i] = t[j] /\ j \in DOMAIN t
    BY <1>1, <1>2, <2>1
  <2> QED
    BY <2>2 DEF Elems
<1>3. \A i \in 1..n : i \in 1..n + m /\ w[i] = q[i]
  BY <1>1
<1>4. ASSUME NEW types, LastTouch(q, c, types) PROVE LastTouch(w, c, types)
  <2>1. PICK i \in 1..n : /\ Touches(q[i], c) /\ q[i].types = types
                          /\ \A j \in 1..n : j > i => ~Touches(q[j], c)
    BY <1>1, <1>4 DEF LastTouch
  <2>2. \A j \in 1..n + m : j > i => ~Touches(w[j], c)
    BY <1>2, <1>3, <2>1
  <2> QED
    BY <1>1, <1>3, <2>1, <2>2 DEF LastTouch
<1>5. ASSUME Untouched(q, c) PROVE Untouched(w, c)
  BY <1>1, <1>2, <1>3, <1>5 DEF Untouched
<1> QED
  BY <1>1, <1>4, <1>5

LEMMA TouchLast ==
  ASSUME NEW q \in Seq(Tasks), NEW k \in Tasks, NEW c, Touches(k, c)
  PROVE  LastTouch(q \o << k >>, c, k.types)
<1>1. PICK n \in Nat : n = Len(q)
  OBVIOUS
<1>2. PICK w \in Seq(Tasks) : w = q \o << k >>
  BY OneTask, ConcatProperties
<1>3. DOMAIN w = 1..n + 1 /\ w[n + 1] = k
  BY <1>1, <1>2
<1>4. LastTouch(w, c, k.types)
  BY <1>3 DEF LastTouch
<1> QED
  BY <1>2, <1>4

LEMMA TouchTail ==
  ASSUME NEW q \in Seq(Tasks), q # <<>>, NEW c
  PROVE  /\ \A types : LastTouch(q, c, types) =>
              \/ LastTouch(Tail(q), c, types)
              \/ Touches(Head(q), c) /\ Head(q).types = types /\ Untouched(Tail(q), c)
         /\ Untouched(q, c) => Untouched(Tail(q), c) /\ ~Touches(Head(q), c)
<1>1. PICK r \in Seq(Tasks), n \in Nat :
        /\ r = Tail(q) /\ n = Len(r) /\ Len(q) = n + 1
        /\ DOMAIN r = 1..n /\ DOMAIN q = 1..n + 1
        /\ (\A i \in 1..n : r[i] = q[i + 1]) /\ Head(q) = q[1]
  <2>1. /\ Tail(q) \in Seq(Tasks) /\ Len(Tail(q)) = Len(q) - 1 /\ Len(q) \in Nat
        /\ \A i \in 1..Len(Tail(q)) : Tail(q)[i] = q[i + 1]
        /\ Head(q) = q[1] /\ DOMAIN q = 1..Len(q)
    OBVIOUS
  <2>2. PICK r \in Seq(Tasks) : r = Tail(q)
    BY <2>1
  <2>3. PICK n \in Nat : n = Len(r) /\ DOMAIN r = 1..n
    BY <2>2
  <2>4. Len(q) = n + 1
    BY <2>1, <2>2, <2>3
  <2> QED
    BY <2>1, <2>2, <2>3, <2>4
<1>2. \A i \in 1..n : i + 1 \in 1..n + 1
  OBVIOUS
<1>3. ASSUME NEW types, LastTouch(q, c, types)
      PROVE  \/ LastTouch(r, c, types)
             \/ Touches(Head(q), c) /\ Head(q).types = types /\ Untouched(r, c)
  <2>1. PICK i \in 1..n + 1 : /\ Touches(q[i], c) /\ q[i].types = types
                              /\ \A j \in 1..n + 1 : j > i => ~Touches(q[j], c)
    BY <1>1, <1>3 DEF LastTouch
  <2>2. CASE i = 1
    <3>1. \A j \in 1..n : ~Touches(r[j], c)
      BY <1>1, <1>2, <2>1, <2>2
    <3> QED
      BY <1>1, <2>1, <2>2, <3>1 DEF Untouched
  <2>3. CASE i # 1
    <3>1. PICK k \in 1..n : i = k + 1
      <4>1. i - 1 \in 1..n /\ i = (i - 1) + 1
        BY <2>3
      <4> QED
        BY <4>1
    <3>2. Touches(r[k], c) /\ r[k].types = types
      BY <1>1, <2>1, <3>1
    <3>3. \A j \in 1..n : j > k => ~Touches(r[j], c)
      BY <1>1, <1>2, <2>1, <3>1
    <3> QED
      BY <1>1, <3>2, <3>3 DEF LastTouch
  <2> QED
    BY <2>2, <2>3
<1>4. ASSUME Untouched(q, c) PROVE Untouched(r, c) /\ ~Touches(Head(q), c)
  <2>1. 1 \in 1..n + 1
    OBVIOUS
  <2> QED
    BY <1>1, <1>2, <1>4, <2>1 DEF Untouched
<1> QED
  BY <1>1, <1>3, <1>4

\* A step that posts nothing about the event types of the connection.
LEMMA WatchKept ==
  ASSUME queue \in Seq(Tasks), NEW c, Watched(c), NEW t, Posts(t),
         \A k \in Elems(t) : ~Touches(k, c),
         entry'[c] = entry[c], obj'[c].types = obj[c].types,
         obj'[c].send_buf # <<>> => obj[c].send_buf # <<>>,
         Untouched(queue, c) /\ entry[c].mask = obj[c].types /\ ReadyR(c) /\ ReadyW(c) =>
           ReadyR(c)' /\ ReadyW(c)'
  PROVE  Watched(c)'
<1>1. t \in Seq(Tasks) /\ queue' = queue \o t
  BY DEF Posts
<1>2. /\ Untouched(queue, c) => Untouched(queue', c)
      /\ LastTouch(queue, c, obj[c].types) => LastTouch(queue', c, obj[c].types)
  BY <1>1, TouchAppend
<1>3. Awaited(c) => Awaited(c)'
  BY <1>1, PostsStay DEF Awaited
<1> QED
  BY <1>2, <1>3 DEF Watched

\* A step that leaves the connection and its descriptor alone.
LEMMA WatchSame ==
  ASSUME queue \in Seq(Tasks), NEW c, Watched(c), NEW t, Posts(t),
         \A k \in Elems(t) : ~Touches(k, c),
         entry'[c] = entry[c], obj'[c] = obj[c], sock'[c] = sock[c],
         c \in ready => c \in ready',
         \A l \in {"read", "write", "closed"} : InPhase(c, l) => InPhase(c, l)'
  PROVE  Watched(c)'
<1>1. /\ InPhase(c, "read") => InPhase(c, "read")'
      /\ InPhase(c, "write") => InPhase(c, "write")'
      /\ InPhase(c, "closed") => InPhase(c, "closed")'
  OBVIOUS
<1>2. ReadyR(c) => ReadyR(c)'
  BY <1>1 DEF ReadyR, Ended
<1>3. ReadyW(c) => ReadyW(c)'
  BY <1>1 DEF ReadyW, Writing, Sending
<1> QED
  BY <1>2, <1>3, WatchKept

LEMMA UserWatch ==
  ASSUME Core, CallInv, WatchInv, UserStep
  PROVE  WatchInv'
<1>t. /\ Types /\ LifeInv /\ queue \in Seq(Tasks) /\ live \in SUBSET Conns
      /\ Listen \notin Conns /\ obj \in [Conns -> Objs]
  BY ServerAssumption DEF Core, Types, OwnerTypes, LoopTypes, DataTypes
<1>1. SUFFICES ASSUME server' # "gone", NEW c \in live' \ stopped' PROVE Watched(c)'
  BY DEF WatchInv
<1>2. /\ UNCHANGED <<cur, pc, entry, ready, sock>> /\ stopped \subseteq stopped'
  BY <1>t, UserFrame
<1>3. live' \subseteq live /\ (server = "gone" => server' = "gone")
  BY <1>t, UserLives
<1>4. c \in live \ stopped /\ c \in Conns /\ Watched(c)
  BY <1>t, <1>1, <1>2, <1>3 DEF WatchInv
<1>5. PICK t : /\ Posts(t)
               /\ \A k \in Elems(t) :
                     \/ k.who = Listen /\ (server' = "gone" \/ InUse(Listen))
                     \/ /\ k.who \in live /\ k.op # "unregister"
                        /\ k.op \in {"erase", "disable"} => k.who \in stopped'
                        /\ k.op \in {"enable", "update"} => k.who \in stopped
                     \/ \E d \in live \ live' : k \in Bye(d)
  BY <1>t, UserPosts
<1>6. \A k \in Elems(t) : ~Touches(k, c)
  <2>1. \A d, k : k \in Bye(d) => k.op \notin {"enable", "update"}
    BY DEF Bye, Plain
  <2> QED
    BY <1>t, <1>4, <1>5, <2>1 DEF Touches
<1>7. obj'[c] = obj[c]
  <2>1. ASSUME NEW th \in Callers, CallStores(th) PROVE obj'[c] = obj[c]
    <3>1. PICK k : k = Head(call[th])
      OBVIOUS
    <3>2. /\ call[th] # << >> /\ k.op = "store"
          /\ obj' = [obj EXCEPT ![k.who].types = k.types]
      BY <2>1, <3>1 DEF CallStores, Calling
    <3>3. k.who \in stopped
      BY <1>t, <3>1, <3>2, CallIs, FitIs
    <3> QED
      BY <1>t, <1>4, <3>2, <3>3
  <2>2. CASE ~\E th \in Callers : CallStores(th)
    BY <1>t, <2>2 DEF UserStep, Release, RunFragment, SessionStop, PostSend, Drop, CallStep,
                      Start, Stop, SessionStart, Begins, CallSets, CallPosts
  <2> QED
    BY <2>1, <2>2
<1>8. \A l : InPhase(c, l) => InPhase(c, l)'
  BY <1>2 DEF InPhase
<1> QED
  BY <1>t, <1>2, <1>4, <1>5, <1>6, <1>7, <1>8, WatchSame

\* What there is to read or write has its edge, or its phase.
LEMMA EdgeIs ==
  ASSUME Types, NEW c \in Conns, NEW types, {"R", "E"} \subseteq types,
         obj[c].send_buf # <<>> => "W" \in types
  PROVE  /\ Ended(c) => "R" \in Level(c, types)
         /\ Writing(c) => "W" \in Level(c, types)
<1>1. c # Listen
  BY ServerAssumption
<1> QED
  BY <1>1 DEF Ended, Writing, Level, Readable, Writable, Sending

LEMMA BeginWatch ==
  ASSUME Core, WatchInv, Begin
  PROVE  WatchInv'
<1>t. /\ Types /\ PhaseInv /\ LifeInv /\ queue \in Seq(Tasks) /\ live \in SUBSET Conns
      /\ Listen \notin Conns /\ None \notin Conns /\ pc \in Seq(Labels)
      /\ LoopTypes
  BY ServerAssumption DEF Core, Types, OwnerTypes, LoopTypes
<1>1. SUFFICES ASSUME server' # "gone", NEW c \in live' \ stopped' PROVE Watched(c)'
  BY DEF WatchInv
<1>2. /\ UNCHANGED <<server, live, obj, queue, entry, stopped>>
      /\ \A d \in Conns : sock'[d] = sock[d] \/ sock[d].sk = "pending"
  BY BeginFrame DEF owners
<1>3. c \in live \ stopped /\ c \in Conns /\ Watched(c)
  BY <1>t, <1>1, <1>2 DEF WatchInv
<1>4. sock'[c] = sock[c]
  BY <1>t, <1>2, <1>3 DEF LifeInv, FdInv, IsOpen
<1>5. Posts(<<>>)
  BY <1>t, <1>2, Nothing DEF Posts
<1>6. ASSUME NEW x \in Watchable, x # c, Ignored(x) \/ Callback(x) PROVE Watched(c)'
  <2>1. pc = <<>> /\ ready' = ready \ {x}
    BY <1>6 DEF Ignored, Callback, Event
  <2>2. \A l : ~InPhase(c, l)
    BY <2>1 DEF InPhase
  <2>3. c \in ready => c \in ready'
    BY <1>6, <2>1
  <2> QED
    BY <1>t, <1>2, <1>3, <1>4, <1>5, <2>2, <2>3, Nothing, WatchSame
<1>7. ASSUME Untouched(queue, c) PROVE entry[c].cb
  <2>1. ~Awaited(c)
    BY <1>7 DEF Awaited, Untouched, Touches, Elems
  <2> QED
    BY <1>3, <2>1 DEF Watched
<1>8. ASSUME Ignored(c) PROVE Watched(c)'
  <2>1. SUFFICES ASSUME Untouched(queue, c), entry[c].mask = obj[c].types
                 PROVE  ReadyR(c)' /\ ReadyW(c)'
    BY <1>t, <1>2, <1>3, <1>5, Nothing, WatchKept
  <2>2. Level(c, obj[c].types) = {}
    BY <1>t, <1>1, <1>2, <1>3, <1>7, <1>8, <2>1 DEF Ignored
  <2>3. ~Ended(c) /\ ~Writing(c)
    BY <1>t, <1>3, <2>2, EdgeIs DEF Watched
  <2> QED
    BY <1>2, <1>4, <2>3 DEF ReadyR, ReadyW, Ended, Writing, Sending
<1>9. ASSUME Callback(c) PROVE Watched(c)'
  <2>1. SUFFICES ASSUME Untouched(queue, c), entry[c].mask = obj[c].types
                 PROVE  ReadyR(c)' /\ ReadyW(c)'
    BY <1>t, <1>2, <1>3, <1>5, Nothing, WatchKept
  <2>2. PICK types : types = Level(c, obj[c].types)
    OBVIOUS
  <2>3. PICK r, w, e : /\ r = IF "R" \in types THEN <<"read">> ELSE <<>>
                       /\ w = IF "W" \in types THEN <<"write">> ELSE <<>>
                       /\ e = IF "E" \in types THEN <<"error">> ELSE <<>>
    OBVIOUS
  <2>4. PICK z : z = <<"split", "leave">>
    OBVIOUS
  <2>5. pc' = r \o w \o e \o z /\ cur' = c
    BY <1>t, <1>3, <1>9, <2>1, <2>2, <2>3, <2>4 DEF Callback
  <2>6. r \in Seq(Labels) /\ w \in Seq(Labels) /\ e \in Seq(Labels) /\ z \in Seq(Labels)
    <3>1. /\ <<"read">> \in Seq(Labels) /\ <<"write">> \in Seq(Labels)
          /\ <<"error">> \in Seq(Labels) /\ <<"split", "leave">> \in Seq(Labels)
          /\ <<>> \in Seq(Labels)
      BY DEF Labels, Phases
    <3> QED
      BY <2>3, <2>4, <3>1
  <2>7. Elems(pc') = ((Elems(r) \cup Elems(w)) \cup Elems(e)) \cup Elems(z)
    <3>1. PICK a : a = r \o w
      OBVIOUS
    <3>2. a \in Seq(Labels) /\ Elems(a) = Elems(r) \cup Elems(w)
      BY <2>6, <3>1, ElemsConcat
    <3>3. PICK b : b = a \o e
      OBVIOUS
    <3>4. b \in Seq(Labels) /\ Elems(b) = Elems(a) \cup Elems(e)
      BY <2>6, <3>2, <3>3, ElemsConcat
    <3>5. Elems(b \o z) = Elems(b) \cup Elems(z)
      BY <2>6, <3>4, ElemsConcat
    <3> QED
      BY <2>5, <3>1, <3>2, <3>3, <3>4, <3>5
  <2>8. /\ "R" \in types => "read" \in Elems(pc')
        /\ "W" \in types => "write" \in Elems(pc')
    <3>1. Elems(<<"read">>) = {"read"} /\ Elems(<<"write">>) = {"write"}
      BY ElemsFew
    <3> QED
      BY <2>3, <2>7, <3>1
  <2>9. /\ "read" \in Elems(pc') => InPhase(c, "read")'
        /\ "write" \in Elems(pc') => InPhase(c, "write")'
    BY <2>5 DEF InPhase, Elems
  <2>10. /\ Ended(c) => "R" \in types
         /\ Writing(c) => "W" \in types
    BY <1>t, <1>3, <2>2, EdgeIs DEF Watched
  <2>11. (Ended(c)' => Ended(c)) /\ (Writing(c)' => Writing(c))
    BY <1>2, <1>4 DEF Ended, Writing, Sending
  <2> QED
    BY <2>8, <2>9, <2>10, <2>11 DEF ReadyR, ReadyW
<1>10. CASE AcceptEnds \/ \E d \in Conns : AcceptAborted(d)
  <2>1. At("accept") /\ ready' = ready
    BY <1>10 DEF AcceptEnds, AcceptAborted, kernel
  <2>2. cur = Listen
    BY <1>t, <2>1, AtIs
  <2>3. \A l : ~InPhase(c, l)
    BY <1>t, <1>3, <2>2 DEF InPhase
  <2> QED
    BY <1>t, <1>2, <1>3, <1>4, <1>5, <2>1, <2>3, Nothing, WatchSame
<1> QED
  BY <1>6, <1>8, <1>9, <1>10 DEF Begin

LEMMA AcceptWatch ==
  ASSUME Core, OwnedInv, WatchInv, NEW c \in Conns, NEW fd \in Fds, Accept(c, fd)
  PROVE  WatchInv'
<1>t. /\ Types /\ PhaseInv /\ LifeInv /\ OwnerTypes /\ queue \in Seq(Tasks)
      /\ live \in SUBSET Conns /\ Listen \notin Conns /\ LoopTypes
      /\ obj \in [Conns -> Objs] /\ sock \in [Conns -> Socks]
  BY ServerAssumption DEF Core, Types, OwnerTypes, LoopTypes, DataTypes, KernelTypes
<1>1. SUFFICES ASSUME server' # "gone", NEW d \in live' \ stopped' PROVE Watched(d)'
  BY DEF WatchInv
<1>2. /\ live' \subseteq live \cup {c} /\ c \notin live /\ sock[c].sk = "pending"
  BY <1>t, AcceptIs
<1>3. /\ sock' = [sock EXCEPT ![c].sk = "established"]
      /\ obj' = [obj EXCEPT ![c].fd = fd, ![c].types = {"R", "E"}]
      /\ UNCHANGED <<server, entry, ready, stopped>> /\ At("accept")
  BY DEF Accept, ghosts, app
<1>4. CASE d # c
  <2>1. d \in live \ stopped /\ d \in Conns /\ Watched(d)
    BY <1>t, <1>1, <1>2, <1>3, <1>4 DEF WatchInv
  <2>2. PICK t : /\ Posts(t)
                 /\ \A k \in Elems(t) : \/ k.who = c /\ k.op = "enable"
                                        \/ \E e \in live \ live' : k \in Bye(e)
    BY <1>t, AcceptIs
  <2>3. \A e, k : k \in Bye(e) => k.op \notin {"enable", "update"}
    BY DEF Bye, Plain
  <2>4. \A k \in Elems(t) : ~Touches(k, d)
    BY <1>4, <2>2, <2>3 DEF Touches
  <2>5. obj'[d] = obj[d] /\ sock'[d] = sock[d]
    BY <1>t, <1>3, <1>4, <2>1
  <2>6. \A l : ~InPhase(d, l)
    BY <1>t, <1>3, <2>1, AtIs DEF InPhase
  <2> QED
    BY <1>t, <1>3, <2>1, <2>2, <2>4, <2>5, <2>6, WatchSame
<1>5. CASE d = c
  <2>1. obj[c].send_buf = <<>>
    BY <1>2 DEF OwnedInv, Fresh, Known
  <2>2. obj'[c].types = {"R", "E"} /\ obj'[c].send_buf = <<>>
    BY <1>t, <1>3, <2>1 DEF Objs
  <2>3. PICK k : k = Enable(c, {"R", "E"})
    OBVIOUS
  <2>4. k \in Tasks /\ k.op = "enable" /\ k.who = c /\ k.types = {"R", "E"}
    BY <2>3 DEF Tasks, Enable, Watchable, EventTypes
  <2>5. PICK b : b = <<k>>
    OBVIOUS
  <2>6. b \in Seq(Tasks) /\ Elems(b) = {k}
    BY <2>4, <2>5, OneTask
  <2>7. Settle(b, {c}, <<>>)
    BY <2>1, <2>3, <2>5 DEF Accept, StartTypes
  <2>8. PICK n, e : n = {c} /\ e = <<>>
    OBVIOUS
  <2>s. n \in SUBSET Conns /\ IsFiniteSet(n) /\ e \in Seq(Tasks) /\ Settle(b, n, e)
    BY <2>7, <2>8, FS_Singleton, Nothing
  <2>e. \E f \in Seq(Tasks) :
            /\ queue' = queue \o b \o f \o e
            /\ \A j \in Elems(f) : \E x \in (live \cup n) \ live' : j \in Bye(x)
    <3>1. OwnerTypes /\ queue \in Seq(Tasks) /\ b \in Seq(Tasks)
      BY <1>t, <2>6
    <3> QED
      BY ONLY <3>1, <2>s, SettleIs
  <2>9. PICK f \in Seq(Tasks) :
            /\ queue' = queue \o b \o f \o e
            /\ \A j \in Elems(f) : \E x \in (live \cup n) \ live' : j \in Bye(x)
    BY <2>e
  <2>10. PICK a : a = queue \o b
    OBVIOUS
  <2>11. a \in Seq(Tasks) /\ k \in Elems(a)
    BY <1>t, <2>6, <2>10, ElemsConcat
  <2>12. LastTouch(a, c, {"R", "E"})
    <3>1. Touches(k, c)
      BY <2>4 DEF Touches
    <3>2. LastTouch(queue \o <<k>>, c, k.types)
      BY <1>t, <2>4, <3>1, TouchLast
    <3> QED
      BY <2>4, <2>5, <2>10, <3>2
  <2>13. queue' = a \o f
    BY <2>8, <2>9, <2>10, <2>11
  <2>14. \A j \in Elems(f) : ~Touches(j, c)
    BY <2>9 DEF Touches, Bye, Plain
  <2>15. LastTouch(queue', c, {"R", "E"})
    BY <2>9, <2>11, <2>12, <2>13, <2>14, TouchAppend
  <2>16. Awaited(c)'
    <3>1. k \in Elems(queue')
      BY <2>9, <2>11, <2>13, ElemsConcat
    <3> QED
      BY <2>4, <3>1 DEF Awaited
  <2> QED
    BY <1>5, <2>2, <2>15, <2>16 DEF Watched
<1> QED
  BY <1>4, <1>5

LEMMA LeaveWatch ==
  ASSUME Core, WatchInv, Leave
  PROVE  WatchInv'
<1>t. /\ Types /\ PhaseInv /\ LifeInv /\ OwnerTypes /\ queue \in Seq(Tasks)
      /\ live \in SUBSET Conns /\ Listen \notin Conns /\ LoopTypes /\ pc \in Seq(Labels)
  BY ServerAssumption DEF Core, Types, OwnerTypes, LoopTypes
<1>1. SUFFICES ASSUME server' # "gone", NEW c \in live' \ stopped' PROVE Watched(c)'
  BY DEF WatchInv
<1>2. UNCHANGED <<server, obj, entry, ready, sock, stopped>>
      /\ Settle(<<>>, {}, <<>>)
  BY <1>1 DEF Leave, ServerDies, kernel, ghosts, app
<1>3. /\ live' \subseteq live
      /\ \E f \in Seq(Tasks) :
           /\ queue' = queue \o f
           /\ \A k \in Elems(f) : \E d \in live \ live' : k \in Bye(d)
  BY <1>t, <1>2, JustSettles
<1>4. PICK f \in Seq(Tasks) :
           /\ queue' = queue \o f
           /\ \A k \in Elems(f) : \E d \in live \ live' : k \in Bye(d)
  BY <1>3
<1>5. \A k \in Elems(f) : ~Touches(k, c)
  BY <1>4 DEF Touches, Bye, Plain
<1>6. Posts(f)
  BY <1>4 DEF Posts
<1>7. \A l \in {"read", "write", "closed"} : ~InPhase(c, l)
  <2>1. pc # <<>> /\ pc[1] = "leave" /\ 1 \in DOMAIN pc
    BY <1>t DEF Leave, At
  <2>2. Shape(cur, pc)
    BY <1>t DEF PhaseInv
  <2>3. PICK n \in Nat : n = Len(pc)
    BY <1>t
  <2>4. n = 1
    BY <2>1, <2>2, <2>3 DEF Shape
  <2>5. DOMAIN pc = {1}
    <3>1. DOMAIN pc = 1..n
      BY <1>t, <2>3
    <3>2. 1..1 = {1}
      OBVIOUS
    <3> QED
      BY <2>4, <3>1, <3>2
  <2> QED
    BY <2>1, <2>5 DEF InPhase
<1>8. c \in live \ stopped /\ Watched(c)
  BY <1>1, <1>2, <1>3 DEF WatchInv
<1> QED
  BY <1>t, <1>2, <1>5, <1>6, <1>7, <1>8, WatchSame

LEMMA NetWatch ==
  ASSUME Core, WatchInv, NEW c \in Conns, NetAt(c)
  PROVE  WatchInv'
<1>t. /\ Types /\ LifeInv /\ queue \in Seq(Tasks) /\ live \in SUBSET Conns
      /\ sock \in [Conns -> Socks]
  BY DEF Core, Types, OwnerTypes, LoopTypes, KernelTypes
<1>1. SUFFICES ASSUME server' # "gone", NEW d \in live' \ stopped' PROVE Watched(d)'
  BY DEF WatchInv
<1>2. /\ UNCHANGED <<server, live, obj, queue, cur, pc, entry, stopped>>
      /\ ready \subseteq ready' /\ \A x \in Conns : x # c => sock'[x] = sock[x]
  BY NetFrame DEF Network, owners, io, app, Others
<1>3. d \in live \ stopped /\ d \in Conns /\ Watched(d) /\ IsOpen(sock[d])
  BY <1>t, <1>1, <1>2 DEF WatchInv, LifeInv, FdInv
<1>4. Posts(<<>>)
  BY <1>t, <1>2, Nothing DEF Posts
<1>5. \A l : InPhase(d, l) => InPhase(d, l)'
  BY <1>2 DEF InPhase
<1>6. CASE d # c
  BY <1>t, <1>2, <1>3, <1>4, <1>5, <1>6, Nothing, WatchSame
<1>7. CASE d = c
  <2>1. SUFFICES ASSUME Untouched(queue, c), entry[c].mask = obj[c].types,
                        ReadyR(c), ReadyW(c)
                 PROVE  ReadyR(c)' /\ ReadyW(c)'
    BY <1>t, <1>2, <1>3, <1>4, <1>7, Nothing, WatchKept
  <2>2. /\ {"R", "E"} \subseteq entry[c].mask /\ entry[c].mask # {}
        /\ obj[c].send_buf # <<>> => "W" \in entry[c].mask
    BY <1>3, <1>7, <2>1 DEF Watched
  <2>3. PICK s \in Socks : s = sock[c]
    BY <1>t
  <2>4. CASE Connect(c)
    BY <1>3, <1>7, <2>4 DEF Connect, IsOpen
  <2>5. CASE PeerSends(c)
    <3>1. sock'[c].sk = s.sk /\ sock'[c].room = s.room
      BY <1>t, <2>3, <2>5 DEF PeerSends, Socks
    <3> QED
      BY <1>2, <1>5, <1>7, <2>1, <2>3, <3>1 DEF ReadyR, ReadyW, Ended, Writing, Sending
  <2>6. CASE PeerCloses(c) \/ \E e \in NetErrors : Breaks(c, e)
    <3>1. c \in ready'
      BY <2>2, <2>6 DEF PeerCloses, Breaks, Signal
    <3> QED
      BY <3>1 DEF ReadyR, ReadyW
  <2>7. CASE Drain(c)
    <3>1. sock' = [sock EXCEPT ![c].room = Room] /\ s.sk \in {"established", "fin"}
          /\ ready' = IF s.room = 0 /\ "W" \in entry[c].mask THEN ready \cup {c} ELSE ready
      BY <2>3, <2>7 DEF Drain, Signal
    <3>2. sock'[c].sk = s.sk
      BY <1>t, <2>3, <3>1 DEF Socks
    <3>3. ReadyR(c)'
      BY <1>2, <1>5, <1>7, <2>1, <2>3, <3>2 DEF ReadyR, Ended
    <3>4. ReadyW(c)'
      <4>1. SUFFICES ASSUME obj[c].send_buf # <<>>
                     PROVE  c \in ready' \/ InPhase(c, "write")'
        BY <1>2 DEF ReadyW, Writing
      <4>2. CASE s.room = 0
        BY <2>2, <3>1, <4>1, <4>2
      <4>3. CASE s.room # 0
        <5>1. s.room > 0
          <6>1. s.room \in 0..Room /\ Room \in Nat
            BY ServerAssumption DEF Socks
          <6> QED
            BY <4>3, <6>1
        <5>2. Writing(c)
          BY <2>3, <3>1, <4>1, <5>1 DEF Writing, Sending
        <5> QED
          BY <1>2, <1>5, <1>7, <2>1, <5>2 DEF ReadyW
      <4> QED
        BY <4>2, <4>3
    <3> QED
      BY <3>3, <3>4
  <2> QED
    BY <2>4, <2>5, <2>6, <2>7 DEF NetAt
<1> QED
  BY <1>6, <1>7

\* What the callback still has to do, and then the end of the session.
LEMMA ClosingEnd ==
  ASSUME NEW x \in Seq(Labels), NEW m \in Nat, Len(x) = m
  PROVE  \E w \in Seq(Labels) :
           /\ w = x \o <<"closed", "leave">> /\ Len(w) = m + 2 /\ DOMAIN w = 1..m + 2
           /\ (\A i \in 1..m : w[i] = x[i]) /\ w[m + 1] = "closed"
<1>1. PICK e : e = <<"closed", "leave">>
  OBVIOUS
<1>2. e \in Seq(Labels) /\ Len(e) = 2 /\ e[1] = "closed"
  BY <1>1 DEF Labels, Phases
<1>3. /\ x \o e \in Seq(Labels) /\ Len(x \o e) = Len(x) + Len(e)
      /\ \A i \in 1..Len(x) + Len(e) :
           (x \o e)[i] = IF i <= Len(x) THEN x[i] ELSE e[i - Len(x)]
  BY <1>2, ConcatProperties
<1>4. PICK w : w = x \o e
  OBVIOUS
<1>5. /\ w \in Seq(Labels) /\ Len(w) = m + 2
      /\ \A i \in 1..m + 2 : w[i] = IF i <= m THEN x[i] ELSE e[i - m]
  BY <1>2, <1>3, <1>4
<1>6. m + 1 \in 1..m + 2 /\ ~(m + 1 <= m) /\ (m + 1) - m = 1
  OBVIOUS
<1>7. w[m + 1] = "closed"
  BY <1>2, <1>5, <1>6
<1>8. \A i \in 1..m : i \in 1..m + 2 /\ i <= m
  OBVIOUS
<1>9. DOMAIN w = 1..m + 2
  BY <1>5
<1> QED
  BY <1>1, <1>4, <1>5, <1>7, <1>8, <1>9

\* A phase ends: the others remain, and a session whose connection has ended is
\* going to be closed.
LEMMA PhaseKept ==
  ASSUME LoopTypes, PhaseInv, NEW l \in Phases, At(l), Goto(<<>>) \/ Disconnected
  PROVE  /\ \A k \in Phases : k # l /\ InPhase(cur, k) => InPhase(cur, k)'
         /\ Disconnected => InPhase(cur, "closed")'
<1>1. PICK rest \in Seq(Labels), n \in Nat :
        /\ rest = Tail(pc) /\ n = Len(rest) /\ n > 0 /\ Len(pc) = n + 1
        /\ DOMAIN rest = 1..n /\ DOMAIN pc = 1..n + 1
        /\ \A i \in 1..n : rest[i] = pc[i + 1]
  <2>1. /\ Tail(pc) \in Seq(Labels) /\ Len(Tail(pc)) = Len(pc) - 1 /\ Len(pc) > 1
        /\ \A i \in 1..Len(pc) - 1 : Tail(pc)[i] = pc[i + 1]
        /\ Len(pc) \in Nat /\ DOMAIN pc = 1..Len(pc)
    BY AtIs DEF LoopTypes, Phases
  <2>2. PICK rest \in Seq(Labels), k \in Nat : rest = Tail(pc) /\ k = Len(pc)
    BY <2>1
  <2>n. k - 1 \in Nat
    BY <2>1, <2>2
  <2>3. PICK n \in Nat : n = k - 1
    BY <2>n
  <2>4. /\ n = Len(rest) /\ n > 0 /\ Len(pc) = n + 1 /\ DOMAIN pc = 1..n + 1
        /\ DOMAIN rest = 1..n /\ \A i \in 1..n : rest[i] = pc[i + 1]
    BY <2>1, <2>2, <2>3
  <2> QED
    BY <2>2, <2>4
<1>2. pc[1] = l /\ rest[n] = "leave"
  <2>1. pc \in Seq(Labels) /\ pc # <<>> /\ pc[1] = l
    BY DEF LoopTypes, At
  <2>2. \A i \in 1..n + 1 : pc[i] = "leave" <=> i = n + 1
    BY <1>1 DEF PhaseInv, Shape
  <2>3. n + 1 \in 1..n + 1 /\ n \in 1..n
    BY <1>1
  <2> QED
    BY <1>1, <2>1, <2>2, <2>3
<1>3. cur' = cur /\ (pc' = rest \/ Disconnected)
  BY <1>1 DEF Goto, Disconnected
<1>4. ASSUME NEW k \in Phases, k # l, InPhase(cur, k) PROVE \E i \in 1..n : rest[i] = k
  <2>1. PICK i \in 1..n + 1 : pc[i] = k
    BY <1>1, <1>4 DEF InPhase
  <2>2. i # 1
    BY <1>2, <1>4, <2>1
  <2>3. PICK j \in 1..n : i = j + 1
    <3>1. i - 1 \in 1..n /\ i = (i - 1) + 1
      BY <2>2
    <3> QED
      BY <3>1
  <2> QED
    BY <1>1, <2>1, <2>3
<1>5. CASE pc' = rest
  <2>1. \A k \in Phases : (\E i \in 1..n : rest[i] = k) => InPhase(cur, k)'
    BY <1>1, <1>3, <1>5 DEF InPhase
  <2>2. ASSUME Disconnected PROVE \E i \in 1..n : rest[i] = "closed"
    <3>1. SUFFICES ASSUME ~(\E i \in DOMAIN rest : rest[i] = "closed") PROVE FALSE
      BY <1>1
    <3>2. PICK m \in Nat : m = n - 1
      <4>1. n - 1 \in Nat
        BY <1>1
      <4> QED
        BY <4>1
    <3>3. PICK x : x = SubSeq(rest, 1, m)
      OBVIOUS
    <3>4. x \in Seq(Labels) /\ Len(x) = m
      BY <1>1, <3>2, <3>3
    <3>5. pc' = x \o <<"closed", "leave">>
      BY <1>1, <2>2, <3>1, <3>2, <3>3 DEF Disconnected
    <3>6. Len(pc') = m + 2
      BY <3>4, <3>5, ClosingEnd
    <3> QED
      BY <1>1, <1>5, <3>2, <3>6
  <2> QED
    BY <1>4, <2>1, <2>2 DEF Phases
<1>6. CASE Disconnected /\ pc' # rest
  <2>1. PICK m \in Nat : m = n - 1
    <3>1. n - 1 \in Nat
      BY <1>1
    <3> QED
      BY <3>1
  <2>2. PICK x : x = SubSeq(rest, 1, m)
    OBVIOUS
  <2>3. x \in Seq(Labels) /\ Len(x) = m /\ \A i \in 1..m : x[i] = rest[i]
    BY <1>1, <2>1, <2>2
  <2>4. pc' = x \o <<"closed", "leave">>
    BY <1>1, <1>6, <2>1, <2>2 DEF Disconnected
  <2>5. PICK w \in Seq(Labels) :
           /\ w = x \o <<"closed", "leave">> /\ Len(w) = m + 2 /\ DOMAIN w = 1..m + 2
           /\ (\A i \in 1..m : w[i] = x[i]) /\ w[m + 1] = "closed"
    BY <2>3, ClosingEnd
  <2>7. /\ DOMAIN pc' = 1..m + 2 /\ \A i \in 1..m : pc'[i] = rest[i]
        /\ pc'[m + 1] = "closed"
    BY <2>3, <2>4, <2>5
  <2>8. InPhase(cur, "closed")'
    <3>1. m + 1 \in 1..m + 2
      OBVIOUS
    <3> QED
      BY <1>3, <2>7, <3>1 DEF InPhase
  <2>9. ASSUME NEW k \in Phases, k # l, InPhase(cur, k) PROVE InPhase(cur, k)'
    <3>1. PICK i \in 1..n : rest[i] = k
      BY <1>4, <2>9
    <3>2. i # n
      BY <1>2, <3>1 DEF Phases
    <3>3. i \in 1..m /\ i \in 1..m + 2
      BY <2>1, <3>2
    <3> QED
      BY <1>3, <2>7, <3>1, <3>3 DEF InPhase
  <2> QED
    BY <2>8, <2>9
<1> QED
  BY <1>3, <1>5, <1>6

LEMMA PhasesAre ==
  /\ {"read", "write", "error", "split", "closed"} \subseteq Phases
  /\ "read" # "write" /\ "read" # "error" /\ "read" # "split" /\ "read" # "closed"
  /\ "write" # "error" /\ "write" # "split" /\ "write" # "closed"
  /\ "closed" # "error" /\ "closed" # "split"
  BY DEF Phases

LEMMA PhasesStay ==
  ASSUME LoopTypes, PhaseInv, NEW c, c = cur, NEW l \in Phases, At(l),
         Goto(<<>>) \/ Disconnected
  PROVE  /\ l # "read" /\ InPhase(c, "read") => InPhase(c, "read")'
         /\ l # "write" /\ InPhase(c, "write") => InPhase(c, "write")'
         /\ l # "closed" /\ InPhase(c, "closed") => InPhase(c, "closed")'
         /\ Disconnected => InPhase(c, "closed")'
<1>1. PICK r, w, d : r = "read" /\ w = "write" /\ d = "closed"
  OBVIOUS
<1>2. r \in Phases /\ w \in Phases /\ d \in Phases
  BY <1>1 DEF Phases
<1>3. /\ \A k \in Phases : k # l /\ InPhase(cur, k) => InPhase(cur, k)'
      /\ Disconnected => InPhase(cur, "closed")'
  BY PhaseKept
<1>4. cur' = cur
  BY DEF Goto, Disconnected
<1>5. \A k : InPhase(cur, k) = InPhase(c, k) /\ InPhase(cur, k)' = InPhase(c, k)'
  BY <1>4 DEF InPhase
<1>6. /\ l # r /\ InPhase(c, r) => InPhase(c, r)'
      /\ l # w /\ InPhase(c, w) => InPhase(c, w)'
      /\ l # d /\ InPhase(c, d) => InPhase(c, d)'
      /\ Disconnected => InPhase(c, d)'
  BY <1>1, <1>2, <1>3, <1>5
<1> QED
  BY <1>1, <1>6

\* Nothing is left over unless the kernel's buffer is full.
LEMMA RestIs ==
  ASSUME NEW c \in Conns, NEW units \in Seq(Messages), sock[c].room \in Nat
  PROVE  Rest(c, units) # <<>> => Accepted(c, units) = sock[c].room
<1>1. PICK n \in Nat : n = Len(units)
  OBVIOUS
<1>2. CASE n < sock[c].room
  <2>1. Accepted(c, units) = n
    BY <1>1, <1>2 DEF Accepted
  <2>2. Rest(c, units) = SubSeq(units, n + 1, n)
    BY <1>1, <2>1 DEF Rest
  <2>3. SubSeq(units, n + 1, n) = <<>>
    BY <1>1
  <2> QED
    BY <2>2, <2>3
<1>3. CASE ~(n < sock[c].room)
  BY <1>1, <1>3 DEF Accepted
<1> QED
  BY <1>2, <1>3

\* What the phases post is about their session, and only Write sets event types.
LEMMA SessionTasks ==
  ASSUME Types, PhaseInv, LifeInv, StreamInv, Session
  PROVE  \E t : /\ Posts(t)
                /\ \A k \in Elems(t) :
                     /\ k.who = cur
                     /\ k.op \in {"enable", "update"} => Write /\ Sending(cur)
<1>t. queue \in Seq(Tasks) /\ obj \in [Conns -> Objs]
  BY DEF Types, LoopTypes, DataTypes
<1>0. ASSUME queue' = queue PROVE Posts(<<>>)
  BY <1>0, <1>t, Nothing DEF Posts
<1>1. PICK c \in Conns : c = cur
  BY SessionPhases
<1>2. CASE Post(StopPosts(cur))
  <2>1. PICK s : s = StopPosts(c)
    OBVIOUS
  <2>2. s \in Seq(Tasks) /\ Elems(s) = {Plain("disable", c), Plain("erase", c)}
    BY <2>1, FarewellIs
  <2>3. Posts(s)
    BY <1>1, <1>2, <2>1, <2>2, PostIs
  <2> QED
    BY <1>1, <2>2, <2>3 DEF Plain
<1>3. CASE Write /\ Sending(cur)
  <2>1. PICK types : types = obj[c].types \ {"W"}
    OBVIOUS
  <2>2. types \in SUBSET EventTypes
    <3>1. obj[c] \in Objs
      BY <1>t
    <3> QED
      BY <2>1, <3>1 DEF Objs
  <2>3. PICK b : b = <<Update(c, types)>>
    OBVIOUS
  <2>4. b \in Seq(Tasks) /\ Elems(b) = {Update(c, types)}
    BY <2>2, <2>3, OneTask, TasksAre DEF Watchable
  <2>5. Post(b) \/ Post(<<>>)
    BY <1>1, <1>3, <2>1, <2>3 DEF Write
  <2>6. CASE Post(b)
    <3>1. Posts(b)
      BY <2>4, <2>6, PostIs
    <3>2. \A k \in Elems(b) : k.who = cur
      BY <1>1, <2>4 DEF Update
    <3> QED
      BY <1>3, <3>1, <3>2
  <2>7. CASE Post(<<>>)
    BY <2>7, Nothing, PostIs
  <2> QED
    BY <2>5, <2>6, <2>7
<1>4. queue' = queue \/ Post(StopPosts(cur)) \/ (Write /\ Sending(cur))
  BY DEF Session, Read, Write, Error, Split, Closed, OnSessionError, OnDisconnect
<1> QED
  BY <1>0, <1>2, <1>3, <1>4, Nothing

LEMMA SessionWatch ==
  ASSUME Core, WatchInv, Session
  PROVE  WatchInv'
<1>t. /\ Types /\ PhaseInv /\ LifeInv /\ StreamInv /\ queue \in Seq(Tasks)
      /\ live \in SUBSET Conns /\ LoopTypes /\ obj \in [Conns -> Objs]
      /\ sock \in [Conns -> Socks]
  BY DEF Core, Types, OwnerTypes, LoopTypes, DataTypes, KernelTypes
<1>1. SUFFICES ASSUME server' # "gone", NEW c \in live' \ stopped' PROVE Watched(c)'
  BY DEF WatchInv
<1>2. UNCHANGED <<server, live, entry, ready>> /\ stopped \subseteq stopped'
  BY <1>t, SessionFrame
<1>3. cur' = cur /\ cur \in Conns
  BY <1>t, SessionPhases
<1>4. c \in live \ stopped /\ c \in Conns /\ Watched(c)
  BY <1>t, <1>1, <1>2 DEF WatchInv
<1>5. PICK t : /\ Posts(t)
               /\ \A k \in Elems(t) :
                     /\ k.who = cur
                     /\ k.op \in {"enable", "update"} => Write /\ Sending(cur)
  BY <1>t, SessionTasks
<1>6. CASE c # cur
  <2>1. obj'[c] = obj[c] /\ sock'[c] = sock[c]
    BY <1>t, <1>4, <1>6, SessionOthers
  <2>2. \A l : ~InPhase(c, l)
    BY <1>6 DEF InPhase
  <2>3. \A k \in Elems(t) : ~Touches(k, c)
    BY <1>5, <1>6 DEF Touches
  <2> QED
    BY <1>t, <1>2, <1>4, <1>5, <2>1, <2>2, <2>3, WatchSame
<1>7. ASSUME c = cur, ~(Write /\ Sending(cur)) PROVE \A k \in Elems(t) : ~Touches(k, c)
  BY <1>5, <1>7 DEF Touches
<1>p. PICK o \in Objs, s \in Socks : o = obj[c] /\ s = sock[c]
  BY <1>t, <1>4
<1>8. ASSUME c = cur, Read PROVE Watched(c)'
  <2>1. /\ obj'[c].types = obj[c].types /\ obj'[c].send_buf = obj[c].send_buf
        /\ sock'[c].sk = s.sk /\ sock'[c].room = s.room
    <3>1. sock' = [sock EXCEPT ![c].inbox = <<>>, ![c].err = None]
      BY <1>8 DEF Read
    <3>2. \E buf : obj' = [obj EXCEPT ![c].recv_buf = buf]
      BY <1>8 DEF Read
    <3> QED
      BY <1>t, <1>4, <1>p, <3>1, <3>2 DEF Objs, Socks
  <2>2. At("read") /\ (Goto(<<>>) \/ Disconnected)
    BY <1>8 DEF Read
  <2>3. /\ InPhase(c, "write") => InPhase(c, "write")'
        /\ Disconnected => InPhase(c, "closed")'
    <3>1. PICK l \in Phases : l = "read"
      BY PhasesAre
    <3>2. At(l) /\ (Goto(<<>>) \/ Disconnected)
      BY <2>2, <3>1
    <3>3. /\ l # "read" /\ InPhase(c, "read") => InPhase(c, "read")'
          /\ l # "write" /\ InPhase(c, "write") => InPhase(c, "write")'
          /\ l # "closed" /\ InPhase(c, "closed") => InPhase(c, "closed")'
          /\ Disconnected => InPhase(c, "closed")'
      BY <1>t, <1>8, <3>2, PhasesStay
    <3> QED
      BY <3>1, <3>3, PhasesAre
  <2>4. Ended(c)' => Disconnected
    <3>1. SUFFICES ASSUME s.sk \in {"fin", "dead"}, NetErrors \subseteq {"reset"}
                   PROVE  Disconnected
      BY <2>1 DEF Ended
    <3>2. EndOfStream(c)
      BY <1>p, <3>1 DEF EndOfStream, Socks
    <3>3. sock[cur].sk # "established"
      BY <1>8, <1>p, <3>1
    <3> QED
      BY <1>8, <3>2, <3>3 DEF Read
  <2>5. ReadyR(c)'
    BY <2>3, <2>4 DEF ReadyR
  <2>6. ReadyW(c) => ReadyW(c)'
    BY <1>2, <1>p, <2>1, <2>3 DEF ReadyW, Writing, Sending
  <2>7. ~Write
    BY <1>8 DEF Read, Write, At
  <2> QED
    BY <1>t, <1>2, <1>4, <1>5, <1>7, <1>8, <2>1, <2>5, <2>6, <2>7, WatchKept
<1>9. ASSUME c = cur, Write, ~Sending(c) PROVE Watched(c)'
  <2>1. /\ obj'[c].types = obj[c].types /\ obj'[c].send_buf = obj[c].send_buf
        /\ sock'[c].sk = s.sk
    <3>1. sock' = [sock EXCEPT ![c].err = None]
      BY <1>9 DEF Write, AfterSend
    <3>2. obj' = obj \/ obj' = [obj EXCEPT ![c].recv_buf = <<>>]
      BY <1>9 DEF Write
    <3> QED
      BY <1>t, <1>4, <1>p, <3>1, <3>2 DEF Objs, Socks
  <2>2. At("write") /\ (Goto(<<>>) \/ Disconnected)
    BY <1>9 DEF Write
  <2>3. /\ InPhase(c, "read") => InPhase(c, "read")'
        /\ InPhase(c, "closed") => InPhase(c, "closed")'
    <3>1. PICK l \in Phases : l = "write"
      BY PhasesAre
    <3>2. At(l) /\ (Goto(<<>>) \/ Disconnected)
      BY <2>2, <3>1
    <3>3. /\ l # "read" /\ InPhase(c, "read") => InPhase(c, "read")'
          /\ l # "write" /\ InPhase(c, "write") => InPhase(c, "write")'
          /\ l # "closed" /\ InPhase(c, "closed") => InPhase(c, "closed")'
          /\ Disconnected => InPhase(c, "closed")'
      BY <1>t, <1>9, <3>2, PhasesStay
    <3> QED
      BY <3>1, <3>3, PhasesAre
  <2>4. ReadyR(c) => ReadyR(c)'
    BY <1>2, <1>p, <2>1, <2>3 DEF ReadyR, Ended
  <2>5. ReadyW(c)'
    BY <1>9, <1>p, <2>1 DEF ReadyW, Writing, Sending
  <2> QED
    BY <1>t, <1>2, <1>4, <1>5, <1>7, <1>9, <2>1, <2>4, <2>5, WatchKept
<1>10. ASSUME c = cur, Write, Sending(c) PROVE Watched(c)'
  <2>1. PICK units \in Seq(Messages) : units = o.send_buf
    BY DEF Objs
  <2>2. PICK rest : rest = Rest(c, units)
    OBVIOUS
  <2>3. PICK types : types = o.types \ {"W"}
    OBVIOUS
  <2>4. /\ obj' = [obj EXCEPT ![c].send_buf = rest,
                     ![c].types = IF rest = <<>> THEN types ELSE @]
        /\ Goto(<<>>)
        /\ Post(IF rest = <<>> THEN <<Update(c, types)>> ELSE <<>>)
        /\ At("write") /\ sock' = AfterSend(c, units)
    BY <1>10, <1>p, <2>1, <2>2, <2>3 DEF Write
  <2>5. CASE rest = <<>>
    <3>1. obj'[c].types = types /\ obj'[c].send_buf = <<>>
      BY <1>t, <1>4, <2>4, <2>5 DEF Objs
    <3>2. {"R", "E"} \subseteq types /\ types \in SUBSET EventTypes
      BY <1>4, <1>p, <2>3 DEF Watched, Objs
    <3>3. PICK k : k = Update(c, types)
      OBVIOUS
    <3>4. k \in Tasks /\ Touches(k, c) /\ k.types = types
      BY <1>4, <3>2, <3>3, TasksAre DEF Update, Touches, Watchable
    <3>5. queue' = queue \o <<k>>
      BY <2>4, <2>5, <3>3 DEF Post
    <3>6. LastTouch(queue', c, types)
      BY <1>t, <3>4, <3>5, TouchLast
    <3>7. Awaited(c) => Awaited(c)'
      BY <1>t, <1>5, PostsStay DEF Awaited
    <3> QED
      BY <1>2, <1>4, <3>1, <3>2, <3>6, <3>7 DEF Watched
  <2>6. CASE rest # <<>>
    <3>1. obj'[c].types = obj[c].types
      BY <1>t, <1>4, <2>4, <2>6 DEF Objs
    <3>2. obj[c].send_buf # <<>>
      <4>1. SUFFICES ASSUME units = <<>> PROVE FALSE
        BY <1>p, <2>1
      <4>2. s.room \in 0..Room /\ Room \in Nat
        BY ServerAssumption DEF Socks
      <4>3. Rest(c, <<>>) = <<>>
        <5>1. Len(<<>>) = 0
          OBVIOUS
        <5>2. Accepted(c, <<>>) = 0
          BY <1>p, <4>2, <5>1 DEF Accepted
        <5>3. SubSeq(<<>>, 0 + 1, 0) = <<>>
          OBVIOUS
        <5> QED
          BY <5>1, <5>2, <5>3 DEF Rest
      <4> QED
        BY <2>2, <2>6, <4>1, <4>3
    <3>3. sock'[c].room = 0 /\ sock'[c].sk = s.sk
      <4>1. s.room \in Nat
        <5>1. s.room \in 0..Room /\ Room \in Nat
          BY ServerAssumption DEF Socks
        <5> QED
          BY <5>1
      <4>2. Accepted(c, units) = s.room
        BY <1>4, <1>p, <2>2, <2>6, <4>1, RestIs
      <4>3. sock' = [sock EXCEPT ![c].room = @ - Accepted(c, units)]
        BY <1>10, <2>4 DEF AfterSend
      <4>4. sock'[c] = [s EXCEPT !.room = s.room - s.room]
        BY <1>t, <1>4, <1>p, <4>2, <4>3
      <4>5. s.room - s.room = 0
        BY <4>1
      <4> QED
        BY <4>4, <4>5 DEF Socks
    <3>4. Posts(<<>>)
      BY <2>4, <2>6, Nothing, PostIs
    <3>5. /\ InPhase(c, "read") => InPhase(c, "read")'
          /\ InPhase(c, "closed") => InPhase(c, "closed")'
      <4>1. PICK l \in Phases : l = "write"
        BY PhasesAre
      <4>2. At(l) /\ (Goto(<<>>) \/ Disconnected)
        BY <2>4, <4>1
      <4>3. /\ l # "read" /\ InPhase(c, "read") => InPhase(c, "read")'
            /\ l # "write" /\ InPhase(c, "write") => InPhase(c, "write")'
            /\ l # "closed" /\ InPhase(c, "closed") => InPhase(c, "closed")'
            /\ Disconnected => InPhase(c, "closed")'
        BY <1>t, <1>10, <4>2, PhasesStay
      <4> QED
        BY <4>1, <4>3, PhasesAre
    <3>6. ReadyR(c) => ReadyR(c)'
      BY <1>2, <1>p, <3>3, <3>5 DEF ReadyR, Ended
    <3>7. ReadyW(c)'
      <4>1. ~(sock'[c].room > 0)
        BY <3>3
      <4> QED
        BY <4>1 DEF ReadyW, Writing
    <3> QED
      BY <1>t, <1>2, <1>4, <3>1, <3>2, <3>4, <3>6, <3>7, Nothing, WatchKept
  <2> QED
    BY <2>5, <2>6
<1>11. ASSUME c = cur, Error PROVE Watched(c)'
  <2>1. sock[cur].err \in {None, "reset"}
    BY <1>1, <1>11 DEF Error
  <2>2. /\ obj' = obj /\ At("error") /\ (Goto(<<>>) \/ Disconnected)
        /\ sock' = [sock EXCEPT ![c].err = None]
    BY <1>11, <2>1 DEF Error
  <2>3. sock'[c].sk = s.sk /\ sock'[c].room = s.room
    BY <1>t, <1>4, <1>p, <2>2 DEF Socks
  <2>4. /\ InPhase(c, "read") => InPhase(c, "read")'
        /\ InPhase(c, "write") => InPhase(c, "write")'
        /\ InPhase(c, "closed") => InPhase(c, "closed")'
    <3>1. PICK l \in Phases : l = "error"
      BY PhasesAre
    <3>2. At(l) /\ (Goto(<<>>) \/ Disconnected)
      BY <2>2, <3>1
    <3>3. /\ l # "read" /\ InPhase(c, "read") => InPhase(c, "read")'
          /\ l # "write" /\ InPhase(c, "write") => InPhase(c, "write")'
          /\ l # "closed" /\ InPhase(c, "closed") => InPhase(c, "closed")'
          /\ Disconnected => InPhase(c, "closed")'
      BY <1>t, <1>11, <3>2, PhasesStay
    <3> QED
      BY <3>1, <3>3, PhasesAre
  <2>5. ReadyR(c) => ReadyR(c)'
    BY <1>2, <1>p, <2>3, <2>4 DEF ReadyR, Ended
  <2>6. ReadyW(c) => ReadyW(c)'
    BY <1>2, <1>p, <2>2, <2>3, <2>4 DEF ReadyW, Writing, Sending
  <2>7. ~Write
    BY <2>2 DEF Write, At
  <2> QED
    BY <1>t, <1>2, <1>4, <1>5, <1>7, <1>11, <2>2, <2>5, <2>6, <2>7, WatchKept
<1>12. ASSUME c = cur, Split PROVE Watched(c)'
  <2>1. sock' = sock /\ At("split") /\ Goto(<<>>)
        /\ obj' = [obj EXCEPT ![c].recv_buf = Unsplit(obj[c].recv_buf)]
    BY <1>12 DEF Split, kernel
  <2>2. obj'[c].types = obj[c].types /\ obj'[c].send_buf = obj[c].send_buf
    BY <1>t, <1>4, <2>1 DEF Objs
  <2>3. /\ InPhase(c, "read") => InPhase(c, "read")'
        /\ InPhase(c, "write") => InPhase(c, "write")'
        /\ InPhase(c, "closed") => InPhase(c, "closed")'
    <3>1. PICK l \in Phases : l = "split"
      BY PhasesAre
    <3>2. At(l) /\ (Goto(<<>>) \/ Disconnected)
      BY <2>1, <3>1
    <3>3. /\ l # "read" /\ InPhase(c, "read") => InPhase(c, "read")'
          /\ l # "write" /\ InPhase(c, "write") => InPhase(c, "write")'
          /\ l # "closed" /\ InPhase(c, "closed") => InPhase(c, "closed")'
          /\ Disconnected => InPhase(c, "closed")'
      BY <1>t, <1>12, <3>2, PhasesStay
    <3> QED
      BY <3>1, <3>3, PhasesAre
  <2>4. ReadyR(c) => ReadyR(c)'
    BY <1>2, <2>1, <2>3 DEF ReadyR, Ended
  <2>5. ReadyW(c) => ReadyW(c)'
    BY <1>2, <2>1, <2>2, <2>3 DEF ReadyW, Writing, Sending
  <2>6. ~Write
    BY <2>1 DEF Write, At
  <2> QED
    BY <1>t, <1>2, <1>4, <1>5, <1>7, <1>12, <2>2, <2>4, <2>5, <2>6, WatchKept
<1>13. ~(c = cur /\ Closed)
  BY <1>1 DEF Closed
<1> QED
  BY <1>6, <1>8, <1>9, <1>10, <1>11, <1>12, <1>13 DEF Session

\* A task about something else.
LEMMA TaskPassed ==
  ASSUME queue \in Seq(Tasks), NEW c, Watched(c), NEW t, Runs(t),
         ~Touches(Head(queue), c), \A k \in Elems(t) : ~Touches(k, c),
         entry'[c] = entry[c], obj'[c].types = obj[c].types,
         obj'[c].send_buf # <<>> => "W" \in obj[c].types,
         entry[c].mask = obj[c].types /\ ReadyR(c) /\ ReadyW(c) => ReadyR(c)' /\ ReadyW(c)'
  PROVE  Watched(c)'
<1>1. PICK r : r = Tail(queue)
  OBVIOUS
<1>2. /\ t \in Seq(Tasks) /\ queue # <<>> /\ queue' = r \o t
      /\ r \in Seq(Tasks)
  BY <1>1, ElemsTail DEF Runs
<1>3. /\ Untouched(queue, c) => Untouched(r, c)
      /\ LastTouch(queue, c, obj[c].types) => LastTouch(r, c, obj[c].types)
  BY <1>1, <1>2, TouchTail
<1>4. /\ Untouched(r, c) => Untouched(queue', c)
      /\ LastTouch(r, c, obj[c].types) => LastTouch(queue', c, obj[c].types)
  BY <1>2, TouchAppend
<1>5. Awaited(c) => Awaited(c)'
  <2>1. SUFFICES ASSUME NEW k \in Elems(queue), k.op = "enable", k.who = c
                 PROVE  \E j \in Elems(queue') : j.op = "enable" /\ j.who = c
    BY DEF Awaited
  <2>2. k # Head(queue)
    BY <2>1 DEF Touches
  <2>3. k \in Elems(r)
    BY <1>1, <1>2, <2>2, ElemsHead
  <2>4. k \in Elems(queue')
    BY <1>2, <2>3, ElemsConcat
  <2> QED
    BY <2>1, <2>4
<1> QED
  BY <1>3, <1>4, <1>5 DEF Watched

\* Between two callbacks no phase is left.
LEMMA NoPhase ==
  ASSUME pc = <<>>, UNCHANGED <<cur, pc>>, NEW c
  PROVE  \A l : ~InPhase(c, l) /\ ~InPhase(c, l)'
<1>1. DOMAIN pc = {}
  OBVIOUS
<1> QED
  BY <1>1 DEF InPhase

LEMMA EnableWatch ==
  ASSUME Core, NEW c \in live \ stopped, Watched(c), EnableTask
  PROVE  Watched(c)'
<1>t. /\ Types /\ LoopTypes /\ queue \in Seq(Tasks) /\ c \in Conns
      /\ entry \in [Watchable -> Entries] /\ c \in Watchable
  BY DEF Core, Types, OwnerTypes, LoopTypes, Watchable
<1>1. PICK h, r : h = Head(queue) /\ r = Tail(queue)
  OBVIOUS
<1>2. PICK types : types = h.types
  OBVIOUS
<1>3. /\ pc = <<>> /\ queue # <<>> /\ h.op \in {"enable", "update"}
      /\ r \in Seq(Tasks)
  BY <1>t, <1>1, HeadIs DEF EnableTask
<1>4. /\ entry' = [entry EXCEPT ![h.who].mask = types, ![h.who].cb = @ \/ Running("enable")]
      /\ ready' = IF Level(h.who, types) # {} THEN ready \cup {h.who} ELSE ready
      /\ queue' = r /\ UNCHANGED <<obj, cur, pc, sock>>
  BY <1>1, <1>2 DEF EnableTask, Who, io
<1>5. Runs(<<>>)
  <2>1. r \o <<>> = r
    BY <1>3
  <2> QED
    BY <1>1, <1>3, <1>4, <2>1, Nothing DEF Runs
<1>6. CASE h.who # c
  <2>1. entry'[c] = entry[c] /\ (c \in ready => c \in ready')
    BY <1>t, <1>4, <1>6
  <2>2. ~Touches(Head(queue), c)
    BY <1>1, <1>6 DEF Touches
  <2>3. (ReadyR(c) => ReadyR(c)') /\ (ReadyW(c) => ReadyW(c)')
    BY <1>3, <1>4, <2>1, NoPhase DEF ReadyR, ReadyW, Ended, Writing, Sending
  <2>4. obj'[c].send_buf # <<>> => "W" \in obj[c].types
    BY <1>4 DEF Watched
  <2> QED
    BY <1>t, <1>4, <1>5, <2>1, <2>2, <2>3, <2>4, Nothing, TaskPassed
<1>7. CASE h.who = c
  <2>1. Touches(h, c)
    BY <1>3, <1>7 DEF Touches
  <2>2. LastTouch(r, c, obj[c].types) \/ (types = obj[c].types /\ Untouched(r, c))
    <3>1. LastTouch(queue, c, obj[c].types)
      BY <1>t, <1>1, <1>3, <2>1, TouchTail DEF Watched
    <3> QED
      BY <1>t, <1>1, <1>2, <1>3, <3>1, TouchTail
  <2>3. entry'[c].mask = types /\ entry'[c].cb = (entry[c].cb \/ h.op = "enable")
    <3>1. PICK e \in Entries : e = entry[c]
      BY <1>t
    <3>2. Running("enable") <=> h.op = "enable"
      BY <1>1, <1>3 DEF Running
    <3>3. entry'[c] = [e EXCEPT !.mask = types, !.cb = e.cb \/ Running("enable")]
      BY <1>t, <1>4, <1>7, <3>1
    <3>4. entry'[c].cb = (e.cb \/ Running("enable")) /\ entry'[c].mask = types
      BY <3>3 DEF Entries
    <3> QED
      BY <3>1, <3>2, <3>4
  <2>4. entry'[c].cb \/ Awaited(c)'
    <3>1. SUFFICES ASSUME h.op # "enable", Awaited(c) PROVE Awaited(c)'
      BY <2>3 DEF Watched
    <3>2. PICK k \in Elems(queue) : k.op = "enable" /\ k.who = c
      BY <3>1 DEF Awaited
    <3>3. k \in Elems(queue')
      BY <1>t, <1>1, <1>3, <1>4, <3>1, <3>2, ElemsHead
    <3> QED
      BY <3>2, <3>3 DEF Awaited
  <2>5. CASE LastTouch(r, c, obj[c].types)
    BY <1>4, <2>4, <2>5 DEF Watched
  <2>6. CASE types = obj[c].types /\ Untouched(r, c)
    <3>1. /\ Ended(c) => "R" \in Level(c, types)
          /\ Writing(c) => "W" \in Level(c, types)
      BY <1>t, <2>6, EdgeIs DEF Watched
    <3>2. Ended(c) \/ Writing(c) => c \in ready'
      BY <1>4, <1>7, <3>1
    <3>3. ReadyR(c)' /\ ReadyW(c)'
      BY <1>4, <3>2 DEF ReadyR, ReadyW, Ended, Writing, Sending
    <3> QED
      BY <1>4, <2>3, <2>4, <2>6, <3>3 DEF Watched
  <2> QED
    BY <2>2, <2>5, <2>6
<1> QED
  BY <1>6, <1>7

\* A session that exists and was not stopped is neither disabled nor closed.
LEMMA ForgetWatch ==
  ASSUME Core, NEW c \in live \ stopped, Watched(c),
         DisableTask \/ UnregisterTask \/ EraseTask
  PROVE  Watched(c)'
<1>t. /\ Types /\ LifeInv /\ LoopTypes /\ queue \in Seq(Tasks) /\ c \in Conns
      /\ entry \in [Watchable -> Entries] /\ c \in Watchable /\ RunTask
      /\ sock \in [Conns -> Socks]
  BY DEF Core, Types, OwnerTypes, LoopTypes, KernelTypes, Watchable, RunTask
<1>1. PICK h : h = Head(queue)
  OBVIOUS
<1>2. pc = <<>> /\ h \in Elems(queue) /\ h.op \in {"disable", "unregister", "erase"}
  BY <1>t, <1>1, HeadIs DEF DisableTask, UnregisterTask, EraseTask
<1>3. h.who # c
  BY <1>t, <1>2 DEF LifeInv, TaskInv, Due
<1>4. ~Touches(h, c)
  BY <1>2 DEF Touches
<1>5. PICK t : /\ Runs(t)
               /\ \A k \in Elems(t) : ~Touches(k, c)
  <2>1. CASE EraseTask
    <3>1. PICK f \in Seq(Tasks) : /\ queue' = Tail(queue) \o f
                                  /\ \A k \in Elems(f) : \E d \in live \ live' : k \in Bye(d)
      BY <1>t, <2>1, EraseIs DEF Types
    <3>2. \A k \in Elems(f) : ~Touches(k, c)
      BY <3>1 DEF Touches, Bye, Plain
    <3>3. queue # <<>>
      BY <2>1 DEF EraseTask, Running
    <3> QED
      BY <1>2, <3>1, <3>2, <3>3 DEF Runs
  <2>2. CASE DisableTask \/ UnregisterTask
    <3>1. queue # <<>> /\ queue' = Tail(queue)
      BY <2>2 DEF DisableTask, UnregisterTask, Running
    <3>2. PICK r \in Seq(Tasks) : r = Tail(queue)
      BY <1>t, <3>1, ElemsTail
    <3>3. r \o <<>> = r
      OBVIOUS
    <3>4. Runs(<<>>)
      BY <1>2, <3>1, <3>2, <3>3, Nothing DEF Runs
    <3> QED
      BY <3>4, Nothing
  <2> QED
    BY <2>1, <2>2
<1>6. entry'[c] = entry[c] /\ (c \in ready => c \in ready') /\ UNCHANGED <<obj, cur, pc>>
  <2>1. CASE DisableTask \/ UnregisterTask
    BY <1>t, <1>1, <1>3, <2>1 DEF DisableTask, UnregisterTask, Forget, Who, io
  <2>2. CASE EraseTask
    BY <2>2 DEF EraseTask, kernel, io
  <2> QED
    BY <2>1, <2>2
<1>7. sock'[c] = sock[c]
  <2>1. CASE UnregisterTask
    <3>1. c \notin pending
      BY <1>t DEF LifeInv, FdInv, IsOpen
    <3> QED
      BY <1>t, <1>1, <1>3, <2>1, <3>1 DEF UnregisterTask, Who
  <2>2. CASE DisableTask \/ EraseTask
    BY <2>2 DEF DisableTask, EraseTask, kernel
  <2> QED
    BY <2>1, <2>2
<1>8. (ReadyR(c) => ReadyR(c)') /\ (ReadyW(c) => ReadyW(c)')
  BY <1>2, <1>6, <1>7, NoPhase DEF ReadyR, ReadyW, Ended, Writing, Sending
<1>9. obj'[c].send_buf # <<>> => "W" \in obj[c].types
  BY <1>6 DEF Watched
<1> QED
  BY <1>t, <1>1, <1>4, <1>5, <1>6, <1>8, <1>9, TaskPassed

\* A send task asks for the write event when something is left.
LEMMA SendWatch ==
  ASSUME Core, server # "gone", NEW c \in live \ stopped, Watched(c), SendTask
  PROVE  Watched(c)'
<1>t. /\ Types /\ LoopTypes /\ queue \in Seq(Tasks) /\ c \in Conns
      /\ obj \in [Conns -> Objs] /\ sock \in [Conns -> Socks]
  BY DEF Core, Types, OwnerTypes, LoopTypes, DataTypes, KernelTypes
<1>1. PICK h, r, d : h = Head(queue) /\ r = Tail(queue) /\ d = Who
  OBVIOUS
<1>2. /\ pc = <<>> /\ queue # <<>> /\ h.op = "send" /\ r \in Seq(Tasks)
      /\ d \in Conns /\ h.msg \in Messages
  BY <1>t, <1>1, HeadIs DEF SendTask
<1>3. ~Touches(h, c) /\ ~Touches(Head(queue), c)
  BY <1>1, <1>2 DEF Touches
<1>4. UNCHANGED <<cur, pc, entry, ready>>
  BY DEF SendTask, io
<1>5. ASSUME queue' = r PROVE Runs(<<>>)
  <2>1. r \o <<>> = r
    BY <1>2
  <2> QED
    BY <1>1, <1>2, <1>5, <2>1, Nothing DEF Runs
<1>6. PICK units, rest : units = Units(h.msg) /\ rest = Rest(d, units)
  OBVIOUS
<1>7. units \in Seq(Messages) /\ rest \in Seq(Messages)
  <2>1. units \in Seq(Messages)
    <3>1. \A m \in Messages : Units(m) \in Seq(Messages)
      BY DEF Units
    <3> QED
      BY <1>2, <1>6, <3>1
  <2> QED
    BY <1>t, <1>2, <1>6, <2>1, SendTakes
<1>8. PICK o \in Objs, s \in Socks : o = obj[d] /\ s = sock[d]
  BY <1>t, <1>2
<1>9. PICK types \in SUBSET EventTypes : types = o.types \cup {"W"}
  BY DEF Objs, EventTypes
<1>10. \/ queue' = r
       \/ rest # <<>> /\ queue' = r \o <<Update(d, types)>>
  <2>1. rest = <<>> => r \o AwaitWritable(d, rest) = r
    BY <1>2 DEF AwaitWritable
  <2>2. rest # <<>> => AwaitWritable(d, rest) = <<Update(d, types)>>
    BY <1>8, <1>9 DEF AwaitWritable
  <2> QED
    BY <1>1, <1>6, <2>1, <2>2 DEF SendTask
<1>11. PICK k : k = Update(d, types)
  OBVIOUS
<1>12. k \in Tasks /\ k.op = "update" /\ k.who = d /\ k.types = types
  BY <1>2, <1>9, <1>11, TasksAre DEF Update, Watchable
<1>13. CASE d # c
  <2>1. obj'[c] = obj[c] /\ sock'[c] = sock[c]
    BY <1>t, <1>1, <1>13 DEF SendTask, AfterSend
  <2>2. PICK t : Runs(t) /\ \A j \in Elems(t) : ~Touches(j, c)
    <3>1. CASE queue' = r
      BY <1>5, <3>1, Nothing
    <3>2. CASE queue' = r \o <<k>>
      <4>1. PICK b : b = <<k>>
        OBVIOUS
      <4>2. b \in Seq(Tasks) /\ Elems(b) = {k}
        BY <1>12, <4>1, OneTask
      <4>3. Runs(b)
        BY <1>1, <1>2, <3>2, <4>1, <4>2 DEF Runs
      <4> QED
        BY <1>12, <1>13, <4>2, <4>3 DEF Touches
    <3> QED
      BY <1>10, <1>11, <3>1, <3>2
  <2>3. (ReadyR(c) => ReadyR(c)') /\ (ReadyW(c) => ReadyW(c)')
    BY <1>2, <1>4, <2>1, NoPhase DEF ReadyR, ReadyW, Ended, Writing, Sending
  <2>4. obj'[c].send_buf # <<>> => "W" \in obj[c].types
    BY <2>1 DEF Watched
  <2> QED
    BY <1>t, <1>3, <1>4, <2>1, <2>2, <2>3, <2>4, TaskPassed
<1>14. ASSUME d = c, queue' = r,
              obj'[c].types = obj[c].types,
              obj'[c].send_buf # <<>> => "W" \in obj[c].types,
              sock'[c].sk = s.sk,
              Writing(c)' => Writing(c)
       PROVE  Watched(c)'
  <2>1. (ReadyR(c) => ReadyR(c)') /\ (ReadyW(c) => ReadyW(c)')
    BY <1>2, <1>4, <1>8, <1>14, NoPhase DEF ReadyR, ReadyW, Ended
  <2>2. Runs(<<>>) /\ \A j \in Elems(<<>>) : ~Touches(j, c)
    BY <1>5, <1>14, Nothing
  <2> QED
    BY <1>t, <1>3, <1>4, <1>14, <2>1, <2>2, TaskPassed
<1>15. CASE d = c /\ MustQueue(c)
  <2>1. /\ obj' = [obj EXCEPT ![c].send_buf = @ \o units]
        /\ queue' = r /\ sock' = sock
    BY <1>t, <1>1, <1>6, <1>15 DEF SendTask
  <2>2. obj'[c].types = obj[c].types /\ obj[c].send_buf # <<>>
    BY <1>t, <1>15, <2>1 DEF Objs, MustQueue
  <2>3. "W" \in obj[c].types
    BY <2>2 DEF Watched
  <2>4. Writing(c)' => Writing(c)
    BY <2>1, <2>2 DEF Writing, Sending
  <2> QED
    BY <1>8, <1>14, <1>15, <2>1, <2>2, <2>3, <2>4
<1>16. CASE d = c /\ ~MustQueue(c) /\ Sending(c) /\ rest = <<>>
  <2>1. /\ sock' = AfterSend(c, units)
        /\ obj' = [obj EXCEPT ![c].send_buf = @ \o rest, ![c].types = @]
    BY <1>t, <1>1, <1>6, <1>16 DEF SendTask
  <2>2. queue' = r
    <3>1. queue' = r \o AwaitWritable(c, rest)
      BY <1>t, <1>1, <1>6, <1>16 DEF SendTask
    <3>2. AwaitWritable(c, rest) = <<>>
      BY <1>16 DEF AwaitWritable
    <3>3. r \o <<>> = r
      BY <1>2
    <3> QED
      BY <3>1, <3>2, <3>3
  <2>3. obj'[c].types = obj[c].types /\ obj'[c].send_buf = <<>>
    BY <1>t, <1>16, <2>1 DEF Objs, MustQueue
  <2>4. sock'[c].sk = s.sk
    BY <1>t, <1>8, <1>16, <2>1 DEF AfterSend, Socks
  <2>5. ~Writing(c)'
    BY <2>3 DEF Writing
  <2> QED
    BY <1>14, <1>16, <2>2, <2>3, <2>4, <2>5
<1>17. CASE d = c /\ ~MustQueue(c) /\ Sending(c) /\ rest # <<>>
  <2>1. obj' = [obj EXCEPT ![c].send_buf = @ \o rest, ![c].types = @ \cup {"W"}]
    BY <1>t, <1>1, <1>6, <1>17 DEF SendTask
  <2>2. queue' = r \o AwaitWritable(c, rest)
    BY <1>t, <1>1, <1>6, <1>17 DEF SendTask
  <2>3. queue' = r \o <<k>>
    BY <1>8, <1>9, <1>11, <1>17, <2>2 DEF AwaitWritable
  <2>4. obj'[c].types = types
    BY <1>t, <1>8, <1>9, <1>17, <2>1 DEF Objs
  <2>5. {"R", "E"} \subseteq types /\ "W" \in types
    BY <1>8, <1>9, <1>17 DEF Watched
  <2>6. LastTouch(queue', c, types)
    <3>1. Touches(k, c)
      BY <1>12, <1>17 DEF Touches
    <3> QED
      BY <1>2, <1>12, <2>3, <3>1, TouchLast
  <2>7. Awaited(c) => Awaited(c)'
    <3>1. SUFFICES ASSUME NEW j \in Elems(queue), j.op = "enable", j.who = c
                   PROVE  \E i \in Elems(queue') : i.op = "enable" /\ i.who = c
      BY DEF Awaited
    <3>2. j \in Elems(r)
      <4>1. j # Head(queue)
        BY <1>1, <1>2, <3>1
      <4> QED
        BY <1>t, <1>1, <1>2, <4>1, ElemsHead
    <3>3. j \in Elems(queue')
      <4>1. PICK b : b = <<k>>
        OBVIOUS
      <4>2. b \in Seq(Tasks)
        BY <1>12, <4>1, OneTask
      <4>3. Elems(r \o b) = Elems(r) \cup Elems(b)
        BY <1>2, <4>2, ElemsConcat
      <4> QED
        BY <2>3, <3>2, <4>1, <4>3
    <3> QED
      BY <3>1, <3>3
  <2> QED
    BY <1>4, <2>4, <2>5, <2>6, <2>7 DEF Watched
<1>18. CASE d = c /\ ~MustQueue(c) /\ ~Sending(c)
  <2>1. sock' = AfterSend(c, units) /\ queue' = r /\ obj' = obj
    BY <1>t, <1>1, <1>6, <1>18 DEF SendTask
  <2>2. sock'[c].sk = s.sk
    BY <1>t, <1>8, <1>18, <2>1 DEF AfterSend, Socks
  <2>3. ~Writing(c)'
    BY <1>8, <1>18, <2>2 DEF Writing, Sending
  <2>4. obj'[c].send_buf # <<>> => "W" \in obj[c].types
    BY <2>1 DEF Watched
  <2> QED
    BY <1>14, <1>18, <2>1, <2>2, <2>3, <2>4
<1> QED
  BY <1>13, <1>15, <1>16, <1>17, <1>18

LEMMA TaskWatch ==
  ASSUME Core, WatchInv, RunTask
  PROVE  WatchInv'
<1>1. SUFFICES ASSUME server' # "gone", NEW c \in live' \ stopped' PROVE Watched(c)'
  BY DEF WatchInv
<1>2. UNCHANGED <<server, stopped>> /\ live' \subseteq live
  BY TaskLives DEF Core
<1>3. server # "gone" /\ c \in live \ stopped /\ Watched(c)
  BY <1>1, <1>2 DEF WatchInv
<1>4. CASE EnableTask
  BY <1>3, <1>4, EnableWatch
<1>5. CASE DisableTask \/ UnregisterTask \/ EraseTask
  BY <1>3, <1>5, ForgetWatch
<1>6. CASE SendTask
  BY <1>3, <1>6, SendWatch
<1> QED
  BY <1>4, <1>5, <1>6 DEF RunTask

LEMMA WatchStep ==
  ASSUME Core, CallInv, OwnedInv, WatchInv, [Next]_vars
  PROVE  WatchInv'
<1>1. CASE UserStep
  BY <1>1, UserWatch
<1>2. CASE RunTask
  BY <1>2, TaskWatch
<1>3. CASE Begin
  BY <1>3, BeginWatch
<1>4. CASE \E c \in Conns, fd \in Fds : Accept(c, fd)
  BY <1>4, AcceptWatch
<1>5. CASE Session
  BY <1>5, SessionWatch
<1>6. CASE Leave
  BY <1>6, LeaveWatch
<1>7. CASE \E c \in Conns : NetAt(c)
  BY <1>7, NetWatch
<1>8. CASE UNCHANGED vars
  <2>1. UNCHANGED <<server, live, stopped, obj, queue, cur, pc, entry, ready, sock>>
    BY <1>8 DEF vars, owners, io, kernel, ghosts, app
  <2>2. \A c : Watched(c)' = Watched(c)
    BY <2>1 DEF Watched, Awaited, ReadyR, ReadyW, Ended, Writing, Sending, InPhase
  <2> QED
    BY <2>1, <2>2 DEF WatchInv
<1> QED
  BY <1>1, <1>2, <1>3, <1>4, <1>5, <1>6, <1>7, <1>8
     DEF Next, IoStep, NetStep, Begin, Session, NetAt, Watchable

\* The core of the invariant, with what keeps the sessions and watches over them.
KeptInv == Core /\ CallInv /\ ServerInv /\ OwnedInv /\ WatchInv

LEMMA KeptInvariance == Spec => []KeptInv
<1>1. ASSUME Init PROVE KeptInv
  <2>1. ServerInv
    BY <1>1 DEF Init, ServerInv
  <2>2. OwnedInv
    BY <1>1 DEF Init, OwnedInv, Sessions, Served, Leaving, Fresh, IsOpen
  <2>3. WatchInv
    BY <1>1 DEF Init, WatchInv
  <2> QED
    BY <1>1, <2>1, <2>2, <2>3, InitCore, InitCalls DEF KeptInv
<1>2. KeptInv /\ [Next]_vars => KeptInv'
  BY StepCore, CallsKept, ServerStep, OwnedStep, WatchStep DEF KeptInv
<1> QED
  BY <1>1, <1>2, PTL DEF Spec

\* Data that waits in the send_buf_ of a session is going to be written, although
\* its writable edge is reported once and the event types of its channel are set
\* by tasks: a session in the table is watched for writing, and when the kernel has
\* room its event is on the way.
THEOREM SendingGoesOn == Spec => []WaitingDataIsWatched
<1>1. KeptInv => WaitingDataIsWatched
  <2>1. SUFFICES ASSUME KeptInv, Quiet, server # "gone", NEW c \in live,
                        InTable(c), obj[c].send_buf # <<>>, Sending(c)
                 PROVE  /\ entry[c].cb /\ "W" \in entry[c].mask
                        /\ sock[c].room > 0 => c \in ready
    BY DEF WaitingDataIsWatched
  <2>2. Elems(queue) = {} /\ DOMAIN queue = {}
    BY <2>1, ElemsFew DEF Quiet
  <2>3. c \notin stopped
    BY <2>1, <2>2 DEF KeptInv, OwnedInv, Leaving
  <2>4. Watched(c)
    BY <2>1, <2>3 DEF KeptInv, WatchInv
  <2>5. ~Awaited(c) /\ ~LastTouch(queue, c, obj[c].types)
    BY <2>2 DEF Awaited, LastTouch
  <2>6. ~InPhase(c, "write")
    <3>1. DOMAIN pc = {}
      BY <2>1 DEF Quiet
    <3> QED
      BY <3>1 DEF InPhase
  <2> QED
    BY <2>1, <2>4, <2>5, <2>6 DEF Watched, ReadyW, Writing
<1> QED
  BY <1>1, KeptInvariance, PTL

\* No connection outlives its use: when the threads have nothing left to do, an
\* open connection that the application does not hold is in the table, and once
\* it has ended, its event is on the way.  An error that the handler does not take
\* for the end of the connection (ETIMEDOUT) is excluded.
THEOREM NothingLeaks == ASSUME NetErrors \subseteq {"reset"} PROVE Spec => []NoLeak
<1>1. KeptInv => NoLeak
  <2>1. SUFFICES ASSUME KeptInv, Quiet, heavy = <<>>, NEW c \in Open \ held
                 PROVE  InTable(c) /\ (sock[c].sk \in {"fin", "dead"} => c \in ready)
    BY DEF NoLeak
  <2>2. Elems(queue) = {} /\ DOMAIN queue = {} /\ DOMAIN heavy = {} /\ pc = <<>>
    BY <2>1, ElemsFew DEF Quiet
  <2>3. c \in Conns /\ IsOpen(sock[c])
    BY <2>1 DEF Open, IsOpen
  <2>4. c \in live
    BY <2>1, <2>2, <2>3 DEF KeptInv, OwnedInv, Served
  <2>5. cur = None /\ None \notin Conns
    BY <2>1, <2>2, ServerAssumption DEF KeptInv, Core, PhaseInv, Shape
  <2>6. InTable(c)
    BY <2>1, <2>2, <2>3, <2>4, <2>5 DEF KeptInv, OwnedInv, Sessions, Referenced, InTable
  <2>7. c \notin stopped
    BY <2>1, <2>2, <2>4, <2>6 DEF KeptInv, OwnedInv, Leaving
  <2>8. server # "gone"
    BY <2>1, <2>3, <2>5, <2>6 DEF KeptInv, ServerInv, InTable
  <2>9. Watched(c)
    BY <2>1, <2>4, <2>7, <2>8 DEF KeptInv, WatchInv
  <2>10. ~LastTouch(queue, c, obj[c].types)
    BY <2>2 DEF LastTouch
  <2>11. ~InPhase(c, "read") /\ ~InPhase(c, "closed")
    <3>1. DOMAIN pc = {}
      BY <2>2
    <3> QED
      BY <3>1 DEF InPhase
  <2>12. ReadyR(c)
    BY <2>9, <2>10 DEF Watched
  <2> QED
    BY <2>6, <2>11, <2>12 DEF ReadyR, Ended
<1> QED
  BY <1>1, KeptInvariance, PTL
===============================================================================

------------------------------ MODULE LoopEvents ------------------------------
(***************************************************************************)
(* The descriptor side of kzevent::core::Loop and LoopChannel (core.hpp,   *)
(* core.cpp): the table events_, the io tasks that register, enable,       *)
(* disable and unregister a descriptor, the dispatch of epoll events, and  *)
(* the closing of descriptors, in unregister_fd and in ~Loop().            *)
(*                                                                         *)
(* Descriptor numbers are reused by the kernel as soon as they are closed, *)
(* tasks run later than they are posted, and a batch of epoll events is    *)
(* older than the tasks that run between two of its events: the model      *)
(* keeps the numbers (Fds) apart from the open files behind them (Files).  *)
(* That io tasks run once and in order is what LoopExecutor shows; here    *)
(* the queue is a sequence whose batches are taken at a wake event.        *)
(***************************************************************************)
EXTENDS Integers, Sequences, FiniteSets

CONSTANTS
  Files,              \* open files (sockets, timers), each opened at most once
  Channels,           \* LoopChannel objects
  MaxFd,              \* descriptor numbers are 0..MaxFd
  kEpollInitEventLen, \* initial size of events_
  kEpollMaxWaitLen,   \* most events that one epoll_wait reports
  CloseMayFail,       \* can close() in unregister_fd report an error?
  CtlMayFail,         \* can epoll_ctl() report an error, for want of memory?
  MaxQueue            \* bound on the io tasks waiting in the queue

Fds     == 0..MaxFd
Free    == "free"      \* the number is not in use
Foreign == "foreign"   \* the number is used by code outside the library
NoFile  == "none"
Wake    == [fd |-> -1, file |-> NoFile]   \* the event of io_wake_fd_

ASSUME EventsAssumption ==
  /\ MaxFd \in Nat /\ MaxQueue \in Nat
  /\ kEpollInitEventLen \in Nat /\ kEpollMaxWaitLen \in Nat \ {0}
  /\ CloseMayFail \in BOOLEAN /\ CtlMayFail \in BOOLEAN
  /\ {Free, Foreign, NoFile} \cap Files = {}

VARIABLES
  fdtab,      \* the kernel's table: what each number refers to
  interest,   \* the files in the epoll set
  ready,      \* the files on epoll's (edge-triggered) ready list
  readable,   \* the files with an event their callback has not handled yet
  events,     \* events_: [in_register, in_epoll, cb]; cb names its file
  channel,    \* per LoopChannel: fd_ and (ghost) the file it stands for
  opened,     \* the files opened so far
  alive,      \* the files whose owner, the object of the LifeChecker, lives
  queue,      \* io_buffer_queue_: tasks [op, fd, file]
  exe,        \* io_exe_queue_: what is left of the batch of tasks
  evs,        \* what is left of the batch of epoll events
  loop        \* "up", or "dead" after ~Loop()

kernel == <<fdtab, interest, ready, readable>>
user   == <<channel, opened, alive>>
vars   == <<kernel, user, events, queue, exe, evs, loop>>

Ops == {"register", "unregister", "enable", "update", "disable"}
Tasks == [op : Ops, fd : Fds, file : Files]

NoChannel == [fd |-> -1, file |-> NoFile]
NoEvent   == [in_register |-> FALSE, in_epoll |-> FALSE, cb |-> NoFile]
Event(fd) == events[fd + 1]

-------------------------------------------------------------------------------
Init ==
  /\ fdtab = [fd \in Fds |-> Free]
  /\ interest = {} /\ ready = {} /\ readable = {}
  /\ events = [i \in 1..kEpollInitEventLen |-> NoEvent]
  /\ channel = [c \in Channels |-> NoChannel]
  /\ opened = {} /\ alive = {}
  /\ queue = <<>> /\ exe = <<>> /\ evs = <<>>
  /\ loop = "up"

(***************************************************************************)
(* The environment: other code that opens and closes descriptors, and data *)
(* that arrives.                                                           *)
(***************************************************************************)
ForeignOpen(fd) ==
  /\ fdtab[fd] = Free
  /\ fdtab' = [fdtab EXCEPT ![fd] = Foreign]
  /\ UNCHANGED <<interest, ready, readable, user, events, queue, exe, evs,
                 loop>>

\* An event happens on a file: an edge if the file is in the epoll set.
Arrive(file) ==
  /\ file \notin readable
  /\ \E fd \in Fds : fdtab[fd] = file
  /\ readable' = readable \cup {file}
  /\ ready' = IF file \in interest THEN ready \cup {file} ELSE ready
  /\ UNCHANGED <<fdtab, interest, user, events, queue, exe, evs, loop>>

(***************************************************************************)
(* LoopChannel.  Each operation posts one io task; a channel without a     *)
(* descriptor (never constructed, moved from, destroyed) does nothing.     *)
(***************************************************************************)
Post(op, c) ==
  /\ loop = "up"
  /\ channel[c].fd # -1
  /\ Len(queue) < MaxQueue
  /\ queue' = Append(queue, [op |-> op, fd |-> channel[c].fd,
                             file |-> channel[c].file])

\* socket(), timerfd_create() or accept(), and LoopChannel(loop, fd).
Construct(c, file, fd) ==
  /\ loop = "up" /\ Len(queue) < MaxQueue
  /\ channel[c].fd = -1
  /\ file \notin opened
  /\ fdtab[fd] = Free
  /\ fdtab' = [fdtab EXCEPT ![fd] = file]
  /\ channel' = [channel EXCEPT ![c] = [fd |-> fd, file |-> file]]
  /\ opened' = opened \cup {file}
  /\ alive' = alive \cup {file}
  /\ queue' = Append(queue, [op |-> "register", fd |-> fd, file |-> file])
  /\ UNCHANGED <<interest, ready, readable, events, exe, evs, loop>>

\* A channel factory whose setsockopt(), bind(), listen() or timerfd_settime()
\* fails: the channel it has just made is destroyed before it returns.
FactoryFails(file, fd) ==
  /\ loop = "up" /\ Len(queue) + 2 <= MaxQueue
  /\ file \notin opened
  /\ fdtab[fd] = Free
  /\ fdtab' = [fdtab EXCEPT ![fd] = file]
  /\ opened' = opened \cup {file}
  /\ queue' = queue \o <<[op |-> "register", fd |-> fd, file |-> file],
                         [op |-> "unregister", fd |-> fd, file |-> file]>>
  /\ UNCHANGED <<interest, ready, readable, channel, alive, events, exe, evs,
                 loop>>

\* Mutant: the moved-from channel keeps its descriptor.
Move_KeepsFd(c, d) ==
  /\ channel[c].fd # -1 /\ channel[d].fd = -1
  /\ channel' = [channel EXCEPT ![d] = channel[c]]
  /\ UNCHANGED <<kernel, opened, alive, events, queue, exe, evs, loop>>

\* LoopChannel(LoopChannel &&): c becomes invalid.
Move(c, d) ==
  /\ channel[c].fd # -1 /\ channel[d].fd = -1
  /\ channel' = [channel EXCEPT ![d] = channel[c], ![c] = NoChannel]
  /\ UNCHANGED <<kernel, opened, alive, events, queue, exe, evs, loop>>

\* operator=(LoopChannel &&), swap.
Swap(c, d) ==
  /\ channel[c].fd # -1 /\ channel[d].fd # -1 /\ c # d
  /\ channel' = [channel EXCEPT ![c] = channel[d], ![d] = channel[c]]
  /\ UNCHANGED <<kernel, opened, alive, events, queue, exe, evs, loop>>

\* update_event with a callback, update_event without one, disable_event.
UpdateEventCb(c) ==
  /\ Post("enable", c)
  /\ channel[c].file \in alive
  /\ UNCHANGED <<kernel, user, events, exe, evs, loop>>

UpdateEvent(c) ==
  /\ Post("update", c)
  /\ channel[c].file \in alive
  /\ UNCHANGED <<kernel, user, events, exe, evs, loop>>

DisableEvent(c) ==
  /\ Post("disable", c)
  /\ UNCHANGED <<kernel, user, events, exe, evs, loop>>

\* The last reference to the object that owns the channel goes: the
\* LifeChecker of its callbacks expires before its members are destroyed.
Expire(c) ==
  /\ channel[c].file \in alive
  /\ alive' = alive \ {channel[c].file}
  /\ UNCHANGED <<kernel, channel, opened, events, queue, exe, evs, loop>>

\* ~LoopChannel()
Destruct(c) ==
  /\ Post("unregister", c)
  /\ channel[c].file \notin alive
  /\ channel' = [channel EXCEPT ![c] = NoChannel]
  /\ UNCHANGED <<kernel, opened, alive, events, exe, evs, loop>>

-------------------------------------------------------------------------------
(***************************************************************************)
(* The io tasks.                                                           *)
(***************************************************************************)
Task == Head(exe)

Taking(op) ==
  /\ exe # <<>>
  /\ Task.op = op
  /\ exe' = Tail(exe)
  /\ UNCHANGED <<user, queue, evs, loop>>

SetEvent(fd, event) == events' = [events EXCEPT ![fd + 1] = event]

\* A task other than register whose descriptor is not registered only logs.
IfRegistered(Change) ==
  IF Event(Task.fd).in_register THEN Change ELSE UNCHANGED <<kernel, events>>

\* Mutant: the table grows by half, whatever fd is.
Grown_HalfOnly(len, fd) == IF fd < len THEN len ELSE len + len \div 2

\* The size of events_ after register_fd: half as much again, or what fd needs.
Grown(len, fd) ==
  LET bigger == len + len \div 2
  IN IF fd < len THEN len ELSE IF bigger < fd + 1 THEN fd + 1 ELSE bigger

register_fd ==
  /\ Taking("register")
  /\ LET table == [i \in 1..Grown(Len(events), Task.fd) |->
                     IF i <= Len(events) THEN events[i] ELSE NoEvent]
     IN events' = [table EXCEPT ![Task.fd + 1].in_register = TRUE]
  /\ UNCHANGED kernel

\* close(fd): the number becomes free and epoll forgets the file.
Close(fd) ==
  /\ fdtab' = [fdtab EXCEPT ![fd] = Free]
  /\ interest' = interest \ {fdtab[fd]}
  /\ ready' = ready \ {fdtab[fd]}
  /\ readable' = readable \ {fdtab[fd]}

\* EPOLL_CTL_DEL, close(), reset the entry.  When close() reports an error the
\* number is free all the same (Linux), but the task returns before the reset.
unregister_fd ==
  /\ Taking("unregister")
  /\ IfRegistered(/\ Close(Task.fd)
                  /\ \/ SetEvent(Task.fd, NoEvent)
                     \/ CloseMayFail /\ UNCHANGED events)

\* epoll_ctl(ADD or MOD, fd): epoll polls the file at once, so one that is
\* readable goes (back) on the ready list.
Watch(file) ==
  /\ interest' = interest \cup {file}
  /\ ready' = IF file \in readable THEN ready \cup {file} ELSE ready
  /\ UNCHANGED <<fdtab, readable>>

Installing == [in_register |-> TRUE, in_epoll |-> TRUE, cb |-> Task.file]

\* epoll_ctl() reports an error that has no fallback: the task logs it and
\* returns, before it touches the entry.
CtlFails == CtlMayFail /\ UNCHANGED <<kernel, events>>

\* Mutant: a descriptor already in the epoll set only gets the new callback.
enable_fd_NoMod ==
  /\ Taking("enable")
  /\ IfRegistered(/\ IF Event(Task.fd).in_epoll THEN UNCHANGED kernel
                     ELSE Watch(fdtab[Task.fd])
                  /\ SetEvent(Task.fd, Installing))

\* Mutant: the entry is filled in before epoll_ctl() is called.
enable_fd_EntryFirst ==
  /\ Taking("enable")
  /\ IfRegistered(/\ \/ Watch(fdtab[Task.fd])
                     \/ CtlMayFail /\ UNCHANGED kernel
                  /\ SetEvent(Task.fd, Installing))

\* enable_fd with a callback.  in_epoll selects MOD or ADD, and each falls
\* back to the other (ENOENT, EEXIST), so that the file ends up watched.
enable_fd ==
  /\ Taking("enable")
  /\ IfRegistered(\/ /\ Watch(fdtab[Task.fd])
                     /\ SetEvent(Task.fd, Installing)
                  \/ CtlFails)

\* Mutant: the descriptor is not marked as being in the epoll set.
enable_fd_same_NoFlag ==
  /\ Taking("update")
  /\ IfRegistered(Watch(fdtab[Task.fd]) /\ UNCHANGED events)

\* enable_fd without a callback keeps the one there is, possibly none.
enable_fd_same ==
  /\ Taking("update")
  /\ IfRegistered(\/ /\ Watch(fdtab[Task.fd])
                     /\ SetEvent(Task.fd, [Event(Task.fd) EXCEPT
                                             !.in_epoll = TRUE])
                  \/ CtlFails)

\* epoll_ctl(DEL, fd)
Unwatch(file) ==
  /\ interest' = interest \ {file}
  /\ ready' = ready \ {file}
  /\ UNCHANGED <<fdtab, readable>>

\* Mutant: the callback stays in the table.
disable_fd_KeepsCb ==
  /\ Taking("disable")
  /\ IfRegistered(\/ /\ Unwatch(fdtab[Task.fd])
                     /\ SetEvent(Task.fd, [Event(Task.fd) EXCEPT
                                             !.in_epoll = FALSE])
                  \/ CtlFails)

disable_fd ==
  /\ Taking("disable")
  /\ IfRegistered(\/ /\ Unwatch(fdtab[Task.fd])
                     /\ SetEvent(Task.fd, [Event(Task.fd) EXCEPT
                                             !.in_epoll = FALSE,
                                             !.cb = NoFile])
                  \/ CtlFails)

-------------------------------------------------------------------------------
(***************************************************************************)
(* io_executor().                                                          *)
(***************************************************************************)
\* The orders in which the events of a set can be reported.
Orders(S) == {s \in [1..Cardinality(S) -> S] :
                \A i, j \in 1..Cardinality(S) : s[i] = s[j] => i = j}

\* epoll_wait: the events on the ready list, as many as fit, in any order,
\* each with the number that the file has now.  The wake event is reported
\* when a task is queued, unless its poster has not written the eventfd yet.
epoll_wait ==
  /\ loop = "up" /\ exe = <<>> /\ evs = <<>>
  /\ \E files \in SUBSET ready, wake \in BOOLEAN :
       LET found == {[fd |-> fd, file |-> fdtab[fd]] :
                       fd \in {f \in Fds : fdtab[f] \in files}}
                      \cup (IF wake THEN {Wake} ELSE {})
       IN /\ wake => queue # <<>>
          /\ found # {} /\ Cardinality(found) <= kEpollMaxWaitLen
          /\ files # ready => Cardinality(found) = kEpollMaxWaitLen
          /\ evs' \in Orders(found)
          /\ ready' = ready \ files
  /\ UNCHANGED <<fdtab, interest, readable, user, events, queue, exe, loop>>

\* The wake event: swap the queues and run the batch.
TakeTasks ==
  /\ exe = <<>> /\ evs # <<>>
  /\ Head(evs) = Wake
  /\ exe' = queue
  /\ queue' = <<>>
  /\ evs' = Tail(evs)
  /\ UNCHANGED <<kernel, user, events, loop>>

\* Any other event is about to be dispatched through the table.
AtEvent   == exe = <<>> /\ evs # <<>> /\ Head(evs) # Wake
EventFile == Head(evs).file
EventCb   == Event(Head(evs).fd).cb

\* The callback, if there is one and its LifeChecker locks; it handles what
\* its file has (as edge-triggered mode demands).
Dispatch ==
  /\ AtEvent
  /\ readable' = IF EventCb \in alive THEN readable \ {EventCb} ELSE readable
  /\ evs' = Tail(evs)
  /\ UNCHANGED <<fdtab, interest, ready, user, events, queue, exe, loop>>

\* ~Loop(), with the executors joined and no channel left: the queued tasks
\* are dropped, every descriptor with in_register set is closed.
Registered == {fd \in Fds : fd < Len(events) /\ Event(fd).in_register}

DestroyLoop ==
  /\ loop = "up" /\ exe = <<>> /\ evs = <<>>
  /\ \A c \in Channels : channel[c].fd = -1
  /\ fdtab' = [fd \in Fds |-> IF fd \in Registered THEN Free ELSE fdtab[fd]]
  /\ interest' = {} /\ ready' = {} /\ readable' = {}
  /\ queue' = <<>>
  /\ loop' = "dead"
  /\ UNCHANGED <<user, events, exe, evs>>

RunTask == \/ register_fd \/ unregister_fd
           \/ enable_fd \/ enable_fd_same \/ disable_fd

IoStep == epoll_wait \/ TakeTasks \/ RunTask \/ Dispatch

UserStep ==
  \/ \E file \in Files, fd \in Fds :
       FactoryFails(file, fd) \/ \E c \in Channels : Construct(c, file, fd)
  \/ \E c \in Channels :
       \/ \E d \in Channels : Move(c, d) \/ Swap(c, d)
       \/ UpdateEventCb(c) \/ UpdateEvent(c) \/ DisableEvent(c)
       \/ Expire(c) \/ Destruct(c)

Next ==
  \/ IoStep \/ UserStep \/ DestroyLoop
  \/ \E fd \in Fds : ForeignOpen(fd)
  \/ \E file \in Files : Arrive(file)

Spec == Init /\ [][Next]_vars

-------------------------------------------------------------------------------
(***************************************************************************)
(* Properties.                                                             *)
(***************************************************************************)
InBatch == {evs[i].file : i \in DOMAIN evs}

\* The types of the table, the kernel's view, the channels and the queues.
TypeOK ==
  /\ fdtab \in [Fds -> Files \cup {Free, Foreign}]
  /\ interest \subseteq Files /\ readable \subseteq Files
  /\ ready \subseteq interest
  /\ events \in Seq([in_register : BOOLEAN, in_epoll : BOOLEAN,
                     cb : Files \cup {NoFile}])
  /\ channel \in [Channels -> [fd : Fds, file : Files] \cup {NoChannel}]
  /\ opened \subseteq Files /\ alive \subseteq opened
  /\ queue \in Seq(Tasks) /\ exe \in Seq(Tasks)
  /\ evs \in Seq([fd : Fds, file : Files] \cup {Wake})
  /\ loop \in {"up", "dead"}

\* No io task ever acts on a descriptor number that has come to mean another
\* file: until the unregister task of a channel has run, the number it holds
\* is still its own, whatever was closed, reopened or moved in the meantime.
\* unregister_fd therefore never closes somebody else's descriptor.
TasksOwnTheirFd ==
  LET Owned(seq) == \A i \in DOMAIN seq : fdtab[seq[i].fd] = seq[i].file
  IN Owned(queue) /\ Owned(exe)

\* events_[fd] is only indexed within the table, and no task finds its
\* descriptor unregistered: every task and event for fd comes after the
\* register task that made the table large enough, and before the unregister
\* task.
EntriesExist ==
  /\ exe # <<>> /\ Task.op # "register" =>
       Task.fd < Len(events) /\ Event(Task.fd).in_register
  /\ \A i \in DOMAIN evs : evs[i].fd < Len(events)

\* An event is dispatched only to the callback of the file it happened on, and
\* only while that file is in the epoll set: an event of the batch that was
\* fetched before its descriptor was disabled, or closed and reused, reaches
\* no callback.
DispatchIsCurrent ==
  AtEvent /\ EventCb \in alive =>
    EventCb = EventFile /\ EventCb \in interest

\* The callback of a file with a live owner is in the table.
Installed(file) ==
  /\ file \in alive
  /\ \E fd \in Fds : fd < Len(events) /\ fdtab[fd] = file
                     /\ Event(fd).cb = file

\* No edge is lost: a file with an unhandled event whose live callback is in
\* the table is on epoll's ready list or in the batch being dispatched, however
\* enable, update and disable tasks were interleaved with the event.
EdgeNotLost ==
  \A file \in readable :
    Installed(file) => file \in ready \/ file \in InBatch

\* The table never knows less than the kernel, also after a close() that failed
\* left an old entry behind: what epoll watches is marked in_epoll and
\* registered, so that disable_fd and unregister_fd find it, and a callback
\* whose owner lives stands only at the number of its own file.
TableCoversKernel ==
  loop = "up" =>
    \A fd \in Fds :
      /\ fdtab[fd] \in interest =>
           fd < Len(events) /\ Event(fd).in_epoll /\ Event(fd).in_register
      /\ fd < Len(events) /\ Event(fd).cb \in alive =>
           fdtab[fd] = Event(fd).cb

\* No callback waits in vain: one whose owner lives stands in the table only at
\* a number that epoll watches, so that its events are reported.  An epoll_ctl()
\* that fails in enable_fd or disable_fd, a flag left over by a close() that
\* failed and the fallbacks between ADD and MOD never leave the table ahead of
\* the kernel.
CallbackIsWatched ==
  loop = "up" =>
    \A fd \in Fds :
      fd < Len(events) /\ Event(fd).cb \in alive => fdtab[fd] \in interest

\* After ~Loop() no file that was handed to the loop is open ("close all file
\* descriptors", comment in ~Loop()).
AllClosed == loop = "dead" => \A fd \in Fds : fdtab[fd] \notin Files
===============================================================================

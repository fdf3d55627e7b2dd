------------------------------ MODULE Dispatch ------------------------------
(***************************************************************************)
(* How an accepted connection reaches the event loop that will serve it:   *)
(* Maccept in the accepting thread (otherFun.cpp), GetNextEventEpollFd and *)
(* the eventfd of each worker (EventLoopThreadPool.cpp), the eventfd       *)
(* branch of Httpdata::handle_event with sysreadn in the worker, and       *)
(* Add_New_Connect with Epoll_Add, Epoll_Del and ~channel.                 *)
(*                                                                         *)
(* Descriptors are the numbers the kernel gives out, the lowest free one   *)
(* first, because the eventfd counter adds them up.                        *)
(***************************************************************************)
EXTENDS Naturals, Sequences, FiniteSets, SequencesExt

CONSTANTS
  ThreadNums,   \* numbers of worker threads the server may be started with
  Clients,      \* connections clients open
  Fds,          \* descriptors free when the server is up
  buff_slots,   \* uint64_t values read_buff holds: 4096 / 8
  NoClient      \* an unused descriptor

ASSUME DispatchAssumption ==
  /\ ThreadNums \subseteq Nat /\ IsFiniteSet(ThreadNums)
  /\ Fds \subseteq Nat \ {0} /\ IsFiniteSet(Fds)
  /\ buff_slots \in Nat \ {0}
  /\ NoClient \notin Clients

VARIABLES
  thread_num,       \* worker threads; 0: the accepting thread serves, too
  connecting,       \* clients that have not connected yet
  backlog,          \* clients in the listen queue, in order
  listen_ready,     \* an edge of the listen socket epoll has not reported
  accepting,        \* the accepting thread is in Maccept's loop
  conn,             \* open descriptors and their clients
  cur_event_epoll,  \* EventLoopThreadPool::cur_event_epoll
  counter,          \* value of each worker's eventfd
  event_ready,      \* an edge of the eventfd epoll has not reported
  wpc,              \* worker: "poll", "read" (sysreadn), "add" (handle_event)
  read_buff,        \* the uint64_t values sysreadn has read
  Mmap,             \* Epoll::Mmap of each loop: its registered descriptors
  watched,          \* descriptors in the kernel's interest list of each loop
  closing           \* channels Epoll_Del took out that results still points to

Workers == 0 .. thread_num - 1

\* The event loops that serve connections: the workers or, if there are none,
\* the accepting thread.
Acceptor == thread_num
Loops == IF thread_num = 0 THEN {Acceptor} ELSE Workers

\* Every worker any of the thread numbers has.
AllWorkers == UNION {0 .. n - 1 : n \in ThreadNums}

mainVars == <<backlog, listen_ready, accepting, cur_event_epoll>>
eventVars == <<counter, event_ready>>
workerVars == <<wpc, read_buff>>
connVars == <<conn, Mmap, watched, closing>>
vars == <<thread_num, connecting, mainVars, eventVars, workerVars, connVars>>

Open == {fd \in Fds : conn[fd] # NoClient}

TypeOK ==
  /\ thread_num \in ThreadNums
  /\ connecting \subseteq Clients
  /\ backlog \in Seq(Clients)
  /\ listen_ready \in BOOLEAN
  /\ accepting \in BOOLEAN
  /\ conn \in [Fds -> Clients \cup {NoClient}]
  /\ cur_event_epoll \in Workers \cup {0}
  /\ counter \in [Workers -> Nat]
  /\ event_ready \in [Workers -> BOOLEAN]
  /\ wpc \in [Workers -> {"poll", "read", "add"}]
  /\ read_buff \in [Workers -> Seq(Nat)]
  /\ Mmap \in [Loops -> SUBSET Nat]
  /\ watched \in [Loops -> SUBSET Fds]
  /\ closing \in [Loops -> SUBSET Fds]

Init ==
  /\ thread_num \in ThreadNums
  /\ connecting = Clients
  /\ backlog = << >>
  /\ listen_ready = FALSE
  /\ accepting = FALSE
  /\ conn = [fd \in Fds |-> NoClient]
  /\ cur_event_epoll = 0
  /\ counter = [w \in Workers |-> 0]
  /\ event_ready = [w \in Workers |-> FALSE]
  /\ wpc = [w \in Workers |-> "poll"]
  /\ read_buff = [w \in Workers |-> << >>]
  /\ Mmap = [l \in Loops |-> {}]
  /\ watched = [l \in Loops |-> {}]
  /\ closing = [l \in Loops |-> {}]

-----------------------------------------------------------------------------
(* Epoll and channel *)

\* close(fd): the descriptor is free again and leaves every interest list.
close(fd) ==
  /\ conn' = [f \in Fds |-> IF f = fd THEN NoClient ELSE conn[f]]
  /\ watched' = [l \in Loops |-> watched[l] \ {fd}]

\* Epoll_Add of a descriptor that Mmap does not have, with `table' the ones in
\* use: epoll_ctl fails, unnoticed, for a number that is not open.
Epoll_Add(l, fd, table) ==
  /\ Mmap' = [Mmap EXCEPT ![l] = @ \cup {fd}]
  /\ watched' = IF fd \in Fds /\ table[fd] # NoClient
                THEN [watched EXCEPT ![l] = @ \cup {fd}]
                ELSE watched

Epoll_Del_NoErase(l, fd) ==
  /\ watched' = [watched EXCEPT ![l] = @ \ {fd}]
  /\ UNCHANGED Mmap
\* Epoll_Del of a descriptor that Mmap has.
Epoll_Del(l, fd) ==
  /\ watched' = [watched EXCEPT ![l] = @ \ {fd}]
  /\ Mmap' = [Mmap EXCEPT ![l] = @ \ {fd}]

\* Add_New_Connect(fd) in loop l.  When Mmap already has fd, Epoll_Add refuses
\* it, and the new channel is destroyed and closes fd.
Add_New_Connect(l, fd, table) ==
  /\ UNCHANGED closing
  /\ IF fd \in Mmap[l]
     THEN /\ conn' = [f \in Fds |-> IF f = fd THEN NoClient ELSE table[f]]
          /\ watched' = [k \in Loops |-> watched[k] \ {fd}]
          /\ UNCHANGED Mmap
     ELSE /\ conn' = table
          /\ Epoll_Add(l, fd, table)

-----------------------------------------------------------------------------
(* The accepting thread *)

\* A client connects: an edge on the listen socket.
Connect(c) ==
  /\ c \in connecting
  /\ connecting' = connecting \ {c}
  /\ backlog' = Append(backlog, c)
  /\ listen_ready' = TRUE
  /\ UNCHANGED <<thread_num, accepting, cur_event_epoll, eventVars, workerVars, connVars>>

\* Poll reports the listen channel and handle_event enters Maccept.
PollListen ==
  /\ ~ accepting
  /\ listen_ready
  /\ listen_ready' = FALSE
  /\ accepting' = TRUE
  /\ UNCHANGED <<thread_num, connecting, backlog, cur_event_epoll, eventVars, workerVars, connVars>>

GetNextEventEpollFd_NoWrap == cur_event_epoll + 1
\* Round robin over the workers.
GetNextEventEpollFd == (cur_event_epoll + 1) % thread_num

\* One turn of Maccept's loop: accept takes the oldest client and the lowest
\* free descriptor; then the connection is registered here, or its number is
\* written to the eventfd of the next worker.
Accept ==
  /\ accepting
  /\ backlog # << >>
  /\ Fds # Open
  /\ backlog' = Tail(backlog)
  /\ LET connfd == CHOOSE fd \in Fds \ Open : \A f \in Fds \ Open : fd <= f
         table == [conn EXCEPT ![connfd] = Head(backlog)]
     IN  IF thread_num = 0
         THEN /\ Add_New_Connect(Acceptor, connfd, table)
              /\ UNCHANGED <<cur_event_epoll, eventVars>>
         ELSE LET w == GetNextEventEpollFd IN
              /\ cur_event_epoll' = w
              /\ counter' = [counter EXCEPT ![w] = @ + connfd]
              /\ event_ready' = [event_ready EXCEPT ![w] = TRUE]
              /\ conn' = table
              /\ UNCHANGED <<Mmap, watched, closing>>
  /\ UNCHANGED <<thread_num, connecting, listen_ready, accepting, workerVars>>

\* accept fails with EMFILE: neither EINTR nor EAGAIN, so Maccept tries again.
AcceptFails ==
  /\ accepting
  /\ backlog # << >>
  /\ Fds = Open
  /\ UNCHANGED vars

AcceptDone_AfterOne ==
  /\ accepting
  /\ accepting' = FALSE
  /\ UNCHANGED <<thread_num, connecting, backlog, listen_ready, cur_event_epoll, eventVars,
                 workerVars, connVars>>
\* accept fails with EAGAIN: Maccept returns.
AcceptDone ==
  /\ accepting
  /\ backlog = << >>
  /\ accepting' = FALSE
  /\ UNCHANGED <<thread_num, connecting, backlog, listen_ready, cur_event_epoll, eventVars,
                 workerVars, connVars>>

-----------------------------------------------------------------------------
(* A worker thread *)

\* Poll reports the eventfd and handle_event enters sysreadn.
PollEvent(w) ==
  /\ wpc[w] = "poll"
  /\ event_ready[w]
  /\ event_ready' = [event_ready EXCEPT ![w] = FALSE]
  /\ wpc' = [wpc EXCEPT ![w] = "read"]
  /\ read_buff' = [read_buff EXCEPT ![w] = << >>]
  /\ UNCHANGED <<thread_num, connecting, mainVars, counter, connVars>>

\* One turn of sysreadn's loop: a read returns the counter and clears it ...
ReadEvent(w) ==
  /\ wpc[w] = "read"
  /\ counter[w] > 0
  /\ Len(read_buff[w]) < buff_slots
  /\ read_buff' = [read_buff EXCEPT ![w] = Append(@, counter[w])]
  /\ counter' = [counter EXCEPT ![w] = 0]
  /\ UNCHANGED <<thread_num, connecting, mainVars, event_ready, wpc, connVars>>

ReadDone_OnEINTR(w) ==
  /\ wpc[w] = "read"
  /\ wpc' = [wpc EXCEPT ![w] = "add"]
  /\ UNCHANGED <<thread_num, connecting, mainVars, eventVars, read_buff, connVars>>
\* ... until it would block, or read_buff is full.
ReadDone(w) ==
  /\ wpc[w] = "read"
  /\ counter[w] = 0 \/ Len(read_buff[w]) = buff_slots
  /\ wpc' = [wpc EXCEPT ![w] = "add"]
  /\ UNCHANGED <<thread_num, connecting, mainVars, eventVars, read_buff, connVars>>

\* handle_event registers each number that was read.
AddEvent(w) ==
  /\ wpc[w] = "add"
  /\ IF read_buff[w] # << >>
     THEN /\ Add_New_Connect(w, Head(read_buff[w]), conn)
          /\ read_buff' = [read_buff EXCEPT ![w] = Tail(@)]
          /\ UNCHANGED wpc
     ELSE /\ wpc' = [wpc EXCEPT ![w] = "poll"]
          /\ UNCHANGED <<read_buff, connVars>>
  /\ UNCHANGED <<thread_num, connecting, mainVars, eventVars>>

\* Loop l is between two handlers.
BetweenHandlers(l) == IF thread_num = 0 THEN ~ accepting ELSE wpc[l] = "poll"

\* A connection ends: handle_close calls Epoll_Del.  The vector that Poll()
\* returned still points to the channel, so its descriptor stays open, and a
\* descriptor registered again is not reported before that vector is gone.
handle_close(l, fd) ==
  /\ BetweenHandlers(l)
  /\ fd \in (watched[l] \cap Mmap[l]) \ closing[l]
  /\ Epoll_Del(l, fd)
  /\ closing' = [closing EXCEPT ![l] = @ \cup {fd}]
  /\ UNCHANGED <<thread_num, connecting, mainVars, eventVars, workerVars, conn>>

\* The batch is done: the vector goes, and ~channel closes the descriptor.
ChannelDestroyed(l, fd) ==
  /\ BetweenHandlers(l)
  /\ fd \in closing[l]
  /\ closing' = [closing EXCEPT ![l] = @ \ {fd}]
  /\ close(fd)
  /\ UNCHANGED <<thread_num, connecting, mainVars, eventVars, workerVars, Mmap>>

-----------------------------------------------------------------------------

AcceptorStep == PollListen \/ Accept \/ AcceptFails \/ AcceptDone
WorkerStep(w) == PollEvent(w) \/ ReadEvent(w) \/ ReadDone(w) \/ AddEvent(w)

Next ==
  \/ \E c \in Clients : Connect(c)
  \/ AcceptorStep
  \/ \E w \in Workers : WorkerStep(w)
  \/ \E l \in Loops, fd \in Fds : handle_close(l, fd) \/ ChannelDestroyed(l, fd)

Spec == Init /\ [][Next]_vars

\* Every thread with something to do is scheduled; clients owe nothing.
FairSpec ==
  /\ Spec
  /\ WF_vars(AcceptorStep)
  /\ \A w \in AllWorkers : WF_vars(w \in Workers /\ WorkerStep(w))

-----------------------------------------------------------------------------
(* Properties *)

\* Edge-triggered epoll reports an edge once, so nothing may be left unread
\* without one: a queued client has an edge pending or Maccept still running,
\* and a written eventfd has an edge pending or sysreadn still running.
NothingStranded ==
  /\ backlog # << >> => listen_ready \/ accepting
  /\ \A w \in Workers : counter[w] > 0 => event_ready[w] \/ wpc[w] = "read"

\* With one thread, every open connection that is not on its way out is
\* registered, in Mmap and in the kernel, and Mmap holds no channel whose
\* descriptor has gone: no accepted connection is refused by Epoll_Add.
AcceptedIsRegistered ==
  thread_num = 0 =>
    /\ Mmap[Acceptor] = Open \ closing[Acceptor]
    /\ watched[Acceptor] = Mmap[Acceptor]

\* Every client leaves the listen queue for a connection as long as descriptors
\* are not used up for ever.  While they are, Maccept spins on EMFILE: with
\* workers it goes on when one of them closes a connection, with one thread
\* no handler runs any more and the premise stays false.
EventuallyAccepted ==
  []<>(Fds # Open) =>
    \A c \in Clients :
      (c \in Range(backlog)) ~> (\E fd \in Open : conn[fd] = c)

\* Every notification of a worker is eventually read, also one that arrives
\* while it reads or registers earlier ones.
EventuallyNotified ==
  \A w \in AllWorkers :
    (w \in Workers /\ counter[w] > 0) ~> (w \in Workers /\ counter[w] = 0)

\* README.md says the main thread uses the eventfd to tell the other threads
\* the fd of the new connection: what a worker registers is a descriptor that
\* the acceptor opened.
NotifiedIsConnection ==
  \A w \in Workers : Range(read_buff[w]) \subseteq Open

=============================================================================

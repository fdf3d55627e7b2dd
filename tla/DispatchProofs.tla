--------------------------- MODULE DispatchProofs ---------------------------
(***************************************************************************)
(* The hand-over of accepted connections, for any number of workers,       *)
(* clients and descriptors and any size of read_buff: no edge is used up   *)
(* with something left behind it and, with one thread, epoll and Mmap know *)
(* exactly the connections that are open.                                  *)
(*                                                                         *)
(* That sysreadn stops at a full read_buff is what makes NothingStranded   *)
(* more than a test of the next step: Renewed says that what arrives after *)
(* the first read has brought a new edge with it.                          *)
(***************************************************************************)
EXTENDS Dispatch, ListLemmas

\* What a worker that has read before finds in its eventfd came with an edge of
\* its own.
Renewed ==
  \A w \in Workers :
    wpc[w] = "read" /\ read_buff[w] # << >> /\ counter[w] > 0 => event_ready[w]

\* A channel on its way out keeps its descriptor.
ClosingOpen == thread_num = 0 => closing[Acceptor] \subseteq Open

IInv == TypeOK /\ NothingStranded /\ Renewed /\ ClosingOpen /\ AcceptedIsRegistered

-----------------------------------------------------------------------------

\* The workers are numbers below thread_num; the accepting thread serves if
\* there are none.
LEMMA LoopFacts ==
  ASSUME TypeOK
  PROVE  /\ thread_num \in Nat
         /\ thread_num = 0 => Workers = {} /\ Acceptor \in Loops /\ Loops = {Acceptor}
         /\ thread_num # 0 => Loops = Workers
BY DispatchAssumption DEF TypeOK, Workers, Loops, Acceptor

\* The descriptor accept returns is a free one.
LEMMA AcceptedFd ==
  ASSUME TypeOK, Fds # Open
  PROVE  (CHOOSE fd \in Fds \ Open : \A f \in Fds \ Open : fd <= f) \in Fds \ Open
<1>1. Fds \ Open # {} /\ Fds \ Open \subseteq Nat
  BY DispatchAssumption DEF Open
<1>2. \E fd \in Fds \ Open : \A f \in Fds \ Open : fd <= f
  BY <1>1, Lowest
<1>3. QED
  BY <1>2

\* GetNextEventEpollFd is a worker's number.
LEMMA NextWorker ==
  ASSUME TypeOK, thread_num # 0
  PROVE  GetNextEventEpollFd \in Workers
<1>1. thread_num \in Nat \ {0} /\ cur_event_epoll \in Nat
  BY LoopFacts DEF TypeOK, Workers
<1>2. (cur_event_epoll + 1) % thread_num \in 0 .. thread_num - 1
  BY <1>1
<1>3. QED
  BY <1>2 DEF GetNextEventEpollFd, Workers

\* Add_New_Connect keeps the types of the tables of connections.
LEMMA AddTypes ==
  ASSUME TypeOK, NEW l \in Loops, NEW fd \in Nat,
         NEW tbl \in [Fds -> Clients \cup {NoClient}],
         Add_New_Connect(l, fd, tbl), thread_num' = thread_num
  PROVE  /\ conn' \in [Fds -> Clients \cup {NoClient}]
         /\ (Mmap \in [Loops -> SUBSET Nat])'
         /\ (watched \in [Loops -> SUBSET Fds])'
         /\ (closing \in [Loops -> SUBSET Fds])'
<1>1. Loops' = Loops
  BY DEF Loops, Workers, Acceptor
<1>2. /\ Mmap \in [Loops -> SUBSET Nat] /\ watched \in [Loops -> SUBSET Fds]
      /\ closing \in [Loops -> SUBSET Fds]
  BY DEF TypeOK
<1>3. closing' \in [Loops -> SUBSET Fds]
  BY <1>2 DEF Add_New_Connect
<1>4. CASE fd \in Mmap[l]
  <2>1. /\ conn' = [f \in Fds |-> IF f = fd THEN NoClient ELSE tbl[f]]
        /\ watched' = [k \in Loops |-> watched[k] \ {fd}] /\ Mmap' = Mmap
    BY <1>4 DEF Add_New_Connect
  <2>2. QED
    BY <1>1, <1>2, <1>3, <2>1
<1>5. CASE fd \notin Mmap[l]
  <2>1. conn' = tbl /\ Epoll_Add(l, fd, tbl)
    BY <1>5 DEF Add_New_Connect
  <2>2. Mmap' \in [Loops -> SUBSET Nat] /\ watched' \in [Loops -> SUBSET Fds]
    BY <1>2, <2>1 DEF Epoll_Add
  <2>3. QED
    BY <1>1, <1>3, <2>1, <2>2
<1>6. QED
  BY <1>4, <1>5

\* The invariant holds when the server is up.
LEMMA InitIInv == Init => IInv
<1> SUFFICES ASSUME Init PROVE IInv
  OBVIOUS
<1>1. TypeOK
  <2>1. /\ thread_num \in ThreadNums /\ connecting \subseteq Clients /\ backlog \in Seq(Clients)
        /\ conn \in [Fds -> Clients \cup {NoClient}]
    BY DEF Init
  <2>2. listen_ready \in BOOLEAN /\ accepting \in BOOLEAN
    BY Zenon DEF Init
  <2>3. /\ cur_event_epoll \in Workers \cup {0} /\ counter \in [Workers -> Nat]
        /\ event_ready \in [Workers -> BOOLEAN] /\ wpc \in [Workers -> {"poll", "read", "add"}]
        /\ read_buff \in [Workers -> Seq(Nat)]
    BY DEF Init
  <2>4. /\ Mmap \in [Loops -> SUBSET Nat] /\ watched \in [Loops -> SUBSET Fds]
        /\ closing \in [Loops -> SUBSET Fds]
    BY DEF Init
  <2>5. QED
    BY <2>1, <2>2, <2>3, <2>4 DEF TypeOK
<1>2. NothingStranded /\ Renewed
  BY DEF Init, NothingStranded, Renewed
<1>3. ClosingOpen /\ AcceptedIsRegistered
  BY <1>1, LoopFacts DEF Init, ClosingOpen, AcceptedIsRegistered, Open
<1>4. QED
  BY <1>1, <1>2, <1>3 DEF IInv

-----------------------------------------------------------------------------

\* The connections are left alone: what is said of them stays true.
LEMMA ConnUnchanged ==
  ASSUME ClosingOpen, AcceptedIsRegistered, UNCHANGED <<thread_num, connVars>>
  PROVE  ClosingOpen' /\ AcceptedIsRegistered'
BY DEF ClosingOpen, AcceptedIsRegistered, connVars, Acceptor, Open

\* The invariant is preserved by a client's connecting and by the accepting
\* thread's Poll and return from Maccept.
LEMMA ListenIInv ==
  ASSUME IInv, (\E c \in Clients : Connect(c)) \/ PollListen \/ AcceptFails \/ AcceptDone
  PROVE  IInv'
<1> USE DEF IInv, mainVars, eventVars, workerVars, connVars
<1>1. UNCHANGED <<thread_num, connVars, eventVars, workerVars>> /\ Workers' = Workers /\ Loops' = Loops
  BY DEF Connect, PollListen, AcceptFails, AcceptDone, vars, Workers, Loops, Acceptor
<1>2. TypeOK'
  <2>1. /\ connecting' \subseteq Clients /\ backlog' \in Seq(Clients)
        /\ listen_ready' \in BOOLEAN /\ accepting' \in BOOLEAN
        /\ cur_event_epoll' = cur_event_epoll
    <3>1. ASSUME NEW c \in Clients, Connect(c)
          PROVE  backlog' \in Seq(Clients) /\ connecting' \subseteq Clients
      BY <3>1 DEF Connect, TypeOK
    <3>2. QED
      BY <3>1 DEF Connect, PollListen, AcceptFails, AcceptDone, vars, TypeOK
  <2>2. QED
    BY <1>1, <2>1 DEF TypeOK
<1>3. NothingStranded' /\ Renewed'
  BY <1>1 DEF Connect, PollListen, AcceptFails, AcceptDone, vars, NothingStranded, Renewed
<1>4. QED
  BY <1>1, <1>2, <1>3, ConnUnchanged

\* The invariant is preserved by a turn of Maccept's loop.
LEMMA AcceptIInv ==
  ASSUME IInv, Accept
  PROVE  IInv'
<1> DEFINE connfd == CHOOSE fd \in Fds \ Open : \A f \in Fds \ Open : fd <= f
           table == [conn EXCEPT ![connfd] = Head(backlog)]
<1> USE DEF IInv, workerVars
<1>1. connfd \in Fds /\ connfd \notin Open /\ connfd \in Nat \ {0}
  BY AcceptedFd, DispatchAssumption DEF Accept
<1>2. /\ backlog # << >> /\ backlog' = Tail(backlog) /\ accepting
      /\ Head(backlog) \in Clients /\ Tail(backlog) \in Seq(Clients)
  BY DEF Accept, TypeOK
<1>3. table \in [Fds -> Clients \cup {NoClient}]
  BY <1>2 DEF TypeOK
<1>4. UNCHANGED <<thread_num, connecting, listen_ready, accepting, wpc, read_buff>>
  BY DEF Accept
<1>5. Workers' = Workers /\ Loops' = Loops
  BY <1>4 DEF Workers, Loops, Acceptor
<1>6. CASE thread_num = 0
  <2>1. Add_New_Connect(Acceptor, connfd, table) /\ UNCHANGED <<cur_event_epoll, eventVars>>
    BY <1>6 DEF Accept
  <2>2. Acceptor \in Loops /\ Workers = {} /\ Acceptor' = Acceptor
    BY <1>4, <1>6, LoopFacts DEF Acceptor
  <2> HIDE DEF connfd, table
  <2>3. TypeOK'
    BY <1>1, <1>2, <1>3, <1>4, <1>5, <2>1, <2>2, AddTypes DEF TypeOK, eventVars
  <2>4. NothingStranded' /\ Renewed'
    BY <1>4, <1>5, <1>2, <2>1, <2>2 DEF NothingStranded, Renewed
  <2>5. connfd \notin Mmap[Acceptor] /\ connfd \notin closing[Acceptor]
    BY <1>1, <1>6 DEF AcceptedIsRegistered, ClosingOpen
  <2>6. /\ conn' = table /\ closing' = closing
        /\ Mmap' = [Mmap EXCEPT ![Acceptor] = @ \cup {connfd}]
        /\ table[connfd] # NoClient
        /\ watched' = [watched EXCEPT ![Acceptor] = @ \cup {connfd}]
    <3>1. table[connfd] # NoClient
      BY <1>1, <1>2, DispatchAssumption DEF table, TypeOK
    <3>2. QED
      BY <1>1, <2>1, <2>5, <3>1 DEF Add_New_Connect, Epoll_Add
  <2>7. Open' = Open \cup {connfd}
    BY <1>1, <2>6 DEF Open, table, TypeOK
  <2>8. ClosingOpen' /\ AcceptedIsRegistered'
    BY <1>1, <1>4, <1>6, <2>2, <2>5, <2>6, <2>7 DEF ClosingOpen, AcceptedIsRegistered, TypeOK
  <2>9. QED
    BY <2>3, <2>4, <2>8
<1>7. CASE thread_num # 0
  <2> DEFINE w == GetNextEventEpollFd
  <2>1. /\ cur_event_epoll' = w
        /\ counter' = [counter EXCEPT ![w] = @ + connfd]
        /\ event_ready' = [event_ready EXCEPT ![w] = TRUE]
        /\ conn' = table /\ UNCHANGED <<Mmap, watched, closing>>
    BY <1>7 DEF Accept
  <2>2. w \in Workers
    BY <1>7, NextWorker
  <2> HIDE DEF connfd, table, w
  <2>3. TypeOK'
    BY <1>1, <1>2, <1>3, <1>4, <1>5, <2>1, <2>2 DEF TypeOK
  <2>4. NothingStranded' /\ Renewed'
    BY <1>2, <1>4, <1>5, <2>1, <2>2 DEF NothingStranded, Renewed, TypeOK
  <2>5. ClosingOpen' /\ AcceptedIsRegistered'
    BY <1>4, <1>7 DEF ClosingOpen, AcceptedIsRegistered
  <2>6. QED
    BY <2>3, <2>4, <2>5
<1>8. QED
  BY <1>6, <1>7

\* The invariant is preserved by each step of a worker.
LEMMA WorkerIInv ==
  ASSUME IInv, NEW w \in Workers, WorkerStep(w)
  PROVE  IInv'
<1> USE DEF IInv, mainVars, eventVars, connVars
<1>0. thread_num # 0 /\ w \in Loops
  BY LoopFacts
<1>1. UNCHANGED <<thread_num, connecting, mainVars>> /\ Workers' = Workers /\ Loops' = Loops
  BY DEF WorkerStep, PollEvent, ReadEvent, ReadDone, AddEvent, Workers, Loops, Acceptor
<1>2. ClosingOpen' /\ AcceptedIsRegistered'
  BY <1>0, <1>1 DEF ClosingOpen, AcceptedIsRegistered
<1>3. CASE PollEvent(w)
  <2>1. TypeOK'
    BY <1>1, <1>3 DEF PollEvent, TypeOK
  <2>2. NothingStranded' /\ Renewed'
    BY <1>1, <1>3 DEF PollEvent, NothingStranded, Renewed, TypeOK
  <2>3. QED
    BY <1>2, <2>1, <2>2
<1>4. CASE ReadEvent(w)
  <2>1. TypeOK'
    BY <1>1, <1>4 DEF ReadEvent, TypeOK
  <2>2. NothingStranded' /\ Renewed'
    BY <1>1, <1>4 DEF ReadEvent, NothingStranded, Renewed, TypeOK
  <2>3. QED
    BY <1>2, <2>1, <2>2
<1>5. CASE ReadDone(w)
  <2>1. TypeOK'
    BY <1>1, <1>5 DEF ReadDone, TypeOK
  <2>2. counter[w] = 0 \/ event_ready[w]
    <3>1. CASE Len(read_buff[w]) = buff_slots
      <4>1. read_buff[w] # << >>
        BY <3>1, EmptySeq, DispatchAssumption
      <4>2. QED
        BY <1>5, <4>1 DEF ReadDone, Renewed, TypeOK
    <3>2. QED
      BY <1>5, <3>1 DEF ReadDone
  <2>3. NothingStranded' /\ Renewed'
    BY <1>1, <1>5, <2>2 DEF ReadDone, NothingStranded, Renewed, TypeOK
  <2>4. QED
    BY <1>2, <2>1, <2>3
<1>6. CASE AddEvent(w)
  <2>1. TypeOK'
    <3>1. CASE read_buff[w] # << >>
      <4>1. /\ Add_New_Connect(w, Head(read_buff[w]), conn)
            /\ read_buff' = [read_buff EXCEPT ![w] = Tail(@)] /\ UNCHANGED <<wpc, eventVars>>
        BY <1>6, <3>1 DEF AddEvent
      <4>2. Head(read_buff[w]) \in Nat /\ Tail(read_buff[w]) \in Seq(Nat)
        BY <3>1 DEF TypeOK
      <4>3. conn \in [Fds -> Clients \cup {NoClient}]
        BY DEF TypeOK
      <4>4. QED
        BY <1>0, <1>1, <4>1, <4>2, <4>3, AddTypes DEF TypeOK
    <3>2. CASE read_buff[w] = << >>
      BY <1>1, <1>6, <3>2 DEF AddEvent, TypeOK
    <3>3. QED
      BY <3>1, <3>2
  <2>2. NothingStranded' /\ Renewed'
    BY <1>1, <1>6 DEF AddEvent, NothingStranded, Renewed, TypeOK
  <2>3. QED
    BY <1>2, <2>1, <2>2
<1>7. QED
  BY <1>3, <1>4, <1>5, <1>6 DEF WorkerStep

\* The invariant is preserved when a connection ends.
LEMMA CloseIInv ==
  ASSUME IInv, NEW l \in Loops, NEW fd \in Fds, handle_close(l, fd) \/ ChannelDestroyed(l, fd)
  PROVE  IInv'
<1> USE DEF IInv, mainVars, eventVars, workerVars
<1>1. /\ UNCHANGED <<thread_num, connecting, mainVars, eventVars, workerVars>>
      /\ Workers' = Workers /\ Loops' = Loops /\ Acceptor' = Acceptor
  BY DEF handle_close, ChannelDestroyed, Workers, Loops, Acceptor
<1>2. NothingStranded' /\ Renewed'
  BY <1>1 DEF NothingStranded, Renewed
<1>3. CASE handle_close(l, fd)
  <2>1. TypeOK'
    BY <1>1, <1>3 DEF handle_close, Epoll_Del, TypeOK
  <2>2. ASSUME thread_num = 0
        PROVE  ClosingOpen' /\ AcceptedIsRegistered'
    <3>1. l = Acceptor
      BY <2>2, LoopFacts
    <3>2. Open' = Open
      BY <1>3 DEF handle_close, Open
    <3>3. QED
      BY <1>1, <1>3, <2>2, <3>1, <3>2
      DEF handle_close, Epoll_Del, ClosingOpen, AcceptedIsRegistered, TypeOK
  <2>3. QED
    BY <1>1, <1>2, <2>1, <2>2 DEF ClosingOpen, AcceptedIsRegistered
<1>4. CASE ChannelDestroyed(l, fd)
  <2>1. TypeOK'
    BY <1>1, <1>4 DEF ChannelDestroyed, close, TypeOK
  <2>2. ASSUME thread_num = 0
        PROVE  ClosingOpen' /\ AcceptedIsRegistered'
    <3>1. l = Acceptor
      BY <2>2, LoopFacts
    <3>2. Open' = Open \ {fd}
      BY <1>4 DEF ChannelDestroyed, close, Open, TypeOK
    <3>3. QED
      BY <1>1, <1>4, <2>2, <3>1, <3>2
      DEF ChannelDestroyed, close, ClosingOpen, AcceptedIsRegistered, TypeOK
  <2>3. QED
    BY <1>1, <1>2, <2>1, <2>2 DEF ClosingOpen, AcceptedIsRegistered
<1>5. QED
  BY <1>3, <1>4

\* Every step of every thread preserves the invariant.
LEMMA NextIInv == IInv /\ [Next]_vars => IInv'
<1> SUFFICES ASSUME IInv, [Next]_vars PROVE IInv'
  OBVIOUS
<1>1. CASE (\E c \in Clients : Connect(c)) \/ AcceptorStep
  BY <1>1, ListenIInv, AcceptIInv DEF AcceptorStep
<1>2. CASE \E w \in Workers : WorkerStep(w)
  BY <1>2, WorkerIInv
<1>3. CASE \E l \in Loops, fd \in Fds : handle_close(l, fd) \/ ChannelDestroyed(l, fd)
  BY <1>3, CloseIInv
<1>4. CASE UNCHANGED vars
  BY <1>4 DEF vars, mainVars, eventVars, workerVars, connVars, IInv, TypeOK, Workers, Loops,
              Acceptor, Open, NothingStranded, Renewed, ClosingOpen, AcceptedIsRegistered
<1>5. QED
  BY <1>1, <1>2, <1>3, <1>4 DEF Next

-----------------------------------------------------------------------------

\* The tables of every loop keep their types, for every number of workers: the
\* round robin always names a worker that exists.
THEOREM TypeCorrect == Spec => []TypeOK
<1>1. IInv => TypeOK
  BY DEF IInv
<1>2. QED
  BY <1>1, InitIInv, NextIInv, PTL DEF Spec

\* Maccept and sysreadn never use up an edge and leave a client or a
\* notification behind it, also when sysreadn stops at a full read_buff.
THEOREM NothingStrandedCorrect == Spec => []NothingStranded
<1>1. IInv => NothingStranded
  BY DEF IInv
<1>2. QED
  BY <1>1, InitIInv, NextIInv, PTL DEF Spec

\* With one thread, Mmap and the kernel's interest list are the open
\* connections that are not on their way out, so Epoll_Add never refuses one.
THEOREM AcceptedIsRegisteredCorrect == Spec => []AcceptedIsRegistered
<1>1. IInv => AcceptedIsRegistered
  BY DEF IInv
<1>2. QED
  BY <1>1, InitIInv, NextIInv, PTL DEF Spec

=============================================================================

------------------------------- MODULE Hooks --------------------------------
(***************************************************************************)
(* libco's hooked system calls (libco/co_hook_sys_call.cpp): the table of  *)
(* descriptors g_rpchook_socket_fd, the calls that keep it, and the calls  *)
(* that wait in poll() instead of blocking the thread.                     *)
(*                                                                         *)
(* One thread.  Its coroutines interleave where poll() suspends them; when *)
(* a system call blocks, all of them stand still.  A call comes back from  *)
(* poll() on an event or at its timeout; only connect looks at which.      *)
(* Lengths are counted in units of the socket buffers.                     *)
(***************************************************************************)
EXTENDS Integers, FiniteSets, FiniteSetsExt

CONSTANTS
  Callers,      \* the coroutines of the thread
  Sockets,      \* descriptor numbers, given out lowest first
  Cap,          \* units a socket buffer holds
  nbyte,        \* length of every write and send
  None          \* NULL, no descriptor, no coroutine

ASSUME HooksAssumption ==
  /\ IsFiniteSet(Callers) /\ Sockets \subseteq Nat
  /\ Cap \in Nat \ {0} /\ nbyte \in Nat \ {0}
  /\ None \notin Callers \cup BOOLEAN

VARIABLES
  cEnableSysHook,  \* stCoRoutine_t::cEnableSysHook
  table,           \* g_rpchook_socket_fd: user_flag has O_NONBLOCK; None: NULL
  nonblock,        \* O_NONBLOCK of the open descriptor; None: not open
  link,            \* the connection of a descriptor
  rcv,             \* units that can be read
  snd,             \* units that can be written
  call,            \* the call each coroutine is in
  blocked,         \* the coroutine whose system call blocks the thread
  managed,         \* descriptors of hooked socket() calls, see fcntl
  unreported       \* units the kernel took of writes that have not returned

kernelVars == <<nonblock, link, rcv, snd>>
hookVars == <<cEnableSysHook, table, kernelVars, call, blocked, managed, unreported>>

NoCall == [op |-> "none", fd |-> None, done |-> 0]
Open == {fd \in Sockets : nonblock[fd] # None}

HookInit ==
  /\ cEnableSysHook = [co \in Callers |-> FALSE]
  /\ table = [fd \in Sockets |-> None]
  /\ nonblock = [fd \in Sockets |-> None]
  /\ link = [fd \in Sockets |-> "idle"]
  /\ rcv = [fd \in Sockets |-> 0] /\ snd = [fd \in Sockets |-> Cap]
  /\ call = [co \in Callers |-> NoCall]
  /\ blocked = None
  /\ managed = {}
  /\ unreported = [fd \in Sockets |-> 0]

\* co runs and is in no call.
Ready(co) == blocked = None /\ call[co] = NoCall

\* co_enable_hook_sys, co_disable_hook_sys.
SetHook(co) ==
  /\ Ready(co)
  /\ cEnableSysHook' = [cEnableSysHook EXCEPT ![co] = ~ @]
  /\ UNCHANGED <<table, kernelVars, call, blocked, managed, unreported>>

-----------------------------------------------------------------------------
(* The calls that make and change descriptors *)

\* The kernel opens the lowest free descriptor.
Opens(fd, state) ==
  /\ fd \notin Open /\ \A n \in Sockets : n < fd => n \in Open
  /\ link' = [link EXCEPT ![fd] = state]
  /\ rcv' = [rcv EXCEPT ![fd] = 0] /\ snd' = [snd EXCEPT ![fd] = Cap]

FlagsOnSetFL_AsAsked(hooked, lp, param) == param
\* fcntl(F_SETFL): the flag the kernel is given ...
FlagsOnSetFL(hooked, lp, param) == param \/ (hooked /\ lp # None)

\* socket: a hooked one is entered in the table (alloc_by_fd) and made
\* non-blocking through fcntl, without the user's knowing.  One that is not
\* hooked leaves the table alone, whatever it holds for that number.
socket(co, fd) ==
  /\ Ready(co)
  /\ Opens(fd, "idle")
  /\ IF cEnableSysHook[co]
     THEN /\ table' = [table EXCEPT ![fd] = FALSE]
          /\ nonblock' = [nonblock EXCEPT ![fd] = FlagsOnSetFL(TRUE, FALSE, FALSE)]
          /\ managed' = managed \cup {fd}
     ELSE /\ nonblock' = [nonblock EXCEPT ![fd] = FALSE]
          /\ UNCHANGED <<table, managed>>
  /\ UNCHANGED <<cEnableSysHook, call, blocked, unreported>>

\* co_accept: entered in the table, hooked or not; it stays blocking until the
\* caller sets O_NONBLOCK.
co_accept(co, fd) ==
  /\ Ready(co)
  /\ Opens(fd, "up")
  /\ table' = [table EXCEPT ![fd] = FALSE]
  /\ nonblock' = [nonblock EXCEPT ![fd] = FALSE]
  /\ UNCHANGED <<cEnableSysHook, call, blocked, managed, unreported>>

\* ... and user_flag is what the user asked for.  A managed descriptor stays
\* one while no coroutine clears its flag with the hook off.
fcntl(co, fd, param) ==
  /\ Ready(co)
  /\ fd \in Open
  /\ nonblock' = [nonblock EXCEPT ![fd] = FlagsOnSetFL(cEnableSysHook[co], table[fd], param)]
  /\ table' = IF table[fd] # None THEN [table EXCEPT ![fd] = param] ELSE table
  /\ managed' = IF cEnableSysHook[co] \/ param THEN managed ELSE managed \ {fd}
  /\ UNCHANGED <<cEnableSysHook, link, rcv, snd, call, blocked, unreported>>

\* close: the entry goes only when the hook is on (free_by_fd).  Nobody closes
\* a descriptor that another coroutine is in a call with.
close(co, fd) ==
  /\ Ready(co)
  /\ fd \in Open
  /\ \A other \in Callers : call[other].fd # fd
  /\ table' = IF cEnableSysHook[co] THEN [table EXCEPT ![fd] = None] ELSE table
  /\ nonblock' = [nonblock EXCEPT ![fd] = None]
  /\ managed' = managed \ {fd}
  /\ UNCHANGED <<cEnableSysHook, link, rcv, snd, call, blocked, unreported>>

-----------------------------------------------------------------------------
(* The calls that wait *)

\* The hook stands in for a blocking call: it is on, the descriptor is in the
\* table, and the user did not ask for O_NONBLOCK.
StandsIn(co, fd) == cEnableSysHook[co] /\ table[fd] = FALSE

Enter(co, op, fd, done) == call' = [call EXCEPT ![co] = [op |-> op, fd |-> fd, done |-> done]]
Return(co) == call' = [call EXCEPT ![co] = NoCall]

\* The system's read: it takes what there is, fails, or blocks the thread.
RawRead(co, fd) ==
  \/ /\ rcv[fd] > 0 /\ rcv' = [rcv EXCEPT ![fd] = 0]
     /\ Return(co) /\ blocked' = None
  \/ /\ rcv[fd] = 0 /\ nonblock[fd]
     /\ Return(co) /\ blocked' = None /\ UNCHANGED rcv
  \/ /\ rcv[fd] = 0 /\ ~ nonblock[fd]
     /\ Enter(co, "read", fd, 0) /\ blocked' = co /\ UNCHANGED rcv

\* read, recvfrom and recv: poll first, then the system's call, whatever poll said.
Receive(co, fd) ==
  /\ Ready(co)
  /\ fd \in Open /\ link[fd] = "up"
  /\ IF StandsIn(co, fd)
     THEN /\ Enter(co, "read", fd, 0)
          /\ UNCHANGED <<rcv, blocked>>
     ELSE RawRead(co, fd)
  /\ UNCHANGED <<cEnableSysHook, table, nonblock, link, snd, managed, unreported>>

read(co, fd) == Receive(co, fd)
recvfrom(co, fd) == Receive(co, fd)
recv(co, fd) == Receive(co, fd)

ReadResumes(co) ==
  /\ blocked = None
  /\ call[co].op = "read"
  /\ RawRead(co, call[co].fd)
  /\ UNCHANGED <<cEnableSysHook, table, nonblock, link, snd, managed, unreported>>

Takes(fd, done) == Min({snd[fd], nbyte - done})

Returned_LastResult(done, n) == n
\* What a write returns when its last attempt wrote n units after done others:
\* their sum, also when that attempt failed.
Returned(done, n) == done + n

\* The system's write of what is left.  The kernel takes what it has room for;
\* a blocking descriptor then blocks the thread for the rest.  Or the write
\* takes nothing and its result is zero or an error.  Retry holds the results
\* after which the hook polls and tries once more when it is not complete.
RawWrite(co, fd, done, Retry) ==
  \E ret \in {-1, 0, Takes(fd, done)} :
    LET n     == IF ret < 0 THEN 0 ELSE ret
        total == done + n
        stuck == ~ nonblock[fd] /\ n > 0 /\ total < nbyte
    IN  /\ snd' = [snd EXCEPT ![fd] = @ - n]
        /\ IF stuck \/ (total < nbyte /\ ret \in Retry)
           THEN /\ Enter(co, "write", fd, total)
                /\ unreported' = [unreported EXCEPT ![fd] = @ + n]
           ELSE /\ Return(co)
                /\ unreported' = [unreported EXCEPT ![fd] = @ + n - Returned(done, n)]
        /\ blocked' = IF stuck THEN co ELSE None

\* A blocking descriptor without room: nothing is written yet.
WriteBlocks(co, fd, done) ==
  /\ ~ nonblock[fd] /\ snd[fd] = 0
  /\ Enter(co, "write", fd, done)
  /\ blocked' = co
  /\ UNCHANGED <<snd, unreported>>

\* write and send: one attempt, after which a result of zero is returned; when
\* the hook stands in, whatever else is missing is attempted again after a poll ...
Transmit(co, fd) ==
  /\ Ready(co)
  /\ fd \in Open /\ link[fd] = "up"
  /\ \/ RawWrite(co, fd, 0, IF StandsIn(co, fd) THEN Int \ {0} ELSE {})
     \/ WriteBlocks(co, fd, 0)
  /\ UNCHANGED <<cEnableSysHook, table, nonblock, link, rcv, managed>>

write(co, fd) == Transmit(co, fd)
send(co, fd) == Transmit(co, fd)

\* ... until an attempt writes nothing.
WriteResumes(co) ==
  /\ blocked = None
  /\ call[co].op = "write"
  /\ \/ RawWrite(co, call[co].fd, call[co].done, Nat \ {0})
     \/ WriteBlocks(co, call[co].fd, call[co].done)
  /\ UNCHANGED <<cEnableSysHook, table, nonblock, link, rcv, managed>>

\* The system's sendto: a message of one unit is taken whole or not at all.
RawSendto(co, fd) ==
  \/ /\ snd[fd] > 0 /\ snd' = [snd EXCEPT ![fd] = @ - 1]
     /\ Return(co) /\ blocked' = None
  \/ /\ snd[fd] = 0 /\ nonblock[fd]
     /\ Return(co) /\ blocked' = None /\ UNCHANGED snd
  \/ /\ snd[fd] = 0 /\ ~ nonblock[fd]
     /\ Enter(co, "sendto", fd, 0) /\ blocked' = co /\ UNCHANGED snd

\* sendto: EAGAIN makes it poll, and it tries a second and last time.
sendto(co, fd) ==
  /\ Ready(co)
  /\ fd \in Open
  /\ IF StandsIn(co, fd) /\ snd[fd] = 0 /\ nonblock[fd]
     THEN Enter(co, "sendto", fd, 0) /\ UNCHANGED <<snd, blocked>>
     ELSE RawSendto(co, fd)
  /\ UNCHANGED <<cEnableSysHook, table, nonblock, link, rcv, managed, unreported>>

SendtoResumes(co) ==
  /\ blocked = None
  /\ call[co].op = "sendto"
  /\ RawSendto(co, call[co].fd)
  /\ UNCHANGED <<cEnableSysHook, table, nonblock, link, rcv, managed, unreported>>

\* connect: a result the system has at once is returned.  Otherwise a
\* non-blocking descriptor answers EINPROGRESS and the hook polls; a blocking one
\* blocks the thread, hooked or not.
connect(co, fd) ==
  /\ Ready(co)
  /\ fd \in Open /\ link[fd] = "idle"
  /\ \/ /\ \E end \in {"up", "refused"} : link' = [link EXCEPT ![fd] = end]
        /\ UNCHANGED <<call, blocked>>
     \/ /\ link' = [link EXCEPT ![fd] = "connecting"]
        /\ IF nonblock[fd] /\ ~ StandsIn(co, fd)
           THEN UNCHANGED call
           ELSE Enter(co, "connect", fd, 0)
        /\ blocked' = IF nonblock[fd] THEN None ELSE co
  /\ UNCHANGED <<cEnableSysHook, table, nonblock, rcv, snd, managed, unreported>>

ConnectResumes_NoCount(co) ==
  /\ blocked = None
  /\ call[co].op = "connect"
  /\ \/ link[call[co].fd] # "connecting" /\ Return(co)
     \/ call' = call
  /\ UNCHANGED <<cEnableSysHook, table, kernelVars, blocked, managed, unreported>>
\* It polls three times at most; an event ends it.  A refused connection is
\* reported writable too and makes connect return 0.
ConnectResumes(co) ==
  /\ blocked = None
  /\ call[co].op = "connect"
  /\ \/ link[call[co].fd] # "connecting" /\ Return(co)
     \/ call[co].done < 2 /\ Enter(co, "connect", call[co].fd, call[co].done + 1)
     \/ call[co].done = 2 /\ Return(co)
  /\ UNCHANGED <<cEnableSysHook, table, kernelVars, blocked, managed, unreported>>

-----------------------------------------------------------------------------
(* The kernel and the peers *)

Peer(fd) ==
  /\ fd \in Open
  /\ \/ /\ link[fd] = "connecting" /\ link' = [link EXCEPT ![fd] = "up"]
        /\ UNCHANGED <<rcv, snd>>
     \/ /\ link[fd] = "connecting" /\ link' = [link EXCEPT ![fd] = "refused"]
        /\ UNCHANGED <<rcv, snd>>
     \/ /\ link[fd] = "up" /\ rcv[fd] < Cap /\ rcv' = [rcv EXCEPT ![fd] = @ + 1]
        /\ UNCHANGED <<link, snd>>
     \/ /\ snd[fd] < Cap /\ snd' = [snd EXCEPT ![fd] = @ + 1]
        /\ UNCHANGED <<link, rcv>>
  /\ UNCHANGED <<cEnableSysHook, table, nonblock, call, blocked, managed, unreported>>

\* What the blocked system call waited for has come.
Unblock ==
  LET co == blocked
      fd == call[co].fd
  IN  /\ co # None
      /\ \/ /\ call[co].op = "read" /\ rcv[fd] > 0
            /\ RawRead(co, fd) /\ UNCHANGED <<snd, unreported>>
         \/ /\ call[co].op = "write" /\ snd[fd] > 0
            /\ RawWrite(co, fd, call[co].done, {}) /\ UNCHANGED rcv
         \/ /\ call[co].op = "sendto" /\ snd[fd] > 0
            /\ RawSendto(co, fd) /\ UNCHANGED <<rcv, unreported>>
         \/ /\ call[co].op = "connect" /\ link[fd] # "connecting"
            /\ Return(co) /\ blocked' = None /\ UNCHANGED <<rcv, snd, unreported>>
      /\ UNCHANGED <<cEnableSysHook, table, nonblock, link, managed>>

Resumes(co) == ReadResumes(co) \/ WriteResumes(co) \/ SendtoResumes(co) \/ ConnectResumes(co)

Calls(co, fd) ==
  \/ socket(co, fd) \/ co_accept(co, fd) \/ close(co, fd)
  \/ \E param \in BOOLEAN : fcntl(co, fd, param)
  \/ read(co, fd) \/ recvfrom(co, fd) \/ recv(co, fd)
  \/ write(co, fd) \/ send(co, fd) \/ sendto(co, fd) \/ connect(co, fd)

HookNext ==
  \/ \E co \in Callers :
       SetHook(co) \/ Resumes(co) \/ \E fd \in Sockets : Calls(co, fd)
  \/ \E fd \in Sockets : Peer(fd)
  \/ Unblock

HookSpec == HookInit /\ [][HookNext]_hookVars

\* co_eventloop resumes every coroutine in poll at the latest at its timeout.
FairHookSpec == HookSpec /\ \A co \in Callers : SF_hookVars(Resumes(co))

-----------------------------------------------------------------------------
(* Properties *)

\* The thread never blocks in a call on a descriptor that came from a hooked
\* socket() and whose flag nobody cleared with the hook off: not even when the
\* number was used before and a stale entry is left in the table, when poll()
\* timed out, or when the user sets and clears O_NONBLOCK.
NeverBlocksManaged ==
  blocked # None => call[blocked].fd \notin managed

\* Every unit the kernel took from a write or send is in the count some call
\* returned or will return, although calls on one descriptor interleave and any
\* attempt can fail after earlier ones succeeded.
WritesAccounted ==
  \A fd \in Sockets :
    unreported[fd] =
      MapThenSumSet(LAMBDA co : call[co].done,
                    {co \in Callers : call[co].op = "write" /\ call[co].fd = fd})

\* A hooked call returns, whatever its peer does, unless the thread blocks for
\* ever in a system call on some other descriptor.
EventuallyReturns ==
  []<>(blocked = None) =>
    \A co \in Callers : (call[co] # NoCall) ~> (call[co] = NoCall)

=============================================================================

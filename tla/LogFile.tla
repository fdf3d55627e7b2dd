------------------------------ MODULE LogFile -------------------------------
(***************************************************************************)
(* The asynchronous log: put_write_string (called by ~Log in any thread),  *)
(* and the bodies of LogWriteThread (write_file) and LogSwapThread (swap), *)
(* LogFile.cpp.  One step is the code between two points where another     *)
(* thread can make a difference: each mutex call, condition-variable call  *)
(* and queue operation is a step of its own.                               *)
(*                                                                         *)
(* A condition variable is the set of threads asleep on it.  A thread that *)
(* pthread_cond_wait wakes, by a broadcast or spuriously, must take its    *)
(* mutex again before it goes on.                                          *)
(***************************************************************************)
EXTENDS Naturals, Sequences, FiniteSets, SequencesExt

CONSTANTS
  Loggers,       \* threads whose ~Log calls put_write_string
  Writer,        \* LogWriteThread
  Swapper,       \* LogSwapThread
  Messages,      \* the buffers logged; each is a distinct new char[2048]
  NoThread,      \* owner of a free mutex
  NoMessage      \* a logger outside put_write_string

Threads == Loggers \cup {Writer, Swapper}

ASSUME LogAssumption ==
  /\ Writer \notin Loggers
  /\ Swapper \notin Loggers
  /\ Writer # Swapper
  /\ NoThread \notin Threads
  /\ NoMessage \notin Messages

VARIABLES
  pc,               \* the next step of each thread
  buff,             \* argument of each logger's put_write_string
  put_Mutex,        \* the thread that holds put_Mutex
  get_Mutex,        \* the thread that holds get_Mutex
  Swap_Cond,        \* the threads asleep on Swap_Cond
  get_Cond,         \* the threads asleep on get_Cond
  WriteTask,        \* the buffer being written out
  Wait_WriteTask,   \* the buffer being filled
  logged,           \* messages some logger has handed to put_write_string
  file              \* messages passed to write(), in order

locks == <<put_Mutex, get_Mutex>>
conds == <<Swap_Cond, get_Cond>>
queues == <<WriteTask, Wait_WriteTask>>
vars == <<pc, buff, locks, conds, queues, logged, file>>

loggerPc == {"idle", "lock_put", "push", "signal_swap", "unlock_put"}
writerPc == {"lock_get", "test_write", "signal_swap", "wait_get", "asleep",
             "pop", "unlock_get"}
swapperPc == {"lock_get", "test_write", "wait_swap_get", "asleep_get",
              "lock_put", "test_wait", "wait_swap_put", "asleep_put", "swap",
              "signal_get", "unlock_get", "unlock_put"}

TypeOK ==
  /\ pc \in [Threads -> loggerPc \cup writerPc \cup swapperPc]
  /\ \A t \in Loggers : pc[t] \in loggerPc
  /\ pc[Writer] \in writerPc
  /\ pc[Swapper] \in swapperPc
  /\ buff \in [Loggers -> Messages \cup {NoMessage}]
  /\ put_Mutex \in Threads \cup {NoThread}
  /\ get_Mutex \in Threads \cup {NoThread}
  /\ Swap_Cond \subseteq {Swapper}
  /\ get_Cond \subseteq {Writer}
  /\ WriteTask \in Seq(Messages)
  /\ Wait_WriteTask \in Seq(Messages)
  /\ logged \subseteq Messages
  /\ file \in Seq(Messages)

Init ==
  /\ pc = [t \in Threads |-> IF t \in Loggers THEN "idle" ELSE "lock_get"]
  /\ buff = [t \in Loggers |-> NoMessage]
  /\ put_Mutex = NoThread
  /\ get_Mutex = NoThread
  /\ Swap_Cond = {}
  /\ get_Cond = {}
  /\ WriteTask = << >>
  /\ Wait_WriteTask = << >>
  /\ logged = {}
  /\ file = << >>

-----------------------------------------------------------------------------
(* pthread operations: external, as the code uses them *)

Goto(t, from, to) == pc[t] = from /\ pc' = [pc EXCEPT ![t] = to]

LockPut(t) == put_Mutex = NoThread /\ put_Mutex' = t /\ UNCHANGED get_Mutex
LockGet(t) == get_Mutex = NoThread /\ get_Mutex' = t /\ UNCHANGED put_Mutex
UnlockPut == put_Mutex' = NoThread /\ UNCHANGED get_Mutex
UnlockGet == get_Mutex' = NoThread /\ UNCHANGED put_Mutex

\* pthread_cond_broadcast: every thread asleep on the variable is woken.
BroadcastSwap == Swap_Cond' = {} /\ UNCHANGED get_Cond
BroadcastGet == get_Cond' = {} /\ UNCHANGED Swap_Cond

-----------------------------------------------------------------------------
(* put_write_string, in a logging thread *)

\* ~Log calls put_write_string with a buffer nobody else has.
Append_Log(t) ==
  /\ \E m \in Messages \ logged :
       /\ buff' = [buff EXCEPT ![t] = m]
       /\ logged' = logged \cup {m}
  /\ Goto(t, "idle", "lock_put")
  /\ UNCHANGED <<locks, conds, queues, file>>

PutLock(t) ==
  /\ Goto(t, "lock_put", "push")
  /\ LockPut(t)
  /\ UNCHANGED <<buff, conds, queues, logged, file>>

PutPush(t) ==
  /\ Goto(t, "push", "signal_swap")
  /\ Wait_WriteTask' = Append(Wait_WriteTask, buff[t])
  /\ buff' = [buff EXCEPT ![t] = NoMessage]
  /\ UNCHANGED <<locks, conds, WriteTask, logged, file>>

PutSignal_None(t) ==
  /\ Goto(t, "signal_swap", "unlock_put")
  /\ UNCHANGED <<buff, locks, conds, queues, logged, file>>
PutSignal(t) ==
  /\ Goto(t, "signal_swap", "unlock_put")
  /\ BroadcastSwap
  /\ UNCHANGED <<buff, locks, queues, logged, file>>

PutUnlock(t) ==
  /\ Goto(t, "unlock_put", "idle")
  /\ UnlockPut
  /\ UNCHANGED <<buff, conds, queues, logged, file>>

-----------------------------------------------------------------------------
(* write_file, in the writer thread *)

WriteLock ==
  /\ Goto(Writer, "lock_get", "test_write")
  /\ LockGet(Writer)
  /\ UNCHANGED <<buff, conds, queues, logged, file>>

\* while(WriteTask.size() == 0)
WriteTest ==
  /\ Goto(Writer, "test_write", IF WriteTask = << >> THEN "signal_swap" ELSE "pop")
  /\ UNCHANGED <<buff, locks, conds, queues, logged, file>>

WriteSignal_None ==
  /\ Goto(Writer, "signal_swap", "wait_get")
  /\ UNCHANGED <<buff, locks, conds, queues, logged, file>>
WriteSignal ==
  /\ Goto(Writer, "signal_swap", "wait_get")
  /\ BroadcastSwap
  /\ UNCHANGED <<buff, locks, queues, logged, file>>

\* pthread_cond_wait(&get_Cond, &get_Mutex): unlock and fall asleep at once.
WriteWait ==
  /\ Goto(Writer, "wait_get", "asleep")
  /\ get_Cond' = get_Cond \cup {Writer}
  /\ UnlockGet
  /\ UNCHANGED <<buff, Swap_Cond, queues, logged, file>>

\* Woken: take get_Mutex again and test again.
WriteWake ==
  /\ Writer \notin get_Cond
  /\ Goto(Writer, "asleep", "test_write")
  /\ LockGet(Writer)
  /\ UNCHANGED <<buff, conds, queues, logged, file>>

\* One turn of while(WriteTask.size() > 0): pop, write(), delete[].
WritePop ==
  /\ WriteTask # << >>
  /\ Goto(Writer, "pop", IF Len(WriteTask) = 1 THEN "unlock_get" ELSE "pop")
  /\ WriteTask' = Tail(WriteTask)
  /\ file' = Append(file, Head(WriteTask))
  /\ UNCHANGED <<buff, locks, conds, Wait_WriteTask, logged>>

WriteUnlock ==
  /\ Goto(Writer, "unlock_get", "lock_get")
  /\ UnlockGet
  /\ UNCHANGED <<buff, conds, queues, logged, file>>

-----------------------------------------------------------------------------
(* swap, in the swap thread *)

SwapLockGet ==
  /\ Goto(Swapper, "lock_get", "test_write")
  /\ LockGet(Swapper)
  /\ UNCHANGED <<buff, conds, queues, logged, file>>

\* while(WriteTask.size() != 0)
SwapTestWrite ==
  /\ Goto(Swapper, "test_write",
          IF WriteTask # << >> THEN "wait_swap_get" ELSE "lock_put")
  /\ UNCHANGED <<buff, locks, conds, queues, logged, file>>

SwapWaitGet_OnGetCond ==
  /\ Goto(Swapper, "wait_swap_get", "asleep_get")
  /\ get_Cond' = get_Cond \cup {Swapper}
  /\ UnlockGet
  /\ UNCHANGED <<buff, Swap_Cond, queues, logged, file>>
\* pthread_cond_wait(&Swap_Cond, &get_Mutex)
SwapWaitGet ==
  /\ Goto(Swapper, "wait_swap_get", "asleep_get")
  /\ Swap_Cond' = Swap_Cond \cup {Swapper}
  /\ UnlockGet
  /\ UNCHANGED <<buff, get_Cond, queues, logged, file>>

SwapWakeGet_NoRetest ==
  /\ Swapper \notin Swap_Cond
  /\ Goto(Swapper, "asleep_get", "lock_put")
  /\ LockGet(Swapper)
  /\ UNCHANGED <<buff, conds, queues, logged, file>>
SwapWakeGet ==
  /\ Swapper \notin Swap_Cond
  /\ Goto(Swapper, "asleep_get", "test_write")
  /\ LockGet(Swapper)
  /\ UNCHANGED <<buff, conds, queues, logged, file>>

SwapLockPut ==
  /\ Goto(Swapper, "lock_put", "test_wait")
  /\ LockPut(Swapper)
  /\ UNCHANGED <<buff, conds, queues, logged, file>>

\* while(Wait_WriteTask.size() == 0)
SwapTestWait ==
  /\ Goto(Swapper, "test_wait",
          IF Wait_WriteTask = << >> THEN "wait_swap_put" ELSE "swap")
  /\ UNCHANGED <<buff, locks, conds, queues, logged, file>>

\* pthread_cond_wait(&Swap_Cond, &put_Mutex), with get_Mutex still held.
SwapWaitPut ==
  /\ Goto(Swapper, "wait_swap_put", "asleep_put")
  /\ Swap_Cond' = Swap_Cond \cup {Swapper}
  /\ UnlockPut
  /\ UNCHANGED <<buff, get_Cond, queues, logged, file>>

SwapWakePut ==
  /\ Swapper \notin Swap_Cond
  /\ Goto(Swapper, "asleep_put", "test_wait")
  /\ LockPut(Swapper)
  /\ UNCHANGED <<buff, conds, queues, logged, file>>

\* WriteTask.swap(Wait_WriteTask)
SwapSwap ==
  /\ Goto(Swapper, "swap", "signal_get")
  /\ WriteTask' = Wait_WriteTask
  /\ Wait_WriteTask' = WriteTask
  /\ UNCHANGED <<buff, locks, conds, logged, file>>

SwapSignal ==
  /\ Goto(Swapper, "signal_get", "unlock_get")
  /\ BroadcastGet
  /\ UNCHANGED <<buff, locks, queues, logged, file>>

SwapUnlockGet ==
  /\ Goto(Swapper, "unlock_get", "unlock_put")
  /\ UnlockGet
  /\ UNCHANGED <<buff, conds, queues, logged, file>>

SwapUnlockPut ==
  /\ Goto(Swapper, "unlock_put", "lock_get")
  /\ UnlockPut
  /\ UNCHANGED <<buff, conds, queues, logged, file>>

-----------------------------------------------------------------------------

\* pthread_cond_wait may return without a broadcast.
SpuriousWakeup ==
  /\ \/ Swap_Cond # {} /\ BroadcastSwap
     \/ get_Cond # {} /\ BroadcastGet
  /\ UNCHANGED <<pc, buff, locks, queues, logged, file>>

LoggerStep(t) == PutLock(t) \/ PutPush(t) \/ PutSignal(t) \/ PutUnlock(t)

write_file ==
  \/ WriteLock \/ WriteTest \/ WriteSignal \/ WriteWait \/ WriteWake
  \/ WritePop \/ WriteUnlock

swap ==
  \/ SwapLockGet \/ SwapTestWrite \/ SwapWaitGet \/ SwapWakeGet
  \/ SwapLockPut \/ SwapTestWait \/ SwapWaitPut \/ SwapWakePut
  \/ SwapSwap \/ SwapSignal \/ SwapUnlockGet \/ SwapUnlockPut

Next ==
  \/ \E t \in Loggers : Append_Log(t) \/ LoggerStep(t)
  \/ write_file
  \/ swap
  \/ SpuriousWakeup

Spec == Init /\ [][Next]_vars

\* The kernel keeps scheduling every thread that can run.  No thread owes the
\* program another log message.
FairSpec ==
  /\ Spec
  /\ \A t \in Loggers : WF_vars(LoggerStep(t))
  /\ WF_vars(write_file)
  /\ WF_vars(swap)

-----------------------------------------------------------------------------
(* Properties *)

\* Steps a thread takes with put_Mutex, or with get_Mutex, held.
holdsPut(t) ==
  \/ t \in Loggers /\ pc[t] \in {"push", "signal_swap", "unlock_put"}
  \/ t = Swapper /\ pc[t] \in {"test_wait", "wait_swap_put", "swap", "signal_get",
                                "unlock_get", "unlock_put"}
holdsGet(t) ==
  \/ t = Writer /\ pc[t] \in {"test_write", "signal_swap", "wait_get", "pop",
                               "unlock_get"}
  \/ t = Swapper /\ pc[t] \in {"test_write", "wait_swap_get", "lock_put", "test_wait",
                                "wait_swap_put", "asleep_put", "swap", "signal_get",
                                "unlock_get"}

\* Every queue operation is done by the holder of the queue's mutex: each mutex
\* is owned by exactly the thread whose code has locked and not unlocked it,
\* also across the two pthread_cond_wait calls of swap() on different mutexes.
LockDiscipline ==
  \A t \in Threads :
    /\ put_Mutex = t <=> holdsPut(t)
    /\ get_Mutex = t <=> holdsGet(t)

\* No wakeup is lost between the three kinds of threads: a thread that is still
\* asleep although what it waits for has happened has a broadcast coming.  For
\* the swap thread on get_Mutex, WriteTask is empty and the writer is on its
\* way to broadcast Swap_Cond; on put_Mutex, a message is queued and its logger
\* has not broadcast yet; for the writer, WriteTask is filled and swap() has
\* not broadcast get_Cond yet.
NoLostWakeup ==
  /\ Swapper \in Swap_Cond /\ pc[Swapper] = "asleep_get" /\ WriteTask = << >> =>
       \/ pc[Writer] \in {"unlock_get", "lock_get", "test_write", "signal_swap"}
       \/ pc[Writer] = "asleep" /\ Writer \notin get_Cond
  /\ Swapper \in Swap_Cond /\ pc[Swapper] = "asleep_put" /\ Wait_WriteTask # << >> =>
       \E t \in Loggers : pc[t] = "signal_swap"
  /\ Writer \in get_Cond /\ WriteTask # << >> => pc[Swapper] = "signal_get"

\* The swap of the two buffers never puts unwritten messages back: swap() runs
\* it only when WriteTask is empty and Wait_WriteTask is not.
SwapMovesForward ==
  pc[Swapper] = "swap" => WriteTask = << >> /\ Wait_WriteTask # << >>

Fifo == INSTANCE FifoChannel WITH
          Elements <- Messages,
          queue <- WriteTask \o Wait_WriteTask,
          taken <- file

\* The two buffers and three kinds of threads behave as one FIFO channel: the
\* file gets every message once, in the order of the pushes.
ImplementsFifoChannel == Fifo!Spec

\* Every message handed to put_write_string is eventually passed to write(),
\* unless spurious wakeups go on for ever: a mutex is not a fair queue, and the
\* writer and the swap thread could then take turns without end.
EventuallyWritten ==
  <>[][~ SpuriousWakeup]_vars =>
    \A m \in Messages : (m \in logged) ~> (m \in Range(file))

=============================================================================

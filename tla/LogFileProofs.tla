---------------------------- MODULE LogFileProofs ---------------------------
(***************************************************************************)
(* The asynchronous log, for any number of logging threads and messages:   *)
(* the locks are held where the code takes them to be held, no wakeup is   *)
(* lost, and the two buffers are one FIFO channel.                         *)
(*                                                                         *)
(* A thread that has tested a buffer acts on the test steps later.  IInv   *)
(* says what it may still rely on (Found), which is what the mutexes it    *)
(* has kept since the test protect, and who can be asleep when (Asleep).   *)
(***************************************************************************)
EXTENDS LogFile, ListLemmas

\* What a thread has found in the buffers and may still rely on.
Found ==
  /\ pc[Writer] \in {"signal_swap", "wait_get"} => WriteTask = << >>
  /\ pc[Swapper] = "wait_swap_get" => WriteTask # << >>
  /\ pc[Swapper] \in {"lock_put", "test_wait", "wait_swap_put", "asleep_put", "swap"} =>
       WriteTask = << >>
  /\ pc[Swapper] = "wait_swap_put" => Wait_WriteTask = << >>
  /\ pc[Swapper] = "swap" => Wait_WriteTask # << >>

\* Who can be asleep: the writer and the swap thread never both, each waiting
\* for the other.
Asleep ==
  /\ Swapper \in Swap_Cond => pc[Swapper] \in {"asleep_get", "asleep_put"}
  /\ Writer \in get_Cond => pc[Writer] = "asleep"
  /\ Swapper \in Swap_Cond /\ pc[Swapper] = "asleep_get" =>
       pc[Writer] # "wait_get" /\ Writer \notin get_Cond

\* A logger carries its message until it has pushed it.
Carried ==
  \A t \in Loggers : pc[t] \in {"lock_put", "push"} => buff[t] \in Messages

IInv == TypeOK /\ LockDiscipline /\ Found /\ Asleep /\ Carried /\ NoLostWakeup

-----------------------------------------------------------------------------

\* Steps of the program counters.
LEMMA GotoFacts ==
  ASSUME TypeOK, NEW t \in Threads, NEW from, NEW to, Goto(t, from, to)
  PROVE  /\ pc[t] = from /\ pc'[t] = to
         /\ \A u \in Threads : u # t => pc'[u] = pc[u]
BY DEF TypeOK, Goto

\* The writer, the swap thread and the loggers are different threads.
LEMMA ThreadFacts ==
  /\ Writer \in Threads /\ Swapper \in Threads /\ Writer # Swapper
  /\ \A t \in Loggers : t \in Threads /\ t # Writer /\ t # Swapper
  /\ \A t \in Threads : t # NoThread /\ (t \in Loggers \/ t = Writer \/ t = Swapper)
BY LogAssumption DEF Threads

\* The invariant holds when the log starts.
LEMMA InitIInv == Init => IInv
<1> SUFFICES ASSUME Init PROVE IInv
  OBVIOUS
<1> USE ThreadFacts
<1>1. TypeOK
  BY LogAssumption DEF Init, TypeOK, loggerPc, writerPc, swapperPc
<1>2. LockDiscipline
  BY DEF Init, LockDiscipline, holdsPut, holdsGet
<1>3. Found /\ Asleep /\ Carried /\ NoLostWakeup
  BY DEF Init, Found, Asleep, Carried, NoLostWakeup
<1>4. QED
  BY <1>1, <1>2, <1>3 DEF IInv

-----------------------------------------------------------------------------

\* The invariant is preserved by ~Log and put_write_string in any thread.
LEMMA LoggerIInv ==
  ASSUME IInv, NEW t \in Loggers, Append_Log(t) \/ LoggerStep(t)
  PROVE  IInv'
<1> USE ThreadFacts DEF IInv, locks, conds, queues
<1>1. CASE Append_Log(t)
  <2>1. TypeOK'
    BY <1>1 DEF Append_Log, Goto, TypeOK, loggerPc
  <2>2. LockDiscipline'
    BY <1>1, GotoFacts DEF Append_Log, LockDiscipline, holdsPut, holdsGet
  <2>3. Found' /\ Asleep' /\ Carried' /\ NoLostWakeup'
    BY <1>1, GotoFacts
    DEF Append_Log, Found, Asleep, Carried, NoLostWakeup, TypeOK
  <2>4. QED
    BY <2>1, <2>2, <2>3
<1>2. CASE PutLock(t)
  <2>1. TypeOK'
    BY <1>2 DEF PutLock, Goto, LockPut, TypeOK, loggerPc
  <2>2. LockDiscipline'
    BY <1>2, GotoFacts DEF PutLock, LockPut, LockDiscipline, holdsPut, holdsGet
  <2>3. Found' /\ Asleep' /\ Carried'
    BY <1>2, GotoFacts DEF PutLock, Found, Asleep, Carried
  <2>4. NoLostWakeup'
    <3>1. pc[t] # "signal_swap" /\ \A u \in Threads : u # t => pc'[u] = pc[u]
      BY <1>2, GotoFacts DEF PutLock
    <3>2. (\E u \in Loggers : pc[u] = "signal_swap") => \E u \in Loggers : pc'[u] = "signal_swap"
      BY <3>1
    <3>3. QED
      BY <1>2, <3>1, <3>2 DEF PutLock, NoLostWakeup
  <2>5. QED
    BY <2>1, <2>2, <2>3, <2>4
<1>3. CASE PutPush(t)
  <2>1. TypeOK'
    BY <1>3 DEF PutPush, Goto, TypeOK, loggerPc, Carried
  <2>2. LockDiscipline'
    BY <1>3, GotoFacts DEF PutPush, LockDiscipline, holdsPut, holdsGet
  <2>3. Found' /\ Asleep' /\ Carried' /\ NoLostWakeup'
    BY <1>3, GotoFacts
    DEF PutPush, Found, Asleep, Carried, NoLostWakeup, TypeOK, LockDiscipline,
        holdsPut, holdsGet
  <2>4. QED
    BY <2>1, <2>2, <2>3
<1>4. CASE PutSignal(t)
  <2>1. TypeOK'
    BY <1>4 DEF PutSignal, Goto, BroadcastSwap, TypeOK, loggerPc
  <2>2. LockDiscipline'
    BY <1>4, GotoFacts DEF PutSignal, BroadcastSwap, LockDiscipline, holdsPut, holdsGet
  <2>3. Found' /\ Asleep' /\ Carried' /\ NoLostWakeup'
    BY <1>4, GotoFacts
    DEF PutSignal, BroadcastSwap, Found, Asleep, Carried, NoLostWakeup, TypeOK
  <2>4. QED
    BY <2>1, <2>2, <2>3
<1>5. CASE PutUnlock(t)
  <2>1. TypeOK'
    BY <1>5 DEF PutUnlock, Goto, UnlockPut, TypeOK, loggerPc
  <2>2. LockDiscipline'
    BY <1>5, GotoFacts DEF PutUnlock, UnlockPut, LockDiscipline, holdsPut, holdsGet
  <2>3. Found' /\ Asleep' /\ Carried' /\ NoLostWakeup'
    BY <1>5, GotoFacts
    DEF PutUnlock, UnlockPut, Found, Asleep, Carried, NoLostWakeup, TypeOK
  <2>4. QED
    BY <2>1, <2>2, <2>3
<1>6. QED
  BY <1>1, <1>2, <1>3, <1>4, <1>5 DEF LoggerStep

\* The invariant is preserved by write_file.
LEMMA WriterIInv ==
  ASSUME IInv, write_file
  PROVE  IInv'
<1> USE ThreadFacts DEF IInv, locks, conds, queues
<1>1. CASE WriteLock
  <2>1. TypeOK'
    BY <1>1 DEF WriteLock, Goto, LockGet, TypeOK, writerPc
  <2>2. LockDiscipline'
    BY <1>1, GotoFacts DEF WriteLock, LockGet, LockDiscipline, holdsPut, holdsGet
  <2>3. Found' /\ Asleep' /\ Carried' /\ NoLostWakeup'
    BY <1>1, GotoFacts
    DEF WriteLock, LockGet, Found, Asleep, Carried, NoLostWakeup, TypeOK
  <2>4. QED
    BY <2>1, <2>2, <2>3
<1>2. CASE WriteTest
  <2>1. TypeOK'
    BY <1>2 DEF WriteTest, Goto, TypeOK, writerPc
  <2>2. LockDiscipline'
    BY <1>2, GotoFacts DEF WriteTest, LockDiscipline, holdsPut, holdsGet
  <2>3. Found' /\ Asleep' /\ Carried' /\ NoLostWakeup'
    BY <1>2, GotoFacts
    DEF WriteTest, Found, Asleep, Carried, NoLostWakeup, TypeOK, LockDiscipline,
        holdsPut, holdsGet
  <2>4. QED
    BY <2>1, <2>2, <2>3
<1>3. CASE WriteSignal
  <2>1. TypeOK'
    BY <1>3 DEF WriteSignal, Goto, BroadcastSwap, TypeOK, writerPc
  <2>2. LockDiscipline'
    BY <1>3, GotoFacts DEF WriteSignal, BroadcastSwap, LockDiscipline, holdsPut, holdsGet
  <2>3. Found' /\ Asleep' /\ Carried' /\ NoLostWakeup'
    BY <1>3, GotoFacts
    DEF WriteSignal, BroadcastSwap, Found, Asleep, Carried, NoLostWakeup, TypeOK,
        LockDiscipline, holdsPut, holdsGet
  <2>4. QED
    BY <2>1, <2>2, <2>3
<1>4. CASE WriteWait
  <2>1. TypeOK'
    BY <1>4 DEF WriteWait, Goto, UnlockGet, TypeOK, writerPc
  <2>2. LockDiscipline'
    BY <1>4, GotoFacts DEF WriteWait, UnlockGet, LockDiscipline, holdsPut, holdsGet
  <2>3. Found' /\ Asleep' /\ Carried' /\ NoLostWakeup'
    BY <1>4, GotoFacts
    DEF WriteWait, UnlockGet, Found, Asleep, Carried, NoLostWakeup, TypeOK,
        LockDiscipline, holdsPut, holdsGet
  <2>4. QED
    BY <2>1, <2>2, <2>3
<1>5. CASE WriteWake
  <2>1. TypeOK'
    BY <1>5 DEF WriteWake, Goto, LockGet, TypeOK, writerPc
  <2>2. LockDiscipline'
    BY <1>5, GotoFacts DEF WriteWake, LockGet, LockDiscipline, holdsPut, holdsGet
  <2>3. Found' /\ Asleep' /\ Carried' /\ NoLostWakeup'
    BY <1>5, GotoFacts
    DEF WriteWake, LockGet, Found, Asleep, Carried, NoLostWakeup, TypeOK
  <2>4. QED
    BY <2>1, <2>2, <2>3
<1>6. CASE WritePop
  <2>1. TypeOK'
    BY <1>6 DEF WritePop, Goto, TypeOK, writerPc
  <2>2. LockDiscipline'
    BY <1>6, GotoFacts DEF WritePop, LockDiscipline, holdsPut, holdsGet
  <2>3. WriteTask' = << >> => pc'[Writer] = "unlock_get"
    <3>1. WriteTask \in Seq(Messages) /\ WriteTask # << >>
      BY <1>6 DEF WritePop, TypeOK
    <3>2. Len(WriteTask) \in Nat /\ Len(Tail(WriteTask)) = Len(WriteTask) - 1
      BY <3>1, HeadTailProperties
    <3>3. Tail(WriteTask) = << >> => Len(WriteTask) = 1
      <4>1. Len(<< >>) = 0
        OBVIOUS
      <4>2. SUFFICES ASSUME Tail(WriteTask) = << >> PROVE Len(WriteTask) = 1
        OBVIOUS
      <4>3. Len(Tail(WriteTask)) = 0
        BY <4>1, <4>2
      <4>4. QED
        BY <3>2, <4>3
    <3>4. pc'[Writer] = IF Len(WriteTask) = 1 THEN "unlock_get" ELSE "pop"
      BY <1>6 DEF WritePop, Goto, TypeOK
    <3>5. WriteTask' = Tail(WriteTask)
      BY <1>6 DEF WritePop
    <3>6. QED
      BY <3>3, <3>4, <3>5
  <2>4. Found' /\ Asleep' /\ Carried' /\ NoLostWakeup'
    BY <1>6, <2>3, GotoFacts
    DEF WritePop, Found, Asleep, Carried, NoLostWakeup, TypeOK, LockDiscipline,
        holdsPut, holdsGet
  <2>5. QED
    BY <2>1, <2>2, <2>4
<1>7. CASE WriteUnlock
  <2>1. TypeOK'
    BY <1>7 DEF WriteUnlock, Goto, UnlockGet, TypeOK, writerPc
  <2>2. LockDiscipline'
    BY <1>7, GotoFacts DEF WriteUnlock, UnlockGet, LockDiscipline, holdsPut, holdsGet
  <2>3. Found' /\ Asleep' /\ Carried' /\ NoLostWakeup'
    BY <1>7, GotoFacts
    DEF WriteUnlock, UnlockGet, Found, Asleep, Carried, NoLostWakeup, TypeOK
  <2>4. QED
    BY <2>1, <2>2, <2>3
<1>8. QED
  BY <1>1, <1>2, <1>3, <1>4, <1>5, <1>6, <1>7 DEF write_file

\* The invariant is preserved by swap.
LEMMA SwapperIInv ==
  ASSUME IInv, swap
  PROVE  IInv'
<1> USE ThreadFacts DEF IInv, locks, conds, queues
<1>1. CASE SwapLockGet
  <2>1. TypeOK'
    BY <1>1 DEF SwapLockGet, Goto, LockGet, TypeOK, swapperPc
  <2>2. LockDiscipline'
    BY <1>1, GotoFacts DEF SwapLockGet, LockGet, LockDiscipline, holdsPut, holdsGet
  <2>3. Found' /\ Asleep' /\ Carried' /\ NoLostWakeup'
    BY <1>1, GotoFacts
    DEF SwapLockGet, LockGet, Found, Asleep, Carried, NoLostWakeup, TypeOK
  <2>4. QED
    BY <2>1, <2>2, <2>3
<1>2. CASE SwapTestWrite
  <2>1. TypeOK'
    BY <1>2 DEF SwapTestWrite, Goto, TypeOK, swapperPc
  <2>2. LockDiscipline'
    BY <1>2, GotoFacts DEF SwapTestWrite, LockDiscipline, holdsPut, holdsGet
  <2>3. Found' /\ Asleep' /\ Carried' /\ NoLostWakeup'
    BY <1>2, GotoFacts
    DEF SwapTestWrite, Found, Asleep, Carried, NoLostWakeup, TypeOK,
        LockDiscipline, holdsPut, holdsGet
  <2>4. QED
    BY <2>1, <2>2, <2>3
<1>3. CASE SwapWaitGet
  <2>1. TypeOK'
    BY <1>3 DEF SwapWaitGet, Goto, UnlockGet, TypeOK, swapperPc
  <2>2. LockDiscipline'
    BY <1>3, GotoFacts DEF SwapWaitGet, UnlockGet, LockDiscipline, holdsPut, holdsGet
  <2>3. Found' /\ Asleep' /\ Carried' /\ NoLostWakeup'
    BY <1>3, GotoFacts
    DEF SwapWaitGet, UnlockGet, Found, Asleep, Carried, NoLostWakeup, TypeOK,
        LockDiscipline, holdsPut, holdsGet
  <2>4. QED
    BY <2>1, <2>2, <2>3
<1>4. CASE SwapWakeGet
  <2>1. TypeOK'
    BY <1>4 DEF SwapWakeGet, Goto, LockGet, TypeOK, swapperPc
  <2>2. LockDiscipline'
    BY <1>4, GotoFacts DEF SwapWakeGet, LockGet, LockDiscipline, holdsPut, holdsGet
  <2>3. Found' /\ Asleep' /\ Carried' /\ NoLostWakeup'
    BY <1>4, GotoFacts
    DEF SwapWakeGet, LockGet, Found, Asleep, Carried, NoLostWakeup, TypeOK
  <2>4. QED
    BY <2>1, <2>2, <2>3
<1>5. CASE SwapLockPut
  <2>1. TypeOK'
    BY <1>5 DEF SwapLockPut, Goto, LockPut, TypeOK, swapperPc
  <2>2. LockDiscipline'
    BY <1>5, GotoFacts DEF SwapLockPut, LockPut, LockDiscipline, holdsPut, holdsGet
  <2>3. Found' /\ Asleep' /\ Carried' /\ NoLostWakeup'
    BY <1>5, GotoFacts
    DEF SwapLockPut, LockPut, Found, Asleep, Carried, NoLostWakeup, TypeOK
  <2>4. QED
    BY <2>1, <2>2, <2>3
<1>6. CASE SwapTestWait
  <2>1. TypeOK'
    BY <1>6 DEF SwapTestWait, Goto, TypeOK, swapperPc
  <2>2. LockDiscipline'
    BY <1>6, GotoFacts DEF SwapTestWait, LockDiscipline, holdsPut, holdsGet
  <2>3. Found' /\ Asleep' /\ Carried' /\ NoLostWakeup'
    BY <1>6, GotoFacts
    DEF SwapTestWait, Found, Asleep, Carried, NoLostWakeup, TypeOK,
        LockDiscipline, holdsPut, holdsGet
  <2>4. QED
    BY <2>1, <2>2, <2>3
<1>7. CASE SwapWaitPut
  <2>1. TypeOK'
    BY <1>7 DEF SwapWaitPut, Goto, UnlockPut, TypeOK, swapperPc
  <2>2. LockDiscipline'
    BY <1>7, GotoFacts DEF SwapWaitPut, UnlockPut, LockDiscipline, holdsPut, holdsGet
  <2>3. Found' /\ Asleep' /\ Carried' /\ NoLostWakeup'
    BY <1>7, GotoFacts
    DEF SwapWaitPut, UnlockPut, Found, Asleep, Carried, NoLostWakeup, TypeOK,
        LockDiscipline, holdsPut, holdsGet
  <2>4. QED
    BY <2>1, <2>2, <2>3
<1>8. CASE SwapWakePut
  <2>1. TypeOK'
    BY <1>8 DEF SwapWakePut, Goto, LockPut, TypeOK, swapperPc
  <2>2. LockDiscipline'
    BY <1>8, GotoFacts DEF SwapWakePut, LockPut, LockDiscipline, holdsPut, holdsGet
  <2>3. Found' /\ Asleep' /\ Carried' /\ NoLostWakeup'
    BY <1>8, GotoFacts
    DEF SwapWakePut, LockPut, Found, Asleep, Carried, NoLostWakeup, TypeOK
  <2>4. QED
    BY <2>1, <2>2, <2>3
<1>9. CASE SwapSwap
  <2>1. TypeOK'
    BY <1>9 DEF SwapSwap, Goto, TypeOK, swapperPc
  <2>2. LockDiscipline'
    BY <1>9, GotoFacts DEF SwapSwap, LockDiscipline, holdsPut, holdsGet
  <2>3. Found' /\ Asleep' /\ Carried' /\ NoLostWakeup'
    BY <1>9, GotoFacts
    DEF SwapSwap, Found, Asleep, Carried, NoLostWakeup, TypeOK, LockDiscipline,
        holdsPut, holdsGet
  <2>4. QED
    BY <2>1, <2>2, <2>3
<1>10. CASE SwapSignal
  <2>1. TypeOK'
    BY <1>10 DEF SwapSignal, Goto, BroadcastGet, TypeOK, swapperPc
  <2>2. LockDiscipline'
    BY <1>10, GotoFacts DEF SwapSignal, BroadcastGet, LockDiscipline, holdsPut, holdsGet
  <2>3. Found' /\ Asleep' /\ Carried' /\ NoLostWakeup'
    BY <1>10, GotoFacts
    DEF SwapSignal, BroadcastGet, Found, Asleep, Carried, NoLostWakeup, TypeOK
  <2>4. QED
    BY <2>1, <2>2, <2>3
<1>11. CASE SwapUnlockGet
  <2>1. TypeOK'
    BY <1>11 DEF SwapUnlockGet, Goto, UnlockGet, TypeOK, swapperPc
  <2>2. LockDiscipline'
    BY <1>11, GotoFacts DEF SwapUnlockGet, UnlockGet, LockDiscipline, holdsPut, holdsGet
  <2>3. Found' /\ Asleep' /\ Carried' /\ NoLostWakeup'
    BY <1>11, GotoFacts
    DEF SwapUnlockGet, UnlockGet, Found, Asleep, Carried, NoLostWakeup, TypeOK
  <2>4. QED
    BY <2>1, <2>2, <2>3
<1>12. CASE SwapUnlockPut
  <2>1. TypeOK'
    BY <1>12 DEF SwapUnlockPut, Goto, UnlockPut, TypeOK, swapperPc
  <2>2. LockDiscipline'
    BY <1>12, GotoFacts DEF SwapUnlockPut, UnlockPut, LockDiscipline, holdsPut, holdsGet
  <2>3. Found' /\ Asleep' /\ Carried' /\ NoLostWakeup'
    BY <1>12, GotoFacts
    DEF SwapUnlockPut, UnlockPut, Found, Asleep, Carried, NoLostWakeup, TypeOK
  <2>4. QED
    BY <2>1, <2>2, <2>3
<1>13. QED
  BY <1>1, <1>2, <1>3, <1>4, <1>5, <1>6, <1>7, <1>8, <1>9, <1>10, <1>11, <1>12 DEF swap

\* A thread may wake up without a broadcast at any time.
LEMMA SpuriousIInv ==
  ASSUME IInv, SpuriousWakeup
  PROVE  IInv'
<1> USE ThreadFacts DEF IInv, locks, conds, queues, BroadcastSwap, BroadcastGet
<1>1. TypeOK'
  BY DEF SpuriousWakeup, TypeOK
<1>2. LockDiscipline'
  BY DEF SpuriousWakeup, LockDiscipline, holdsPut, holdsGet
<1>3. Found' /\ Asleep' /\ Carried' /\ NoLostWakeup'
  BY DEF SpuriousWakeup, Found, Asleep, Carried, NoLostWakeup
<1>4. QED
  BY <1>1, <1>2, <1>3

\* Every step of every thread preserves the invariant.
LEMMA NextIInv == IInv /\ [Next]_vars => IInv'
<1> SUFFICES ASSUME IInv, [Next]_vars PROVE IInv'
  OBVIOUS
<1>1. CASE \E t \in Loggers : Append_Log(t) \/ LoggerStep(t)
  BY <1>1, LoggerIInv
<1>2. CASE write_file \/ swap \/ SpuriousWakeup
  BY <1>2, WriterIInv, SwapperIInv, SpuriousIInv
<1>3. CASE UNCHANGED vars
  <2> USE <1>3 DEF vars, locks, conds, queues, IInv
  <2>1. TypeOK' /\ LockDiscipline'
    BY DEF TypeOK, LockDiscipline, holdsPut, holdsGet
  <2>2. Found' /\ Asleep' /\ Carried' /\ NoLostWakeup'
    BY DEF Found, Asleep, Carried, NoLostWakeup
  <2>3. QED
    BY <2>1, <2>2
<1>4. QED
  BY <1>1, <1>2, <1>3 DEF Next

-----------------------------------------------------------------------------

\* Every thread, queue and lock of the log keeps its type: only the swap thread
\* ever sleeps on Swap_Cond and only the writer on get_Cond.
THEOREM TypeCorrect == Spec => []TypeOK
<1>1. IInv => TypeOK
  BY DEF IInv
<1>2. QED
  BY <1>1, InitIInv, NextIInv, PTL DEF Spec

\* Both mutexes are held exactly where put_write_string, write_file and swap
\* take them to be held, so each buffer is touched under its mutex.
THEOREM LockDisciplineCorrect == Spec => []LockDiscipline
<1>1. IInv => LockDiscipline
  BY DEF IInv
<1>2. QED
  BY <1>1, InitIInv, NextIInv, PTL DEF Spec

\* No thread of the log sleeps through what it waits for.
THEOREM NoLostWakeupCorrect == Spec => []NoLostWakeup
<1>1. IInv => NoLostWakeup
  BY DEF IInv
<1>2. QED
  BY <1>1, InitIInv, NextIInv, PTL DEF Spec

\* swap() exchanges the buffers only when WriteTask is empty and there is
\* something to write.
THEOREM SwapMovesForwardCorrect == Spec => []SwapMovesForward
<1>1. IInv => SwapMovesForward
  BY DEF IInv, Found, SwapMovesForward
<1>2. QED
  BY <1>1, InitIInv, NextIInv, PTL DEF Spec

-----------------------------------------------------------------------------
(* The two buffers as one channel *)

\* Each step of the log is a step of the channel or leaves it as it is.
LEMMA NextFifo == IInv /\ [Next]_vars => [Fifo!Next]_Fifo!vars
<1> SUFFICES ASSUME IInv, [Next]_vars PROVE [Fifo!Next]_Fifo!vars
  OBVIOUS
<1> DEFINE queue == WriteTask \o Wait_WriteTask
<1>0. WriteTask \in Seq(Messages) /\ Wait_WriteTask \in Seq(Messages)
  BY DEF IInv, TypeOK
<1>1. CASE \E t \in Loggers : PutPush(t)
  <2>1. PICK t \in Loggers : PutPush(t)
    BY <1>1
  <2>2. buff[t] \in Messages
    BY <2>1 DEF PutPush, Goto, IInv, Carried
  <2>3. queue' = Append(queue, buff[t]) /\ file' = file
    BY <1>0, <2>1, <2>2, PushConcat DEF PutPush
  <2>4. QED
    BY <2>2, <2>3 DEF Fifo!Next, Fifo!Put
<1>2. CASE WritePop
  <2>1. /\ queue # << >> /\ queue' = Tail(queue)
        /\ file' = Append(file, Head(queue))
    BY <1>0, <1>2, PopConcat DEF WritePop
  <2>2. QED
    BY <2>1 DEF Fifo!Next, Fifo!Take
<1>3. CASE SwapSwap
  <2>1. WriteTask = << >>
    BY <1>3 DEF SwapSwap, Goto, IInv, Found
  <2>2. queue = Wait_WriteTask /\ queue' = Wait_WriteTask
    BY <1>0, <1>3, <2>1, ConcatEmptySeq DEF SwapSwap
  <2>3. QED
    BY <1>3, <2>2 DEF SwapSwap, Fifo!vars
<1>4. CASE UNCHANGED <<queues, file>>
  BY <1>4 DEF queues, Fifo!vars
<1>5. QED
  BY <1>1, <1>2, <1>3, <1>4
  DEF Next, vars, Append_Log, LoggerStep, PutLock, PutSignal, PutUnlock, write_file,
      WriteLock, WriteTest, WriteSignal, WriteWait, WriteWake, WriteUnlock, swap,
      SwapLockGet, SwapTestWrite, SwapWaitGet, SwapWakeGet, SwapLockPut, SwapTestWait,
      SwapWaitPut, SwapWakePut, SwapSignal, SwapUnlockGet, SwapUnlockPut, SpuriousWakeup

\* The log implements a FIFO channel: whatever the interleaving of the loggers,
\* the writer and the swap thread, messages are written once, in the order in
\* which they were pushed.
THEOREM FifoCorrect == Spec => ImplementsFifoChannel
<1>1. Init => Fifo!Init
  <2>1. << >> \o << >> = << >>
    BY EmptySeq, ConcatEmptySeq
  <2>2. QED
    BY <2>1 DEF Init, Fifo!Init
<1>2. QED
  BY <1>1, InitIInv, NextIInv, NextFifo, PTL DEF Spec, ImplementsFifoChannel, Fifo!Spec

=============================================================================

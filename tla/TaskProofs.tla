----------------------------- MODULE TaskProofs -----------------------------
(***************************************************************************)
(* The thread pool's task queue, for any number of producers, consumers    *)
(* and tasks and any capacity: the buffers keep within the capacity, no    *)
(* thread sleeps through what it waits for, and the two buffers are one    *)
(* FIFO channel.                                                           *)
(*                                                                         *)
(* swap_task tests a buffer and exchanges the two several steps later.     *)
(* Locks says which steps hold which mutex, Found what the swap thread may *)
(* still rely on because it has kept the mutex since its test.             *)
(***************************************************************************)
EXTENDS Task, ListLemmas

\* The steps of swap_task that hold Product_Mutex and Comsumer_Mutex.
swapHoldsP == {"test_p", "wait_p", "swap", "wake", "unlock_p"}
swapHoldsC == swapHoldsP \cup {"test_c", "wait_c", "lock_p", "asleep_p", "unlock_c"}

Locks ==
  /\ \A t \in Producers : Product_Mutex = t <=> pc[t] = "push"
  /\ Product_Mutex = Swapper <=> pc[Swapper] \in swapHoldsP
  /\ Comsumer_Mutex = Swapper <=> pc[Swapper] \in swapHoldsC

\* What the swap thread has found in the buffers and may still rely on.
Found ==
  /\ pc[Swapper] = "wait_c" => consum_task # << >>
  /\ pc[Swapper] \in {"lock_p", "test_p", "wait_p", "asleep_p", "swap"} => consum_task = << >>
  /\ pc[Swapper] = "wait_p" => product_task = << >>

\* Nobody sleeps through what it waits for.  A consumer is asleep only while
\* there is nothing to take, or the swap thread is about to broadcast; a
\* producer only while product_task is full, or likewise.  The swap thread is
\* asleep only while no consumer has found consum_task empty and, with the
\* consumers locked out, only while product_task is empty or a producer
\* is still pushing and will signal.
NoLostWakeup ==
  /\ pc[Swapper] # "wake" /\ ComsumCond # {} => consum_task = << >>
  /\ pc[Swapper] # "wake" /\ ProductCond # {} => Len(product_task) = max_task_num
  /\ Swapper \in Swap_Cond /\ pc[Swapper] = "asleep_c" => ComsumCond = {}
  /\ Swapper \in Swap_Cond /\ pc[Swapper] = "asleep_p" =>
       product_task = << >> \/ \E t \in Producers : pc[t] = "push"

Asleep == Swapper \in Swap_Cond => pc[Swapper] \in {"asleep_c", "asleep_p"}

IInv == TypeOK /\ Locks /\ Found /\ Asleep /\ NoLostWakeup /\ CapacityKept

-----------------------------------------------------------------------------

\* A step of one thread's program counter.
LEMMA PcFacts ==
  ASSUME TypeOK, NEW t \in Threads, NEW to, pc' = [pc EXCEPT ![t] = to]
  PROVE  pc'[t] = to /\ \A u \in Threads : u # t => pc'[u] = pc[u]
BY DEF TypeOK

\* Producers, consumers and the swap thread are different threads.
LEMMA ThreadFacts ==
  /\ Swapper \in Threads /\ Swapper # NoThread
  /\ \A t \in Producers : t \in Threads /\ t \notin Consumers /\ t # Swapper /\ t # NoThread
  /\ \A t \in Consumers : t \in Threads /\ t \notin Producers /\ t # Swapper
BY TaskAssumption DEF Threads

\* The invariant holds when the thread pool starts.
LEMMA InitIInv == Init => IInv
<1> SUFFICES ASSUME Init PROVE IInv
  OBVIOUS
<1> USE ThreadFacts
<1>1. TypeOK
  BY DEF Init, TypeOK, producerPc, consumerPc, swapperPc
<1>2. Locks
  BY DEF Init, Locks, swapHoldsP, swapHoldsC
<1>3. Found /\ Asleep /\ NoLostWakeup
  BY DEF Init, Found, Asleep, NoLostWakeup
<1>4. CapacityKept
  BY TaskAssumption, EmptySeq DEF Init, CapacityKept
<1>5. QED
  BY <1>1, <1>2, <1>3, <1>4 DEF IInv

-----------------------------------------------------------------------------

\* A vector handed to put_task is a sequence of tasks.
LEMMA BatchFacts ==
  ASSUME NEW b \in Batches
  PROVE  b \in Seq(Tasks) /\ Range(b) \subseteq Tasks
<1>1. PICK n \in 1 .. MaxBatch : b \in [1 .. n -> Tasks \ put]
  BY DEF Batches
<1>2. n \in Nat
  BY <1>1, TaskAssumption
<1>3. QED
  BY <1>1, <1>2 DEF Range

\* The invariant is preserved by a call of put_task and by each of its steps.
LEMMA ProducerIInv ==
  ASSUME IInv, NEW t \in Producers, PutCall(t) \/ put_task(t)
  PROVE  IInv'
<1> USE ThreadFacts DEF IInv, mutexes, conds, queues, Goto
<1>1. CASE PutCall(t)
  <2>1. PICK b \in Batches : new_task' = [new_task EXCEPT ![t] = b] /\ put' = put \cup Range(b)
    BY <1>1 DEF PutCall
  <2>2. TypeOK'
    BY <1>1, <2>1, BatchFacts DEF PutCall, TypeOK, producerPc
  <2>3. Locks'
    BY <1>1, PcFacts DEF PutCall, Locks
  <2>4. Found' /\ Asleep' /\ NoLostWakeup' /\ CapacityKept'
    BY <1>1, PcFacts DEF PutCall, Found, Asleep, NoLostWakeup, CapacityKept
  <2>5. QED
    BY <2>2, <2>3, <2>4
<1>2. CASE PutLock(t)
  <2>1. TypeOK'
    BY <1>2 DEF PutLock, TypeOK, producerPc
  <2>2. Locks'
    BY <1>2, PcFacts DEF PutLock, Awake, Locks
  <2>3. Found' /\ Asleep' /\ NoLostWakeup' /\ CapacityKept'
    BY <1>2, PcFacts DEF PutLock, Found, Asleep, NoLostWakeup, CapacityKept
  <2>4. QED
    BY <2>1, <2>2, <2>3
<1>3. CASE PutPush(t)
  <2>0. /\ new_task[t] \in Seq(Tasks) /\ product_task \in Seq(Tasks)
        /\ Head(new_task[t]) \in Tasks /\ Tail(new_task[t]) \in Seq(Tasks)
    BY <1>3 DEF PutPush, TypeOK
  <2>1. TypeOK'
    BY <1>3, <2>0 DEF PutPush, TypeOK
  <2>2. Locks'
    BY <1>3 DEF PutPush, Locks
  <2>3. pc[Swapper] \notin swapHoldsP
    BY <1>3 DEF PutPush, Locks
  <2>4. Found' /\ Asleep' /\ NoLostWakeup'
    BY <1>3, <2>3 DEF PutPush, Found, Asleep, NoLostWakeup, swapHoldsP
  <2>5. CapacityKept'
    <3>1. Len(product_task') = Len(product_task) + 1 /\ Len(product_task) \in Nat
      BY <1>3, <2>0 DEF PutPush
    <3>2. QED
      BY <1>3, <3>1, TaskAssumption DEF PutPush, CapacityKept
  <2>6. QED
    BY <2>1, <2>2, <2>4, <2>5
<1>4. CASE PutFull(t)
  <2>1. TypeOK'
    BY <1>4 DEF PutFull, SignalSwap, TypeOK, producerPc
  <2>2. Locks'
    <3>1. Product_Mutex = t /\ Product_Mutex' = NoThread /\ pc'[t] = "asleep"
      <4>1. pc[t] = "push" /\ pc' = [pc EXCEPT ![t] = "asleep"] /\ Product_Mutex' = NoThread
        BY <1>4 DEF PutFull
      <4>2. QED
        BY <4>1, PcFacts DEF Locks
    <3>2. \A u \in Threads : u # t => pc'[u] = pc[u]
      BY <1>4, PcFacts DEF PutFull
    <3>3. QED
      BY <1>4, <3>1, <3>2 DEF PutFull, Locks
  <2>3. Found' /\ Asleep' /\ NoLostWakeup' /\ CapacityKept'
    BY <1>4, PcFacts DEF PutFull, SignalSwap, Found, Asleep, NoLostWakeup, CapacityKept
  <2>4. QED
    BY <2>1, <2>2, <2>3
<1>5. CASE PutDone(t)
  <2>1. TypeOK'
    BY <1>5 DEF PutDone, SignalSwap, TypeOK, producerPc
  <2>2. Locks'
    <3>1. Product_Mutex = t /\ Product_Mutex' = NoThread /\ pc'[t] = "idle"
      <4>1. pc[t] = "push" /\ pc' = [pc EXCEPT ![t] = "idle"] /\ Product_Mutex' = NoThread
        BY <1>5 DEF PutDone
      <4>2. QED
        BY <4>1, PcFacts DEF Locks
    <3>2. \A u \in Threads : u # t => pc'[u] = pc[u]
      BY <1>5, PcFacts DEF PutDone
    <3>3. QED
      BY <1>5, <3>1, <3>2 DEF PutDone, Locks
  <2>3. Found' /\ Asleep' /\ NoLostWakeup' /\ CapacityKept'
    BY <1>5, PcFacts DEF PutDone, SignalSwap, Found, Asleep, NoLostWakeup, CapacityKept
  <2>4. QED
    BY <2>1, <2>2, <2>3
<1>6. QED
  BY <1>1, <1>2, <1>3, <1>4, <1>5 DEF put_task

\* The invariant is preserved by take_task and ThreadPool::loop.
LEMMA ConsumerIInv ==
  ASSUME IInv, NEW t \in Consumers, take_task(t)
  PROVE  IInv'
<1> USE ThreadFacts DEF IInv, mutexes, conds, queues, Goto
<1>1. CASE TakeEmpty(t)
  <2>1. TypeOK'
    BY <1>1 DEF TakeEmpty, SignalSwap, TypeOK, consumerPc
  <2>2. Locks'
    BY <1>1, PcFacts DEF TakeEmpty, Locks
  <2>3. Found' /\ Asleep' /\ NoLostWakeup' /\ CapacityKept'
    BY <1>1, PcFacts DEF TakeEmpty, SignalSwap, Found, Asleep, NoLostWakeup, CapacityKept
  <2>4. QED
    BY <2>1, <2>2, <2>3
<1>2. CASE TakePop(t)
  <2>0. /\ consum_task \in Seq(Tasks) /\ consum_task # << >>
        /\ Head(consum_task) \in Tasks /\ Tail(consum_task) \in Seq(Tasks)
    BY <1>2 DEF TakePop, TypeOK
  <2>1. TypeOK'
    BY <1>2, <2>0 DEF TakePop, TypeOK, consumerPc
  <2>2. Locks'
    BY <1>2, PcFacts DEF TakePop, Locks
  <2>3. pc[Swapper] \notin swapHoldsC
    BY <1>2 DEF TakePop, Locks
  <2>4. ComsumCond = {}
    BY <1>2, <2>3 DEF TakePop, NoLostWakeup, swapHoldsC, swapHoldsP
  <2>5. Found' /\ Asleep' /\ NoLostWakeup'
    BY <1>2, <2>3, <2>4, PcFacts
    DEF TakePop, Found, Asleep, NoLostWakeup, swapHoldsC, swapHoldsP
  <2>6. CapacityKept'
    <3>1. Len(Tail(consum_task)) = Len(consum_task) - 1 /\ Len(consum_task) \in Nat
      BY <2>0
    <3>2. QED
      BY <1>2, <3>1, TaskAssumption DEF TakePop, CapacityKept
  <2>7. QED
    BY <2>1, <2>2, <2>5, <2>6
<1>3. CASE HandleTask(t)
  <2>1. TypeOK'
    BY <1>3 DEF HandleTask, TypeOK, consumerPc
  <2>2. Locks'
    BY <1>3, PcFacts DEF HandleTask, Locks
  <2>3. Found' /\ Asleep' /\ NoLostWakeup' /\ CapacityKept'
    BY <1>3, PcFacts DEF HandleTask, Found, Asleep, NoLostWakeup, CapacityKept
  <2>4. QED
    BY <2>1, <2>2, <2>3
<1>4. QED
  BY <1>1, <1>2, <1>3 DEF take_task

\* The invariant is preserved by swap_task.
LEMMA SwapperIInv ==
  ASSUME IInv, swap_task
  PROVE  IInv'
<1> USE ThreadFacts DEF IInv, mutexes, conds, queues, Goto, swapHoldsP, swapHoldsC
<1>1. CASE SwapLockC
  <2>1. TypeOK'
    BY <1>1 DEF SwapLockC, TypeOK, swapperPc
  <2>2. Locks'
    BY <1>1, PcFacts DEF SwapLockC, Locks
  <2>3. Found' /\ Asleep' /\ NoLostWakeup' /\ CapacityKept'
    BY <1>1, PcFacts DEF SwapLockC, Found, Asleep, NoLostWakeup, CapacityKept
  <2>4. QED
    BY <2>1, <2>2, <2>3
<1>2. CASE SwapTestC
  <2>1. TypeOK'
    BY <1>2 DEF SwapTestC, TypeOK, swapperPc
  <2>2. Locks'
    BY <1>2, PcFacts DEF SwapTestC, Locks
  <2>3. Found' /\ Asleep' /\ NoLostWakeup' /\ CapacityKept'
    BY <1>2, PcFacts DEF SwapTestC, Found, Asleep, NoLostWakeup, CapacityKept
  <2>4. QED
    BY <2>1, <2>2, <2>3
<1>3. CASE SwapWaitC
  <2>1. TypeOK'
    BY <1>3 DEF SwapWaitC, TypeOK, swapperPc
  <2>2. Locks'
    <3>1. pc'[Swapper] = "asleep_c" /\ Comsumer_Mutex' = NoThread /\ Product_Mutex # Swapper
      BY <1>3, PcFacts DEF SwapWaitC, Locks
    <3>2. \A u \in Threads : u # Swapper => pc'[u] = pc[u]
      BY <1>3, PcFacts DEF SwapWaitC
    <3>3. QED
      BY <1>3, <3>1, <3>2 DEF SwapWaitC, Locks
  <2>3. Found' /\ Asleep' /\ NoLostWakeup' /\ CapacityKept'
    BY <1>3, PcFacts DEF SwapWaitC, Found, Asleep, NoLostWakeup, CapacityKept
  <2>4. QED
    BY <2>1, <2>2, <2>3
<1>4. CASE SwapWakeC
  <2>1. TypeOK'
    BY <1>4 DEF SwapWakeC, TypeOK, swapperPc
  <2>2. Locks'
    BY <1>4, PcFacts DEF SwapWakeC, Locks
  <2>3. Found' /\ Asleep' /\ NoLostWakeup' /\ CapacityKept'
    BY <1>4, PcFacts DEF SwapWakeC, Found, Asleep, NoLostWakeup, CapacityKept
  <2>4. QED
    BY <2>1, <2>2, <2>3
<1>5. CASE SwapLockP
  <2>1. TypeOK'
    BY <1>5 DEF SwapLockP, TypeOK, swapperPc
  <2>2. Locks'
    BY <1>5, PcFacts DEF SwapLockP, Locks
  <2>3. Found' /\ Asleep' /\ NoLostWakeup' /\ CapacityKept'
    BY <1>5, PcFacts DEF SwapLockP, Found, Asleep, NoLostWakeup, CapacityKept
  <2>4. QED
    BY <2>1, <2>2, <2>3
<1>6. CASE SwapTestP
  <2>1. TypeOK'
    BY <1>6 DEF SwapTestP, TypeOK, swapperPc
  <2>2. Locks'
    BY <1>6, PcFacts DEF SwapTestP, Locks
  <2>3. Found' /\ Asleep' /\ NoLostWakeup' /\ CapacityKept'
    BY <1>6, PcFacts DEF SwapTestP, Found, Asleep, NoLostWakeup, CapacityKept
  <2>4. QED
    BY <2>1, <2>2, <2>3
<1>7. CASE SwapWaitP
  <2>1. TypeOK'
    BY <1>7 DEF SwapWaitP, TypeOK, swapperPc
  <2>2. Locks'
    BY <1>7, PcFacts DEF SwapWaitP, Locks
  <2>3. Found' /\ Asleep' /\ NoLostWakeup' /\ CapacityKept'
    BY <1>7, PcFacts DEF SwapWaitP, Found, Asleep, NoLostWakeup, CapacityKept
  <2>4. QED
    BY <2>1, <2>2, <2>3
<1>8. CASE SwapWakeP
  <2>1. TypeOK'
    BY <1>8 DEF SwapWakeP, TypeOK, swapperPc
  <2>2. Locks'
    BY <1>8, PcFacts DEF SwapWakeP, Locks
  <2>3. Found' /\ Asleep' /\ NoLostWakeup' /\ CapacityKept'
    BY <1>8, PcFacts DEF SwapWakeP, Found, Asleep, NoLostWakeup, CapacityKept
  <2>4. QED
    BY <2>1, <2>2, <2>3
<1>9. CASE SwapSwap
  <2>1. TypeOK'
    BY <1>9 DEF SwapSwap, TypeOK, swapperPc
  <2>2. Locks'
    BY <1>9, PcFacts DEF SwapSwap, Locks
  <2>3. Found' /\ Asleep' /\ NoLostWakeup' /\ CapacityKept'
    BY <1>9, PcFacts DEF SwapSwap, Found, Asleep, NoLostWakeup, CapacityKept
  <2>4. QED
    BY <2>1, <2>2, <2>3
<1>10. CASE SwapBroadcast
  <2>1. TypeOK'
    BY <1>10 DEF SwapBroadcast, TypeOK, swapperPc
  <2>2. Locks'
    BY <1>10, PcFacts DEF SwapBroadcast, Locks
  <2>3. Found' /\ Asleep' /\ NoLostWakeup' /\ CapacityKept'
    BY <1>10, PcFacts DEF SwapBroadcast, Found, Asleep, NoLostWakeup, CapacityKept
  <2>4. QED
    BY <2>1, <2>2, <2>3
<1>11. CASE SwapUnlockP
  <2>1. TypeOK'
    BY <1>11 DEF SwapUnlockP, TypeOK, swapperPc
  <2>2. Locks'
    BY <1>11, PcFacts DEF SwapUnlockP, Locks
  <2>3. Found' /\ Asleep' /\ NoLostWakeup' /\ CapacityKept'
    BY <1>11, PcFacts DEF SwapUnlockP, Found, Asleep, NoLostWakeup, CapacityKept
  <2>4. QED
    BY <2>1, <2>2, <2>3
<1>12. CASE SwapUnlockC
  <2>1. TypeOK'
    BY <1>12 DEF SwapUnlockC, TypeOK, swapperPc
  <2>2. Locks'
    <3>1. pc'[Swapper] = "lock_c" /\ Comsumer_Mutex' = NoThread /\ Product_Mutex # Swapper
      BY <1>12, PcFacts DEF SwapUnlockC, Locks
    <3>2. \A u \in Threads : u # Swapper => pc'[u] = pc[u]
      BY <1>12, PcFacts DEF SwapUnlockC
    <3>3. QED
      BY <1>12, <3>1, <3>2 DEF SwapUnlockC, Locks
  <2>3. Found' /\ Asleep' /\ NoLostWakeup' /\ CapacityKept'
    BY <1>12, PcFacts DEF SwapUnlockC, Found, Asleep, NoLostWakeup, CapacityKept
  <2>4. QED
    BY <2>1, <2>2, <2>3
<1>13. QED
  BY <1>1, <1>2, <1>3, <1>4, <1>5, <1>6, <1>7, <1>8, <1>9, <1>10, <1>11, <1>12 DEF swap_task

\* pthread_cond_wait may return without a signal at any time.
LEMMA SpuriousIInv ==
  ASSUME IInv, SpuriousWakeup
  PROVE  IInv'
<1> USE ThreadFacts DEF IInv, mutexes, queues
<1>1. TypeOK'
  BY DEF SpuriousWakeup, TypeOK
<1>2. Locks' /\ Found' /\ CapacityKept'
  BY DEF SpuriousWakeup, Locks, Found, CapacityKept
<1>3. Asleep' /\ NoLostWakeup'
  BY DEF SpuriousWakeup, Asleep, NoLostWakeup
<1>4. QED
  BY <1>1, <1>2, <1>3

\* Every step of every thread preserves the invariant.
LEMMA NextIInv == IInv /\ [Next]_vars => IInv'
<1> SUFFICES ASSUME IInv, [Next]_vars PROVE IInv'
  OBVIOUS
<1>1. CASE \E t \in Producers : PutCall(t) \/ put_task(t)
  BY <1>1, ProducerIInv
<1>2. CASE \E t \in Consumers : take_task(t)
  BY <1>2, ConsumerIInv
<1>3. CASE swap_task \/ SpuriousWakeup
  BY <1>3, SwapperIInv, SpuriousIInv
<1>4. CASE UNCHANGED vars
  BY <1>4 DEF vars, mutexes, conds, queues, IInv, TypeOK, Locks, Found, Asleep,
              NoLostWakeup, CapacityKept
<1>5. QED
  BY <1>1, <1>2, <1>3, <1>4 DEF Next

-----------------------------------------------------------------------------

\* Every thread, mutex, condition and buffer of the thread pool keeps its type:
\* producers sleep on ProductCond only, consumers on ComsumCond only.
THEOREM TypeCorrect == Spec => []TypeOK
<1>1. IInv => TypeOK
  BY DEF IInv
<1>2. QED
  BY <1>1, InitIInv, NextIInv, PTL DEF Spec

\* Neither buffer ever holds more than max_task_num tasks, whatever the order
\* of wakeups and swaps.
THEOREM CapacityCorrect == Spec => []CapacityKept
<1>1. IInv => CapacityKept
  BY DEF IInv
<1>2. QED
  BY <1>1, InitIInv, NextIInv, PTL DEF Spec

\* No producer, consumer or swap thread sleeps through what it waits for,
\* although Swap_Cond is waited on under two mutexes and signalled under either.
THEOREM NoLostWakeupCorrect == Spec => []NoLostWakeup
<1>1. IInv => NoLostWakeup
  BY DEF IInv
<1>2. QED
  BY <1>1, InitIInv, NextIInv, PTL DEF Spec

-----------------------------------------------------------------------------
(* The two buffers as one channel *)

\* Each step of the thread pool is a step of the channel or leaves it as it is.
LEMMA NextFifo == IInv /\ [Next]_vars => [Fifo!Next]_Fifo!vars
<1> SUFFICES ASSUME IInv, [Next]_vars PROVE [Fifo!Next]_Fifo!vars
  OBVIOUS
<1> DEFINE queue == consum_task \o product_task
<1>0. consum_task \in Seq(Tasks) /\ product_task \in Seq(Tasks)
  BY DEF IInv, TypeOK
<1>1. CASE \E t \in Producers : PutPush(t)
  <2>1. PICK t \in Producers : PutPush(t)
    BY <1>1
  <2>2. new_task[t] \in Seq(Tasks) /\ Head(new_task[t]) \in Tasks
    BY <2>1 DEF PutPush, IInv, TypeOK
  <2>3. queue' = Append(queue, Head(new_task[t])) /\ taken' = taken
    BY <1>0, <2>1, <2>2, PushConcat DEF PutPush
  <2>4. QED
    BY <2>2, <2>3 DEF Fifo!Next, Fifo!Put
<1>2. CASE \E t \in Consumers : TakePop(t)
  <2>1. /\ queue # << >> /\ queue' = Tail(queue)
        /\ taken' = Append(taken, Head(queue))
    BY <1>0, <1>2, PopConcat DEF TakePop
  <2>2. QED
    BY <2>1 DEF Fifo!Next, Fifo!Take
<1>3. CASE SwapSwap
  <2>1. consum_task = << >>
    BY <1>3 DEF SwapSwap, Goto, IInv, Found
  <2>2. queue = product_task /\ queue' = product_task
    BY <1>0, <1>3, <2>1, ConcatEmptySeq DEF SwapSwap
  <2>3. QED
    BY <1>3, <2>2 DEF SwapSwap, Fifo!vars
<1>4. CASE UNCHANGED <<queues, taken>>
  BY <1>4 DEF queues, Fifo!vars
<1>5. QED
  BY <1>1, <1>2, <1>3, <1>4
  DEF Next, vars, put_task, PutCall, PutLock, PutFull, PutDone, take_task, TakeEmpty,
      HandleTask, swap_task, SwapLockC, SwapTestC, SwapWaitC, SwapWakeC, SwapLockP,
      SwapTestP, SwapWaitP, SwapWakeP, SwapBroadcast, SwapUnlockP, SwapUnlockC,
      SpuriousWakeup

\* The thread pool's queue implements a FIFO channel: every task put is taken
\* by one consumer, once, in the order in which the tasks were put.
THEOREM FifoCorrect == Spec => ImplementsFifoChannel
<1>1. Init => Fifo!Init
  <2>1. << >> \o << >> = << >>
    BY EmptySeq, ConcatEmptySeq
  <2>2. QED
    BY <2>1 DEF Init, Fifo!Init
<1>2. QED
  BY <1>1, InitIInv, NextIInv, NextFifo, PTL DEF Spec, ImplementsFifoChannel, Fifo!Spec

=============================================================================

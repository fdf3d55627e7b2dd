-------------------------------- MODULE Task --------------------------------
(***************************************************************************)
(* The thread pool's task queue: put_task, take_task and swap_task         *)
(* (Task.cpp) with the threads of ThreadPool::loop as consumers.  Like the *)
(* log it has two buffers and a thread that swaps them, but product_task   *)
(* is bounded, several consumers take one task at a time, and the threads  *)
(* are woken one by one.                                                   *)
(*                                                                         *)
(* A condition variable is the set of threads asleep on it; a woken thread *)
(* takes its mutex again before it goes on.  take_task and put_task touch  *)
(* nothing that is not protected by the one mutex they hold, except that   *)
(* they signal Swap_Cond, so their statements up to the next push, pop or  *)
(* wait are one step.  swap_task holds both mutexes and waits on one       *)
(* condition with each: every statement of it is a step.                   *)
(***************************************************************************)
EXTENDS Naturals, Sequences, FiniteSets, SequencesExt

CONSTANTS
  Producers,      \* threads that call put_task
  Consumers,      \* threads that run ThreadPool::loop
  Swapper,        \* the thread that runs swap_task
  Tasks,          \* channels put, each once
  NoThread,       \* owner of a free mutex
  max_task_num,   \* capacity of product_task
  MaxBatch        \* most channels in one put_task

Threads == Producers \cup Consumers \cup {Swapper}

ASSUME TaskAssumption ==
  /\ Producers \cap Consumers = {}
  /\ Swapper \notin Producers \cup Consumers
  /\ NoThread \notin Threads
  /\ max_task_num \in Nat \ {0}
  /\ MaxBatch \in Nat

VARIABLES
  pc,               \* the next step of each thread
  new_task,         \* what is left of each producer's vector
  Product_Mutex,    \* the thread that holds Product_Mutex
  Comsumer_Mutex,   \* the thread that holds Comsumer_Mutex
  Swap_Cond,        \* threads asleep on Swap_Cond
  ComsumCond,       \* threads asleep on ComsumCond
  ProductCond,      \* threads asleep on ProductCond
  product_task,     \* the buffer being filled
  consum_task,      \* the buffer being emptied
  put,              \* tasks handed to put_task
  taken             \* tasks take_task has returned, in order

mutexes == <<Product_Mutex, Comsumer_Mutex>>
conds == <<Swap_Cond, ComsumCond, ProductCond>>
queues == <<product_task, consum_task>>
vars == <<pc, new_task, mutexes, conds, queues, put, taken>>

producerPc == {"idle", "lock", "push", "asleep"}
consumerPc == {"lock", "asleep", "handle"}
swapperPc == {"lock_c", "test_c", "wait_c", "asleep_c", "lock_p", "test_p", "wait_p",
              "asleep_p", "swap", "wake", "unlock_p", "unlock_c"}

TypeOK ==
  /\ pc \in [Threads -> producerPc \cup consumerPc \cup swapperPc]
  /\ \A t \in Producers : pc[t] \in producerPc
  /\ \A t \in Consumers : pc[t] \in consumerPc
  /\ pc[Swapper] \in swapperPc
  /\ new_task \in [Producers -> Seq(Tasks)]
  /\ Product_Mutex \in Producers \cup {Swapper, NoThread}
  /\ Comsumer_Mutex \in {Swapper, NoThread}
  /\ Swap_Cond \subseteq {Swapper}
  /\ ComsumCond \subseteq Consumers
  /\ ProductCond \subseteq Producers
  /\ product_task \in Seq(Tasks)
  /\ consum_task \in Seq(Tasks)
  /\ put \subseteq Tasks
  /\ taken \in Seq(Tasks)

Init ==
  /\ pc = [t \in Threads |-> IF t \in Producers THEN "idle"
                             ELSE IF t \in Consumers THEN "lock" ELSE "lock_c"]
  /\ new_task = [t \in Producers |-> << >>]
  /\ Product_Mutex = NoThread
  /\ Comsumer_Mutex = NoThread
  /\ Swap_Cond = {} /\ ComsumCond = {} /\ ProductCond = {}
  /\ product_task = << >> /\ consum_task = << >>
  /\ put = {}
  /\ taken = << >>

-----------------------------------------------------------------------------
(* pthread operations: external, as the code uses them *)

Goto(t, from, to) == pc[t] = from /\ pc' = [pc EXCEPT ![t] = to]

\* t is not asleep, or no longer: it may take its mutex.
Awake(t, from) == pc[t] \in {from, "asleep"} /\ t \notin ComsumCond \cup ProductCond

\* pthread_cond_signal(&Swap_Cond): its only waiter is the swap thread.
SignalSwap == Swap_Cond' = {}

-----------------------------------------------------------------------------
(* put_task *)

\* Vectors of channels that no put_task has been given yet.
Batches ==
  {b \in UNION {[1 .. n -> Tasks \ put] : n \in 1 .. MaxBatch} : IsInjective(b)}

\* An event loop calls put_task with the channels of one Poll.
PutCall(t) ==
  /\ Goto(t, "idle", "lock")
  /\ \E b \in Batches :
       /\ new_task' = [new_task EXCEPT ![t] = b]
       /\ put' = put \cup Range(b)
  /\ UNCHANGED <<mutexes, conds, queues, taken>>

\* Lock Product_Mutex, at the start or at the end of a wait.
PutLock(t) ==
  /\ Awake(t, "lock")
  /\ Product_Mutex = NoThread
  /\ Product_Mutex' = t
  /\ pc' = [pc EXCEPT ![t] = "push"]
  /\ UNCHANGED <<new_task, Comsumer_Mutex, conds, queues, put, taken>>

PutPush_NoLimit(t) ==
  /\ pc[t] = "push"
  /\ new_task[t] # << >>
  /\ product_task' = Append(product_task, Head(new_task[t]))
  /\ new_task' = [new_task EXCEPT ![t] = Tail(@)]
  /\ UNCHANGED <<pc, mutexes, conds, consum_task, put, taken>>
\* One turn of the for loop, with room in product_task.
PutPush(t) ==
  /\ pc[t] = "push"
  /\ new_task[t] # << >>
  /\ Len(product_task) # max_task_num
  /\ product_task' = Append(product_task, Head(new_task[t]))
  /\ new_task' = [new_task EXCEPT ![t] = Tail(@)]
  /\ UNCHANGED <<pc, mutexes, conds, consum_task, put, taken>>

PutFull_WrongCond(t) ==
  /\ Goto(t, "push", "asleep")
  /\ new_task[t] # << >>
  /\ Len(product_task) = max_task_num
  /\ SignalSwap
  /\ ComsumCond' = ComsumCond \cup {t}
  /\ Product_Mutex' = NoThread
  /\ UNCHANGED <<new_task, Comsumer_Mutex, ProductCond, queues, put, taken>>
\* No room: signal Swap_Cond and wait on ProductCond.
PutFull(t) ==
  /\ Goto(t, "push", "asleep")
  /\ new_task[t] # << >>
  /\ Len(product_task) = max_task_num
  /\ SignalSwap
  /\ ProductCond' = ProductCond \cup {t}
  /\ Product_Mutex' = NoThread
  /\ UNCHANGED <<new_task, Comsumer_Mutex, ComsumCond, queues, put, taken>>

PutDone_NoSignal(t) ==
  /\ Goto(t, "push", "idle")
  /\ new_task[t] = << >>
  /\ Product_Mutex' = NoThread
  /\ UNCHANGED <<new_task, Comsumer_Mutex, conds, queues, put, taken>>
\* The whole vector is in: signal Swap_Cond and unlock.
PutDone(t) ==
  /\ Goto(t, "push", "idle")
  /\ new_task[t] = << >>
  /\ SignalSwap
  /\ Product_Mutex' = NoThread
  /\ UNCHANGED <<new_task, Comsumer_Mutex, ComsumCond, ProductCond, queues, put, taken>>

-----------------------------------------------------------------------------
(* take_task, called by ThreadPool::loop *)

\* Nothing to take: signal Swap_Cond and wait on ComsumCond, then test again.
TakeEmpty(t) ==
  /\ Awake(t, "lock")
  /\ Comsumer_Mutex = NoThread
  /\ consum_task = << >>
  /\ pc' = [pc EXCEPT ![t] = "asleep"]
  /\ SignalSwap
  /\ ComsumCond' = ComsumCond \cup {t}
  /\ UNCHANGED <<new_task, mutexes, ProductCond, queues, put, taken>>

TakePop_NoRetest(t) ==
  /\ Awake(t, "lock")
  /\ Comsumer_Mutex = NoThread
  /\ consum_task = << >> => pc[t] = "asleep"
  /\ pc' = [pc EXCEPT ![t] = "handle"]
  /\ IF consum_task = << >>
     THEN /\ \E x \in Tasks : taken' = Append(taken, x)
          /\ UNCHANGED consum_task
     ELSE /\ taken' = Append(taken, Head(consum_task))
          /\ consum_task' = Tail(consum_task)
  /\ UNCHANGED <<new_task, mutexes, conds, product_task, put>>
\* front() and pop().
TakePop(t) ==
  /\ Awake(t, "lock")
  /\ Comsumer_Mutex = NoThread
  /\ consum_task # << >>
  /\ pc' = [pc EXCEPT ![t] = "handle"]
  /\ taken' = Append(taken, Head(consum_task))
  /\ consum_task' = Tail(consum_task)
  /\ UNCHANGED <<new_task, mutexes, conds, product_task, put>>

\* ThreadPool::loop: handle_event returns and the next task is asked for.
HandleTask(t) ==
  /\ Goto(t, "handle", "lock")
  /\ UNCHANGED <<new_task, mutexes, conds, queues, put, taken>>

-----------------------------------------------------------------------------
(* swap_task *)

SwapLockC ==
  /\ Goto(Swapper, "lock_c", "test_c")
  /\ Comsumer_Mutex = NoThread /\ Comsumer_Mutex' = Swapper
  /\ UNCHANGED <<new_task, Product_Mutex, conds, queues, put, taken>>

SwapTestC ==
  /\ Goto(Swapper, "test_c", IF consum_task # << >> THEN "wait_c" ELSE "lock_p")
  /\ UNCHANGED <<new_task, mutexes, conds, queues, put, taken>>

\* pthread_cond_wait(&Swap_Cond, &Comsumer_Mutex)
SwapWaitC ==
  /\ Goto(Swapper, "wait_c", "asleep_c")
  /\ Swap_Cond' = Swap_Cond \cup {Swapper}
  /\ Comsumer_Mutex' = NoThread
  /\ UNCHANGED <<new_task, Product_Mutex, ComsumCond, ProductCond, queues, put, taken>>

SwapWakeC ==
  /\ Swapper \notin Swap_Cond
  /\ Goto(Swapper, "asleep_c", "test_c")
  /\ Comsumer_Mutex = NoThread /\ Comsumer_Mutex' = Swapper
  /\ UNCHANGED <<new_task, Product_Mutex, conds, queues, put, taken>>

SwapLockP ==
  /\ Goto(Swapper, "lock_p", "test_p")
  /\ Product_Mutex = NoThread /\ Product_Mutex' = Swapper
  /\ UNCHANGED <<new_task, Comsumer_Mutex, conds, queues, put, taken>>

SwapTestP ==
  /\ Goto(Swapper, "test_p", IF product_task = << >> THEN "wait_p" ELSE "swap")
  /\ UNCHANGED <<new_task, mutexes, conds, queues, put, taken>>

\* pthread_cond_wait(&Swap_Cond, &Product_Mutex), with Comsumer_Mutex held.
SwapWaitP ==
  /\ Goto(Swapper, "wait_p", "asleep_p")
  /\ Swap_Cond' = Swap_Cond \cup {Swapper}
  /\ Product_Mutex' = NoThread
  /\ UNCHANGED <<new_task, Comsumer_Mutex, ComsumCond, ProductCond, queues, put, taken>>

SwapWakeP ==
  /\ Swapper \notin Swap_Cond
  /\ Goto(Swapper, "asleep_p", "test_p")
  /\ Product_Mutex = NoThread /\ Product_Mutex' = Swapper
  /\ UNCHANGED <<new_task, Comsumer_Mutex, conds, queues, put, taken>>

SwapSwap ==
  /\ Goto(Swapper, "swap", "wake")
  /\ product_task' = consum_task
  /\ consum_task' = product_task
  /\ UNCHANGED <<new_task, mutexes, conds, put, taken>>

\* Broadcast ComsumCond and ProductCond.
SwapBroadcast ==
  /\ Goto(Swapper, "wake", "unlock_p")
  /\ ComsumCond' = {} /\ ProductCond' = {}
  /\ UNCHANGED <<new_task, mutexes, Swap_Cond, queues, put, taken>>

SwapUnlockP ==
  /\ Goto(Swapper, "unlock_p", "unlock_c")
  /\ Product_Mutex' = NoThread
  /\ UNCHANGED <<new_task, Comsumer_Mutex, conds, queues, put, taken>>

SwapUnlockC ==
  /\ Goto(Swapper, "unlock_c", "lock_c")
  /\ Comsumer_Mutex' = NoThread
  /\ UNCHANGED <<new_task, Product_Mutex, conds, queues, put, taken>>

-----------------------------------------------------------------------------

\* pthread_cond_wait may return although nobody signalled.
SpuriousWakeup ==
  /\ \E t \in Swap_Cond \cup ComsumCond \cup ProductCond :
       /\ Swap_Cond' = Swap_Cond \ {t}
       /\ ComsumCond' = ComsumCond \ {t}
       /\ ProductCond' = ProductCond \ {t}
  /\ UNCHANGED <<pc, new_task, mutexes, queues, put, taken>>

put_task(t) == PutLock(t) \/ PutPush(t) \/ PutFull(t) \/ PutDone(t)

take_task(t) == TakeEmpty(t) \/ TakePop(t) \/ HandleTask(t)

swap_task ==
  \/ SwapLockC \/ SwapTestC \/ SwapWaitC \/ SwapWakeC
  \/ SwapLockP \/ SwapTestP \/ SwapWaitP \/ SwapWakeP
  \/ SwapSwap \/ SwapBroadcast \/ SwapUnlockP \/ SwapUnlockC

Next ==
  \/ \E t \in Producers : PutCall(t) \/ put_task(t)
  \/ \E t \in Consumers : take_task(t)
  \/ swap_task
  \/ SpuriousWakeup

Spec == Init /\ [][Next]_vars

\* Every thread that can run is scheduled, and handle_event returns.
FairSpec ==
  /\ Spec
  /\ \A t \in Producers : WF_vars(put_task(t))
  /\ \A t \in Consumers : WF_vars(take_task(t))
  /\ WF_vars(swap_task)

-----------------------------------------------------------------------------
(* Properties *)

\* The capacity holds for both buffers, whatever the order of wakeups: a
\* producer that waited for room tests again, and a swap never moves tasks
\* back into product_task.
CapacityKept ==
  Len(product_task) <= max_task_num /\ Len(consum_task) <= max_task_num

Fifo == INSTANCE FifoChannel WITH
          Elements <- Tasks,
          queue <- consum_task \o product_task,
          taken <- taken

\* The thread pool's queue is one FIFO channel: no task is lost, repeated or
\* overtaken, however many consumers are woken for one task.
ImplementsFifoChannel == Fifo!Spec

\* Every channel handed to put_task is taken by some consumer, unless spurious
\* wakeups go on for ever: no producer, consumer or swap thread sleeps through
\* a signal of Swap_Cond, which is waited on under two mutexes.
EventuallyTaken ==
  <>[][~ SpuriousWakeup]_vars =>
    \A x \in Tasks : (x \in put) ~> (x \in Range(taken))

=============================================================================

--------------------------- MODULE CoroutinePool ----------------------------
(***************************************************************************)
(* One event loop thread: EventLoop::loop / MainLoop (Eventloop.cpp), the  *)
(* CoroutinePool it owns (CoroutinePool.cpp) and the part of libco's       *)
(* scheduler the pool runs on (libco/co_routine.cpp).                      *)
(*                                                                         *)
(* Everything here is one thread.  What is nondeterministic is which       *)
(* channels epoll reports, whether a handler blocks in co_poll, and the    *)
(* order in which blocked handlers become ready.                           *)
(***************************************************************************)
EXTENDS Naturals, Sequences, FiniteSets, SequencesExt

CONSTANTS
  Coroutines,   \* the coroutines of the pool
  Main,         \* the thread's own stack, the bottom of pCallStack
  Channels,     \* the registered channels
  NoChannel,    \* a coroutine that holds no channel
  MaxBatch,     \* most events one Poll() reports (event_fd.size())
  MaxPolls      \* most times one handle_event() calls co_poll

ASSUME PoolAssumption ==
  /\ IsFiniteSet(Coroutines)
  /\ Main \notin Coroutines
  /\ NoChannel \notin Channels
  /\ MaxBatch \in Nat \ {0}
  /\ MaxPolls \in Nat

VARIABLES
  pc,              \* where the thread's main stack is
  results,         \* vector returned by Poll(), not yet handed on
  task,            \* CoroutinePool::task
  free_co_num,     \* CoroutinePool::free_co_num
  task_size,       \* local of Run()
  cond,            \* CoroutinePool::cond: coroutines in co_cond_timedwait
  pstActiveList,   \* coroutines co_eventloop will resume next
  pCallStack,      \* stCoRoutineEnv_t::pCallStack
  at,              \* where each coroutine's stack is
  channel,         \* the channel whose handle_event each stack is in
  polls,           \* co_poll calls of the handler that is running
  cEnableSysHook,  \* stCoRoutine_t::cEnableSysHook
  co_num           \* CoroutinePool::co_num; 0 when the server runs without coroutines

poolVars == <<task, free_co_num, cond>>
coVars == <<at, channel, polls>>
schedVars == <<pstActiveList, pCallStack>>
vars == <<pc, results, poolVars, task_size, schedVars, coVars, cEnableSysHook, co_num>>

\* The coroutine that is running: GetCurrCo.
Current == Last(pCallStack)

\* The ways at most n elements of S can be listed, none of them twice.
Listings(S, n) == {s \in SeqOf(S, n) : IsInjective(s)}

\* What Poll() can return: epoll reports an fd once, in any order, and nothing
\* is left of a report whose channels have all been taken out of Mmap since.
Batches == Listings(Channels, MaxBatch)

\* Coroutines blocked in co_poll_inner whose event has not been raised.
Polling == {co \in Coroutines : at[co] = "poll" /\ co \notin Range(pstActiveList)}

TypeOK ==
  /\ pc \in {"start", "poll", "put", "run", "outer", "inner",
             "epoll_wait", "active", "handle"}
  /\ results \in Seq(Channels)
  /\ task \in Seq(Channels)
  /\ free_co_num \in Nat
  /\ task_size \in Nat
  /\ cond \in Seq(Coroutines)
  /\ pstActiveList \in Seq(Coroutines)
  /\ pCallStack \in Seq(Coroutines \cup {Main})
  /\ at \in [Coroutines -> {"created", "top", "wait", "handle", "poll"}]
  /\ channel \in [Coroutines \cup {Main} -> Channels \cup {NoChannel}]
  /\ polls \in [Coroutines -> 0 .. MaxPolls]
  /\ cEnableSysHook \in [Coroutines \cup {Main} -> BOOLEAN]
  /\ co_num \in {0, Cardinality(Coroutines)}

Init ==
  /\ pc = "start"
  /\ results = << >>
  /\ task = << >>
  /\ free_co_num = 0
  /\ task_size = 0
  /\ cond = << >>
  /\ pstActiveList = << >>
  /\ pCallStack = <<Main>>
  /\ at = [co \in Coroutines |-> "created"]
  /\ channel = [co \in Coroutines \cup {Main} |-> NoChannel]
  /\ polls = [co \in Coroutines |-> 0]
  /\ cEnableSysHook = [co \in Coroutines \cup {Main} |-> FALSE]
  /\ co_num \in {0, Cardinality(Coroutines)}

-----------------------------------------------------------------------------
(* libco *)

\* co_resume: co becomes the current coroutine and continues at its own top.
\* A coroutine suspended in co_cond_timedwait or just created is at the top of
\* CoroutineFun's loop; one suspended in co_poll is inside handle_event.
co_resume(co) ==
  /\ pCallStack' = Append(pCallStack, co)
  /\ at' = [at EXCEPT ![co] = IF at[co] = "poll" THEN "handle" ELSE "top"]

\* co_yield_env: the coroutine that resumed the current one continues.
co_yield ==
  pCallStack' = Front(pCallStack)

co_cond_signal_NoPop ==
  IF cond = << >>
  THEN UNCHANGED <<cond, pstActiveList>>
  ELSE /\ pstActiveList' = Append(pstActiveList, Head(cond))
       /\ UNCHANGED cond
\* co_cond_signal: the first waiter, if any, moves to the active list.
co_cond_signal ==
  IF cond = << >>
  THEN UNCHANGED <<cond, pstActiveList>>
  ELSE /\ cond' = Tail(cond)
       /\ pstActiveList' = Append(pstActiveList, Head(cond))

\* co_cond_timedwait(cond, -1): no timeout is armed.
co_cond_timedwait(co) ==
  /\ cond' = Append(cond, co)
  /\ at' = [at EXCEPT ![co] = "wait"]
  /\ co_yield

\* One pass of co_eventloop: the epoll events, then the expired timeouts, are
\* appended to the active list.  Each coroutine is appended once: the first
\* event detaches it (iAllEventDetach) and takes it off the timeout wheel.
EventloopWait ==
  /\ pc = "epoll_wait"
  /\ \E r \in Listings(Polling, co_num) : pstActiveList' = pstActiveList \o r
  /\ pc' = "active"
  /\ UNCHANGED <<results, poolVars, task_size, pCallStack, coVars, cEnableSysHook, co_num>>

\* The active list is drained, one co_resume at a time ...
EventloopResume ==
  /\ pc = "active"
  /\ pCallStack = <<Main>>
  /\ pstActiveList # << >>
  /\ pstActiveList' = Tail(pstActiveList)
  /\ co_resume(Head(pstActiveList))
  /\ UNCHANGED <<pc, results, poolVars, task_size, channel, polls, cEnableSysHook, co_num>>

CheckFinish_AnyFree ==
  /\ pc = "active"
  /\ pCallStack = <<Main>>
  /\ pstActiveList = << >>
  /\ pc' = IF free_co_num = 0 THEN "epoll_wait" ELSE "outer"
  /\ UNCHANGED <<results, poolVars, task_size, schedVars, coVars, cEnableSysHook, co_num>>
\* ... and then CheckFinish decides whether co_eventloop returns to Run.
CheckFinish ==
  /\ pc = "active"
  /\ pCallStack = <<Main>>
  /\ pstActiveList = << >>
  /\ pc' = IF free_co_num # co_num THEN "epoll_wait" ELSE "outer"
  /\ UNCHANGED <<results, poolVars, task_size, schedVars, coVars, cEnableSysHook, co_num>>

-----------------------------------------------------------------------------
(* CoroutineFun, run by the current coroutine *)

\* No task: the coroutine counts itself free and waits for Run to signal it.
CoroutineWait(co) ==
  /\ Current = co
  /\ at[co] = "top"
  /\ task = << >>
  /\ free_co_num' = free_co_num + 1
  /\ co_cond_timedwait(co)
  /\ UNCHANGED <<pc, results, task, task_size, pstActiveList, channel, polls,
                 cEnableSysHook, co_num>>

CoroutineTake_NoPop(co) ==
  /\ Current = co
  /\ at[co] = "top"
  /\ task # << >>
  /\ channel' = [channel EXCEPT ![co] = Head(task)]
  /\ at' = [at EXCEPT ![co] = "handle"]
  /\ UNCHANGED <<pc, results, poolVars, task_size, schedVars, polls, cEnableSysHook, co_num>>
\* A task: take it and enter handle_event.
CoroutineTake(co) ==
  /\ Current = co
  /\ at[co] = "top"
  /\ task # << >>
  /\ task' = Tail(task)
  /\ channel' = [channel EXCEPT ![co] = Head(task)]
  /\ at' = [at EXCEPT ![co] = "handle"]
  /\ UNCHANGED <<pc, results, free_co_num, task_size, cond, schedVars, polls,
                 cEnableSysHook, co_num>>

\* The handler blocks in co_poll: co_poll_inner registers and yields.
HandlerPolls(co) ==
  /\ Current = co
  /\ at[co] = "handle"
  /\ polls[co] < MaxPolls
  /\ polls' = [polls EXCEPT ![co] = @ + 1]
  /\ at' = [at EXCEPT ![co] = "poll"]
  /\ co_yield
  /\ UNCHANGED <<pc, results, poolVars, task_size, pstActiveList, channel,
                 cEnableSysHook, co_num>>

\* handle_event returns; CoroutineFun loops and drops its channel.
HandlerReturns(co) ==
  /\ Current = co
  /\ at[co] = "handle"
  /\ at' = [at EXCEPT ![co] = "top"]
  /\ channel' = [channel EXCEPT ![co] = NoChannel]
  /\ polls' = [polls EXCEPT ![co] = 0]
  /\ UNCHANGED <<pc, results, poolVars, task_size, schedVars, cEnableSysHook, co_num>>

-----------------------------------------------------------------------------
(* The thread's own stack: Start, loop, PutTask, Run *)

\* Start: create and resume each coroutine in turn; each runs until it waits.
Start ==
  /\ pc = "start"
  /\ pCallStack = <<Main>>
  /\ IF co_num > 0 /\ \E co \in Coroutines : at[co] = "created"
     THEN \E co \in Coroutines :
            /\ at[co] = "created"
            /\ co_resume(co)
            /\ UNCHANGED pc
     ELSE /\ pc' = "poll"
          /\ UNCHANGED <<pCallStack, at>>
  /\ UNCHANGED <<results, poolVars, task_size, pstActiveList, channel, polls,
                 cEnableSysHook, co_num>>

\* Epoll::Poll reports a batch.
Poll ==
  /\ pc = "poll"
  /\ results' \in Batches
  /\ pc' = IF co_num > 0 THEN "put" ELSE "handle"
  /\ UNCHANGED <<poolVars, task_size, schedVars, coVars, cEnableSysHook, co_num>>

\* PutTask(results[i]), for each i.
PutTask ==
  /\ pc = "put"
  /\ IF results # << >>
     THEN /\ task' = Append(task, Head(results))
          /\ results' = Tail(results)
          /\ UNCHANGED pc
     ELSE /\ pc' = "run"
          /\ UNCHANGED <<task, results>>
  /\ UNCHANGED <<free_co_num, cond, task_size, schedVars, coVars, cEnableSysHook, co_num>>

RunEnter_OneShort ==
  /\ pc = "run"
  /\ cEnableSysHook' = [cEnableSysHook EXCEPT ![Current] = TRUE]
  /\ task_size' = IF task = << >> THEN 0 ELSE Len(task) - 1
  /\ pc' = "outer"
  /\ UNCHANGED <<results, poolVars, schedVars, coVars, co_num>>
\* Run, up to its outer loop; co_enable_hook_sys marks the current coroutine.
RunEnter ==
  /\ pc = "run"
  /\ cEnableSysHook' = [cEnableSysHook EXCEPT ![Current] = TRUE]
  /\ task_size' = Len(task)
  /\ pc' = "outer"
  /\ UNCHANGED <<results, poolVars, schedVars, coVars, co_num>>

\* while(task_size > 0), and what follows it.
RunOuter ==
  /\ pc = "outer"
  /\ IF task_size > 0
     THEN /\ pc' = "inner"
          /\ UNCHANGED cEnableSysHook
     ELSE /\ pc' = "poll"
          /\ cEnableSysHook' = [cEnableSysHook EXCEPT ![Current] = FALSE]
  /\ UNCHANGED <<results, poolVars, task_size, schedVars, coVars, co_num>>

RunSignal_NoneFree ==
  /\ pc = "inner"
  /\ task_size > 0
  /\ co_cond_signal
  /\ free_co_num' = free_co_num - 1
  /\ task_size' = task_size - 1
  /\ UNCHANGED <<pc, results, task, pCallStack, coVars, cEnableSysHook, co_num>>
RunSignal_NotCounted ==
  /\ pc = "inner"
  /\ free_co_num > 0
  /\ task_size > 0
  /\ co_cond_signal
  /\ task_size' = task_size - 1
  /\ UNCHANGED <<pc, results, task, free_co_num, pCallStack, coVars, cEnableSysHook, co_num>>
\* One turn of while(free_co_num > 0 && task_size > 0).
RunSignal ==
  /\ pc = "inner"
  /\ free_co_num > 0
  /\ task_size > 0
  /\ co_cond_signal
  /\ free_co_num' = free_co_num - 1
  /\ task_size' = task_size - 1
  /\ UNCHANGED <<pc, results, task, pCallStack, coVars, cEnableSysHook, co_num>>

\* The inner loop ends: co_eventloop if some coroutine is running.
RunInnerDone ==
  /\ pc = "inner"
  /\ ~ (free_co_num > 0 /\ task_size > 0)
  /\ pc' = IF free_co_num < co_num THEN "epoll_wait" ELSE "outer"
  /\ UNCHANGED <<results, poolVars, task_size, schedVars, coVars, cEnableSysHook, co_num>>

\* co_num = 0: the loop calls handle_event of each result itself ...
DirectBegin ==
  /\ pc = "handle"
  /\ channel[Main] = NoChannel
  /\ IF results # << >>
     THEN /\ channel' = [channel EXCEPT ![Main] = Head(results)]
          /\ results' = Tail(results)
          /\ UNCHANGED pc
     ELSE /\ pc' = "poll"
          /\ UNCHANGED <<results, channel>>
  /\ UNCHANGED <<poolVars, task_size, schedVars, at, polls, cEnableSysHook, co_num>>

\* ... which returns.
DirectReturn ==
  /\ pc = "handle"
  /\ channel[Main] # NoChannel
  /\ channel' = [channel EXCEPT ![Main] = NoChannel]
  /\ UNCHANGED <<pc, results, poolVars, task_size, schedVars, at, polls, cEnableSysHook, co_num>>

-----------------------------------------------------------------------------

MainStep ==
  \/ Start \/ PutTask \/ RunEnter \/ RunOuter \/ RunSignal \/ RunInnerDone
  \/ EventloopWait \/ EventloopResume \/ CheckFinish
  \/ DirectBegin \/ DirectReturn

CoroutineStep ==
  \E co \in Coroutines :
    CoroutineWait(co) \/ CoroutineTake(co) \/ HandlerPolls(co) \/ HandlerReturns(co)

Next == Poll \/ MainStep \/ CoroutineStep

\* The thread never blocks except in epoll_wait(-1) (Poll), and a coroutine in
\* co_poll is raised at the latest when its timeout, at most 40 s, expires.
Fairness ==
  /\ WF_vars(MainStep \/ CoroutineStep)
  /\ \A co \in Coroutines :
       SF_vars(EventloopWait /\ co \in Range(pstActiveList'))

Spec == Init /\ [][Next]_vars

FairSpec == Spec /\ Fairness

-----------------------------------------------------------------------------
(* Properties *)

\* free_co_num, which CoroutineFun increments and Run decrements, is at every
\* step the number of coroutines parked in co_cond_timedwait: Run signals only
\* coroutines that are there, and CheckFinish is not fooled.
FreeCountExact == free_co_num = Len(cond)

\* The places a suspended or running coroutine can be in.
Places(co) ==
  {p \in {"cond", "active", "poll", "stack", "created"} :
     \/ p = "cond"    /\ co \in Range(cond)
     \/ p = "active"  /\ co \in Range(pstActiveList)
     \/ p = "poll"    /\ co \in Polling
     \/ p = "stack"   /\ co \in Range(pCallStack)
     \/ p = "created" /\ at[co] = "created"}

\* A coroutine is in exactly one list, once, so co_resume never enters a
\* coroutine that is already on the call stack, and none is ever forgotten;
\* and libco's call stack never nests pool coroutines.
OnePlace ==
  /\ \A co \in Coroutines : Cardinality(Places(co)) = 1
  /\ IsInjective(cond) /\ IsInjective(pstActiveList)
  /\ Len(pCallStack) <= 2

\* When the loop goes back to epoll_wait, Run has left no task in the queue and
\* no coroutine inside a handler or about to be resumed.
RunBarrier ==
  pc = "poll" =>
    /\ task = << >> /\ results = << >>
    /\ co_num > 0 => Range(cond) = Coroutines
    /\ \A s \in Coroutines \cup {Main} : channel[s] = NoChannel

\* The loop's promise, seen through the queue and the running handlers.
batchStatus ==
  [ch \in Channels |->
     IF \E s \in Coroutines \cup {Main} : channel[s] = ch THEN "handling"
     ELSE IF ch \in Range(task) \cup Range(results) THEN "queued"
     ELSE "idle"]

Batch == INSTANCE EventBatch WITH status <- batchStatus

\* The loop with its coroutine pool implements EventBatch: each reported
\* channel is handled once, by one coroutine, before the next Poll().
ImplementsEventBatch == Batch!Spec

\* Every channel that Poll() reports is eventually handled, even when other
\* handlers of the batch block in co_poll or outnumber the coroutines.
EventuallyHandled ==
  \A ch \in Channels :
    (ch \in Range(task) \cup Range(results)) ~> (batchStatus[ch] = "idle")

\* CoroutinePool.cpp:68 says that Run turns the hook on for the blocking calls
\* made while an event is handled, that is, in the coroutine of the handler.
HandlersAreHooked ==
  \A co \in Coroutines : at[co] = "handle" => cEnableSysHook[co]

=============================================================================

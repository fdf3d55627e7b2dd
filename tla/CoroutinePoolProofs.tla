------------------------ MODULE CoroutinePoolProofs -------------------------
(***************************************************************************)
(* The coroutine pool, for any number of coroutines, channels and polls:   *)
(* free_co_num is exact, no coroutine is ever in two places, and Run is a  *)
(* barrier.                                                                *)
(*                                                                         *)
(* RunBarrier is not inductive.  What makes Run a barrier is that a        *)
(* coroutine parks in cond only when task is empty (CoroutineFun), that    *)
(* free_co_num counts exactly the parked ones, and that co_eventloop       *)
(* therefore returns only when all are parked again.  IInv says so phase   *)
(* by phase, next to where each coroutine is.  With it the loop implements *)
(* EventBatch.                                                             *)
(***************************************************************************)
EXTENDS CoroutinePool, ListLemmas

\* libco's call stack: the thread's own stack and at most one coroutine on it.
Stack ==
  /\ \/ pCallStack = <<Main>>
     \/ \E co \in Coroutines : pCallStack = <<Main, co>>
  /\ \A co \in Coroutines : at[co] \in {"top", "handle"} <=> pCallStack = <<Main, co>>
  /\ pc \notin {"start", "active"} => pCallStack = <<Main>>

\* A parked coroutine is in cond, a signalled or raised one in the active list.
Lists ==
  /\ IsInjective(cond)
  /\ IsInjective(pstActiveList)
  /\ Range(cond) \cap Range(pstActiveList) = {}
  /\ \A co \in Coroutines :
       /\ co \in Range(cond) => at[co] = "wait"
       /\ co \in Range(pstActiveList) => at[co] \in {"wait", "poll"}
       /\ at[co] = "wait" => co \in Range(cond) \cup Range(pstActiveList)

\* A stack holds a channel while it is in a handler.
Handlers ==
  /\ \A co \in Coroutines : channel[co] # NoChannel <=> at[co] \in {"handle", "poll"}
  /\ channel[Main] # NoChannel => pc = "handle"

\* What the main stack can rely on at each point of the loop.
Phases ==
  /\ pc = "start" =>
       /\ task = << >>
       /\ pstActiveList = << >>
       /\ \A co \in Coroutines : at[co] \in {"created", "top", "wait"}
  /\ pc # "start" /\ co_num > 0 => \A co \in Coroutines : at[co] # "created"
  /\ pc \in {"poll", "put", "run", "outer", "handle"} /\ co_num > 0 =>
       Range(cond) = Coroutines
  /\ co_num = 0 =>
       /\ pc \in {"start", "poll", "handle"}
       /\ \A co \in Coroutines : at[co] = "created"
  /\ pc \notin {"put", "handle"} => results = << >>
  /\ pc \in {"poll", "handle"} => task = << >>
  /\ pc = "outer" /\ task # << >> => task_size > 0
  /\ pc = "inner" /\ task # << >> /\ Range(cond) = Coroutines => task_size > 0
  /\ pc \in {"epoll_wait", "active"} /\ task # << >> => Range(cond) # Coroutines

IInv == TypeOK /\ Stack /\ Lists /\ Handlers /\ FreeCountExact /\ Phases

-----------------------------------------------------------------------------

\* The elements of a listing of S are in S, and none is repeated.
LEMMA ListingFacts ==
  ASSUME NEW S, NEW n \in Nat, NEW s \in Listings(S, n)
  PROVE  s \in Seq(S) /\ Range(s) \subseteq S /\ IsInjective(s)
<1>1. s \in Seq(S) /\ IsInjective(s)
  BY DEF Listings, SeqOf
<1>2. QED
  BY <1>1 DEF Range

\* Pushing a coroutine on the thread's stack and popping it again.
LEMMA StackFacts ==
  ASSUME NEW co \in Coroutines
  PROVE  /\ Append(<<Main>>, co) = <<Main, co>>
         /\ Front(<<Main, co>>) = <<Main>>
         /\ Last(<<Main, co>>) = co
         /\ Last(<<Main>>) = Main
         /\ <<Main, co>> # <<Main>>
         /\ \A d \in Coroutines : <<Main, co>> = <<Main, d>> => d = co
<1> DEFINE T == Coroutines \cup {Main}
<1>0. /\ <<Main, co>> \in Seq(T) /\ Len(<<Main, co>>) = 2
      /\ <<Main>> \in Seq(T) /\ Len(<<Main>>) = 1
  OBVIOUS
<1>1. Append(<<Main>>, co) = <<Main, co>>
  <2>1. /\ Append(<<Main>>, co) \in Seq(T) /\ Len(Append(<<Main>>, co)) = 2
        /\ Append(<<Main>>, co)[1] = Main /\ Append(<<Main>>, co)[2] = co
    BY <1>0
  <2>2. \A i \in 1 .. 2 : Append(<<Main>>, co)[i] = <<Main, co>>[i]
    BY <2>1
  <2>3. QED
    BY <1>0, <2>1, <2>2, SeqEqual
<1>2. Front(<<Main, co>>) = <<Main>>
  <2>1. Front(<<Main, co>>) = SubSeq(<<Main, co>>, 1, 1)
    BY <1>0 DEF Front
  <2>2. \A i \in 1 .. 1 : <<Main, co>>[i] \in T
    OBVIOUS
  <2>3. /\ SubSeq(<<Main, co>>, 1, 1) \in Seq(T)
        /\ Len(SubSeq(<<Main, co>>, 1, 1)) = 1
        /\ \A i \in 1 .. 1 : SubSeq(<<Main, co>>, 1, 1)[i] = <<Main>>[i]
    BY <2>2, SubSeqProperties
  <2>4. QED
    BY <1>0, <2>1, <2>3, SeqEqual
<1>3. Last(<<Main, co>>) = co /\ Last(<<Main>>) = Main
  BY DEF Last
<1>4. <<Main, co>> # <<Main>>
  <2>1. Len(<<Main, co>>) = 2 /\ Len(<<Main>>) = 1
    OBVIOUS
  <2>2. QED
    BY <2>1
<1>5. \A d \in Coroutines : <<Main, co>> = <<Main, d>> => d = co
  OBVIOUS
<1>6. QED
  BY <1>1, <1>2, <1>3, <1>4, <1>5

\* The thread's own stack is the current coroutine when nothing is on it.
LEMMA MainFacts == Last(<<Main>>) = Main
BY DEF Last

\* The coroutine that takes a step is the one on top of the stack.
LEMMA CurrentFacts ==
  ASSUME Stack, NEW co \in Coroutines, Current = co
  PROVE  pCallStack = <<Main, co>> /\ pc \in {"start", "active"}
BY StackFacts, PoolAssumption DEF Stack, Current

\* free_co_num against co_num tells whether every coroutine is parked.
LEMMA FreeFacts ==
  ASSUME TypeOK, Lists, FreeCountExact
  PROVE  /\ co_num \in Nat
         /\ co_num > 0 => /\ free_co_num <= co_num
                          /\ free_co_num = co_num <=> Range(cond) = Coroutines
         /\ free_co_num = 0 <=> cond = << >>
<1>1. cond \in Seq(Coroutines) /\ IsInjective(cond) /\ IsFiniteSet(Coroutines)
  BY PoolAssumption DEF TypeOK, Lists
<1>2. /\ Cardinality(Coroutines) \in Nat /\ Len(cond) <= Cardinality(Coroutines)
      /\ Len(cond) = Cardinality(Coroutines) <=> Range(cond) = Coroutines
  BY <1>1, FullList
<1>3. Len(cond) = 0 <=> cond = << >>
  BY <1>1
<1>4. QED
  BY <1>2, <1>3 DEF FreeCountExact, TypeOK

\* The invariant holds when the loop thread starts.
LEMMA InitIInv == Init => IInv
<1> SUFFICES ASSUME Init PROVE IInv
  OBVIOUS
<1>1. TypeOK
  BY PoolAssumption DEF Init, TypeOK
<1>2. Stack
  BY DEF Init, Stack
<1>3. Lists /\ Handlers /\ FreeCountExact /\ Phases
  BY EmptyList, PoolAssumption DEF Init, Lists, Handlers, FreeCountExact, Phases
<1>4. QED
  BY <1>1, <1>2, <1>3 DEF IInv

-----------------------------------------------------------------------------
(* The coroutines *)

\* The invariant is preserved by
\* a coroutine that finds no task and parks itself in cond.
LEMMA CoroutineWaitIInv ==
  ASSUME IInv, NEW co \in Coroutines, CoroutineWait(co)
  PROVE  IInv'
<1> USE DEF IInv
<1>1. pCallStack = <<Main, co>> /\ pc \in {"start", "active"} /\ pCallStack' = <<Main>>
  BY CurrentFacts, StackFacts DEF CoroutineWait, co_cond_timedwait, co_yield
<1>2. co \notin Range(cond) /\ co \notin Range(pstActiveList)
  BY DEF CoroutineWait, Lists
<1>3. /\ cond' \in Seq(Coroutines) /\ Len(cond') = Len(cond) + 1
      /\ Range(cond') = Range(cond) \cup {co} /\ IsInjective(cond')
  BY <1>2, AppendList DEF CoroutineWait, co_cond_timedwait, TypeOK, Lists
<1>4. TypeOK'
  BY <1>1, <1>3 DEF CoroutineWait, co_cond_timedwait, TypeOK
<1>5. Stack'
  BY <1>1, StackFacts DEF CoroutineWait, co_cond_timedwait, Stack, TypeOK
<1>6. Lists'
  BY <1>2, <1>3 DEF CoroutineWait, co_cond_timedwait, Lists, TypeOK
<1>7. Handlers'
  BY PoolAssumption DEF CoroutineWait, co_cond_timedwait, Handlers, TypeOK
<1>8. FreeCountExact'
  BY <1>3 DEF CoroutineWait, FreeCountExact
<1>9. Phases'
  BY <1>1, <1>3 DEF CoroutineWait, co_cond_timedwait, Phases, TypeOK
<1>10. QED
  BY <1>4, <1>5, <1>6, <1>7, <1>8, <1>9

\* The invariant is preserved by
\* a coroutine that takes the first task and enters its handler.
LEMMA CoroutineTakeIInv ==
  ASSUME IInv, NEW co \in Coroutines, CoroutineTake(co)
  PROVE  IInv'
<1> USE DEF IInv
<1>1. pCallStack = <<Main, co>> /\ pc = "active"
  BY CurrentFacts DEF CoroutineTake, Phases
<1>2. task' \in Seq(Channels) /\ Head(task) \in Channels
  BY TailList DEF CoroutineTake, TypeOK
<1>3. TypeOK'
  BY <1>2 DEF CoroutineTake, TypeOK, schedVars
<1>4. Stack'
  BY <1>1, StackFacts DEF CoroutineTake, Stack, TypeOK, schedVars
<1>5. Lists' /\ FreeCountExact'
  BY DEF CoroutineTake, Lists, FreeCountExact, TypeOK, schedVars
<1>6. Handlers'
  BY <1>2, PoolAssumption DEF CoroutineTake, Handlers, TypeOK
<1>7. Phases'
  BY <1>1 DEF CoroutineTake, Phases, TypeOK
<1>8. QED
  BY <1>3, <1>4, <1>5, <1>6, <1>7

\* The invariant is preserved by
\* a handler that suspends itself in co_poll.
LEMMA HandlerPollsIInv ==
  ASSUME IInv, NEW co \in Coroutines, HandlerPolls(co)
  PROVE  IInv'
<1> USE DEF IInv
<1>1. pCallStack = <<Main, co>> /\ pc = "active" /\ pCallStack' = <<Main>>
  BY CurrentFacts, StackFacts DEF HandlerPolls, co_yield, Phases
<1>2. co \notin Range(cond) /\ co \notin Range(pstActiveList)
  BY DEF HandlerPolls, Lists
<1>3. TypeOK'
  BY <1>1, PoolAssumption DEF HandlerPolls, TypeOK, poolVars
<1>4. Stack'
  BY <1>1, StackFacts DEF HandlerPolls, Stack, TypeOK
<1>5. Lists' /\ FreeCountExact'
  BY <1>2 DEF HandlerPolls, Lists, FreeCountExact, TypeOK, poolVars
<1>6. Handlers'
  BY PoolAssumption DEF HandlerPolls, Handlers, TypeOK
<1>7. Phases'
  BY <1>1 DEF HandlerPolls, Phases, TypeOK, poolVars
<1>8. QED
  BY <1>3, <1>4, <1>5, <1>6, <1>7

\* The invariant is preserved by
\* a handler that returns to CoroutineFun.
LEMMA HandlerReturnsIInv ==
  ASSUME IInv, NEW co \in Coroutines, HandlerReturns(co)
  PROVE  IInv'
<1> USE DEF IInv
<1>1. pCallStack = <<Main, co>> /\ pc = "active"
  BY CurrentFacts DEF HandlerReturns, Phases
<1>2. TypeOK'
  BY PoolAssumption DEF HandlerReturns, TypeOK, poolVars, schedVars
<1>3. Stack'
  BY <1>1, StackFacts DEF HandlerReturns, Stack, TypeOK, schedVars
<1>4. Lists' /\ FreeCountExact'
  BY DEF HandlerReturns, Lists, FreeCountExact, TypeOK, poolVars, schedVars
<1>5. Handlers'
  BY PoolAssumption DEF HandlerReturns, Handlers, TypeOK
<1>6. Phases'
  BY <1>1 DEF HandlerReturns, Phases, TypeOK, poolVars, schedVars
<1>7. QED
  BY <1>2, <1>3, <1>4, <1>5, <1>6

-----------------------------------------------------------------------------
(* libco's event loop *)

\* The invariant is preserved by
\* co_eventloop collecting the raised and expired coroutines.
LEMMA EventloopWaitIInv ==
  ASSUME IInv, EventloopWait
  PROVE  IInv'
<1> USE DEF IInv
<1>1. PICK r \in Listings(Polling, co_num) : pstActiveList' = pstActiveList \o r
  BY DEF EventloopWait
<1>2. r \in Seq(Polling) /\ Range(r) \subseteq Polling /\ IsInjective(r)
  BY <1>1, ListingFacts, FreeFacts
<1>3. r \in Seq(Coroutines)
  BY <1>2, SeqMonotonic DEF Polling
<1>4. Range(r) \cap Range(pstActiveList) = {} /\ \A co \in Range(r) : at[co] = "poll"
  BY <1>2 DEF Polling
<1>5. /\ pstActiveList' \in Seq(Coroutines) /\ IsInjective(pstActiveList')
      /\ Range(pstActiveList') = Range(pstActiveList) \cup Range(r)
  BY <1>1, <1>2, <1>3, <1>4, ConcatList DEF TypeOK, Lists
<1>6. TypeOK'
  BY <1>5 DEF EventloopWait, TypeOK, poolVars, coVars
<1>7. Stack'
  BY DEF EventloopWait, Stack, coVars
<1>8. Lists'
  BY <1>2, <1>4, <1>5 DEF EventloopWait, Lists, poolVars, coVars, Polling
<1>9. Handlers' /\ FreeCountExact'
  BY DEF EventloopWait, Handlers, FreeCountExact, poolVars, coVars
<1>10. Phases'
  BY DEF EventloopWait, Phases, poolVars, coVars
<1>11. QED
  BY <1>6, <1>7, <1>8, <1>9, <1>10

\* The invariant is preserved by
\* co_eventloop resuming the head of the active list.
LEMMA EventloopResumeIInv ==
  ASSUME IInv, EventloopResume
  PROVE  IInv'
<1> USE DEF IInv
<1> DEFINE co == Head(pstActiveList)
<1>1. /\ pstActiveList' \in Seq(Coroutines) /\ co \in Coroutines
      /\ co \in Range(pstActiveList) /\ co \notin Range(pstActiveList')
      /\ Range(pstActiveList) = Range(pstActiveList') \cup {co}
      /\ IsInjective(pstActiveList')
  BY TailList DEF EventloopResume, TypeOK, Lists
<1>2. pCallStack' = <<Main, co>>
  BY <1>1, StackFacts DEF EventloopResume, co_resume
<1> HIDE DEF co
<1>3. at[co] \in {"wait", "poll"} /\ co \notin Range(cond)
  BY <1>1 DEF Lists
<1>4. at' = [at EXCEPT ![co] = IF at[co] = "poll" THEN "handle" ELSE "top"]
  BY DEF EventloopResume, co_resume, co
<1>5. TypeOK'
  BY <1>1, <1>2, <1>4 DEF EventloopResume, TypeOK, poolVars
<1>6. Stack'
  BY <1>1, <1>2, <1>3, <1>4, StackFacts DEF EventloopResume, Stack, TypeOK
<1>7. Lists' /\ FreeCountExact'
  BY <1>1, <1>3, <1>4 DEF EventloopResume, Lists, FreeCountExact, TypeOK, poolVars
<1>8. Handlers'
  BY <1>1, <1>3, <1>4 DEF EventloopResume, Handlers, TypeOK
<1>9. Phases'
  BY <1>1, <1>4 DEF EventloopResume, Phases, TypeOK, poolVars
<1>10. QED
  BY <1>5, <1>6, <1>7, <1>8, <1>9

\* The invariant is preserved by
\* CheckFinish, which ends co_eventloop when all coroutines are parked.
LEMMA CheckFinishIInv ==
  ASSUME IInv, CheckFinish
  PROVE  IInv'
<1> USE DEF IInv
<1>1. co_num > 0 /\ (free_co_num = co_num <=> Range(cond) = Coroutines)
  BY FreeFacts DEF CheckFinish, Phases
<1>2. TypeOK' /\ Stack' /\ Handlers'
  BY DEF CheckFinish, TypeOK, Stack, Handlers, poolVars, schedVars, coVars
<1>3. Lists' /\ FreeCountExact'
  BY DEF CheckFinish, Lists, FreeCountExact, poolVars, schedVars, coVars
<1>4. Phases'
  BY <1>1 DEF CheckFinish, Phases, poolVars, schedVars, coVars
<1>5. QED
  BY <1>2, <1>3, <1>4

-----------------------------------------------------------------------------
(* The thread's own stack *)

\* The invariant is preserved by
\* Start, which creates the coroutines and runs each until it parks.
LEMMA StartIInv ==
  ASSUME IInv, Start
  PROVE  IInv'
<1> USE DEF IInv
<1>1. CASE co_num > 0 /\ \E co \in Coroutines : at[co] = "created"
  <2>1. PICK co \in Coroutines : at[co] = "created" /\ co_resume(co) /\ UNCHANGED pc
    BY <1>1 DEF Start
  <2>2. /\ pCallStack' = <<Main, co>> /\ at' = [at EXCEPT ![co] = "top"]
        /\ pc = "start" /\ pc' = "start"
    BY <2>1, StackFacts DEF Start, co_resume
  <2>3. TypeOK'
    BY <2>2 DEF Start, TypeOK, poolVars
  <2>4. Stack'
    BY <2>1, <2>2, StackFacts DEF Start, Stack, TypeOK
  <2>5. Lists' /\ FreeCountExact'
    BY <2>1, <2>2 DEF Start, Lists, FreeCountExact, TypeOK, poolVars
  <2>6. Handlers'
    BY <2>1, <2>2 DEF Start, Handlers, TypeOK
  <2>7. Phases'
    BY <2>2 DEF Start, Phases, TypeOK, poolVars
  <2>8. QED
    BY <2>3, <2>4, <2>5, <2>6, <2>7
<1>2. CASE co_num > 0 /\ ~ \E co \in Coroutines : at[co] = "created"
  <2>1. /\ pc = "start" /\ pc' = "poll" /\ pCallStack = <<Main>>
        /\ UNCHANGED <<results, poolVars, task_size, schedVars, coVars, cEnableSysHook, co_num>>
    BY <1>2 DEF Start, schedVars, coVars
  <2>2. \A co \in Coroutines : at[co] = "wait"
    BY <1>2, <2>1, StackFacts DEF Phases, Stack
  <2>3. Range(cond) = Coroutines
    <3>1. Range(cond) \subseteq Coroutines
      BY DEF TypeOK, Range
    <3>2. Range(pstActiveList) = {}
      BY <2>1, EmptyList DEF Phases
    <3>3. QED
      BY <2>2, <3>1, <3>2 DEF Lists
  <2>4. TypeOK' /\ Stack' /\ Handlers'
    BY <2>1 DEF TypeOK, Stack, Handlers, poolVars, schedVars, coVars
  <2>5. Lists' /\ FreeCountExact'
    BY <2>1 DEF Lists, FreeCountExact, poolVars, schedVars, coVars
  <2>6. Phases'
    BY <2>1, <2>2, <2>3 DEF Phases, poolVars, schedVars, coVars
  <2>7. QED
    BY <2>4, <2>5, <2>6
<1>3. CASE ~ (co_num > 0)
  <2>1. /\ pc = "start" /\ pc' = "poll" /\ pCallStack = <<Main>>
        /\ UNCHANGED <<results, poolVars, task_size, schedVars, coVars, cEnableSysHook, co_num>>
    BY <1>3 DEF Start, schedVars, coVars
  <2>2. TypeOK' /\ Stack' /\ Handlers'
    BY <2>1 DEF TypeOK, Stack, Handlers, poolVars, schedVars, coVars
  <2>3. Lists' /\ FreeCountExact'
    BY <2>1 DEF Lists, FreeCountExact, poolVars, schedVars, coVars
  <2>4. Phases'
    BY <1>3, <2>1 DEF Phases, poolVars, schedVars, coVars
  <2>5. QED
    BY <2>2, <2>3, <2>4
<1>4. QED
  BY <1>1, <1>2, <1>3

\* The invariant is preserved by
\* Poll, which brings in a batch of channels.
LEMMA PollIInv ==
  ASSUME IInv, Poll
  PROVE  IInv'
<1> USE DEF IInv
<1>1. results' \in Seq(Channels)
  BY ListingFacts, PoolAssumption DEF Poll, Batches
<1>2. TypeOK' /\ Stack' /\ Handlers'
  BY <1>1 DEF Poll, TypeOK, Stack, Handlers, poolVars, schedVars, coVars
<1>3. Lists' /\ FreeCountExact'
  BY DEF Poll, Lists, FreeCountExact, poolVars, schedVars, coVars
<1>4. Phases'
  BY DEF Poll, Phases, poolVars, schedVars, coVars
<1>5. QED
  BY <1>2, <1>3, <1>4

\* The invariant is preserved by
\* PutTask, which queues the batch.
LEMMA PutTaskIInv ==
  ASSUME IInv, PutTask
  PROVE  IInv'
<1> USE DEF IInv
<1>1. task' \in Seq(Channels) /\ results' \in Seq(Channels)
  <2>1. task \in Seq(Channels) /\ results \in Seq(Channels)
    BY DEF TypeOK
  <2>2. CASE results # << >>
    <3>1. Head(results) \in Channels /\ Tail(results) \in Seq(Channels)
      BY <2>1, <2>2
    <3>2. Append(task, Head(results)) \in Seq(Channels)
      BY <2>1, <3>1
    <3>3. QED
      BY <2>2, <3>1, <3>2 DEF PutTask
  <2>3. CASE results = << >>
    BY <2>1, <2>3 DEF PutTask
  <2>4. QED
    BY <2>2, <2>3
<1>2. TypeOK' /\ Stack' /\ Handlers'
  BY <1>1 DEF PutTask, TypeOK, Stack, Handlers, schedVars, coVars
<1>3. Lists' /\ FreeCountExact'
  BY DEF PutTask, Lists, FreeCountExact, schedVars, coVars
<1>4. Phases'
  BY DEF PutTask, Phases, schedVars, coVars
<1>5. QED
  BY <1>2, <1>3, <1>4

\* The invariant is preserved by
\* the entry of Run, which counts the tasks.
LEMMA RunEnterIInv ==
  ASSUME IInv, RunEnter
  PROVE  IInv'
<1> USE DEF IInv
<1>1. Current = Main
  BY MainFacts DEF RunEnter, Stack, Current
<1>2. task_size' \in Nat /\ (task # << >> => task_size' > 0)
  BY EmptySeq DEF RunEnter, TypeOK
<1>3. TypeOK' /\ Stack' /\ Handlers'
  BY <1>1, <1>2 DEF RunEnter, TypeOK, Stack, Handlers, poolVars, schedVars, coVars
<1>4. Lists' /\ FreeCountExact'
  BY DEF RunEnter, Lists, FreeCountExact, poolVars, schedVars, coVars
<1>5. Phases'
  BY <1>2 DEF RunEnter, Phases, poolVars, schedVars, coVars
<1>6. QED
  BY <1>3, <1>4, <1>5

\* The invariant is preserved by
\* a test of Run's outer loop.
LEMMA RunOuterIInv ==
  ASSUME IInv, RunOuter
  PROVE  IInv'
<1> USE DEF IInv
<1>1. Current = Main
  BY MainFacts DEF RunOuter, Stack, Current
<1>2. TypeOK' /\ Stack' /\ Handlers'
  BY <1>1 DEF RunOuter, TypeOK, Stack, Handlers, poolVars, schedVars, coVars
<1>3. Lists' /\ FreeCountExact'
  BY DEF RunOuter, Lists, FreeCountExact, poolVars, schedVars, coVars
<1>4. Phases'
  BY DEF RunOuter, Phases, TypeOK, poolVars, schedVars, coVars
<1>5. QED
  BY <1>2, <1>3, <1>4

\* The invariant is preserved by
\* a turn of Run's inner loop, which signals one parked coroutine.
LEMMA RunSignalIInv ==
  ASSUME IInv, RunSignal
  PROVE  IInv'
<1> USE DEF IInv
<1> DEFINE co == Head(cond)
<1>1. cond # << >> /\ free_co_num \in Nat
  BY FreeFacts DEF RunSignal, TypeOK
<1>2. cond' = Tail(cond) /\ pstActiveList' = Append(pstActiveList, co)
  BY <1>1 DEF RunSignal, co_cond_signal
<1>3. /\ cond' \in Seq(Coroutines) /\ Len(cond') = Len(cond) - 1
      /\ co \in Coroutines /\ co \in Range(cond) /\ co \notin Range(cond')
      /\ Range(cond) = Range(cond') \cup {co} /\ IsInjective(cond')
  BY <1>1, <1>2, TailList DEF TypeOK, Lists
<1> HIDE DEF co
<1>4. co \notin Range(pstActiveList)
  BY <1>3 DEF Lists
<1>5. /\ pstActiveList' \in Seq(Coroutines) /\ IsInjective(pstActiveList')
      /\ Range(pstActiveList') = Range(pstActiveList) \cup {co}
  BY <1>2, <1>3, <1>4, AppendList DEF TypeOK, Lists
<1>6. TypeOK'
  BY <1>3, <1>5 DEF RunSignal, TypeOK, coVars
<1>7. Stack' /\ Handlers'
  BY DEF RunSignal, Stack, Handlers, coVars
<1>8. Lists'
  BY <1>3, <1>4, <1>5 DEF RunSignal, Lists, coVars
<1>9. FreeCountExact'
  BY <1>1, <1>3 DEF RunSignal, FreeCountExact
<1>10. Phases'
  BY <1>3 DEF RunSignal, Phases, coVars
<1>11. QED
  BY <1>6, <1>7, <1>8, <1>9, <1>10

\* The invariant is preserved by
\* the end of Run's inner loop.
LEMMA RunInnerDoneIInv ==
  ASSUME IInv, RunInnerDone
  PROVE  IInv'
<1> USE DEF IInv
<1>1. /\ co_num \in Nat /\ co_num > 0 /\ free_co_num \in Nat /\ free_co_num <= co_num
      /\ free_co_num = co_num <=> Range(cond) = Coroutines
  BY FreeFacts DEF TypeOK, RunInnerDone, Phases
<1>2. TypeOK' /\ Stack' /\ Handlers'
  BY DEF RunInnerDone, TypeOK, Stack, Handlers, poolVars, schedVars, coVars
<1>3. Lists' /\ FreeCountExact'
  BY DEF RunInnerDone, Lists, FreeCountExact, poolVars, schedVars, coVars
<1>4. Phases'
  BY <1>1 DEF RunInnerDone, Phases, poolVars, schedVars, coVars
<1>5. QED
  BY <1>2, <1>3, <1>4

\* The invariant is preserved by
\* the loop without coroutines, which calls handle_event itself.
LEMMA DirectIInv ==
  ASSUME IInv, DirectBegin \/ DirectReturn
  PROVE  IInv'
<1> USE DEF IInv
<1>1. CASE DirectBegin /\ results # << >>
  <2>1. results' \in Seq(Channels) /\ Head(results) \in Channels
    <3>1. results \in Seq(Channels)
      BY DEF TypeOK
    <3>2. Head(results) \in Channels /\ Tail(results) \in Seq(Channels)
      BY <1>1, <3>1
    <3>3. QED
      BY <1>1, <3>2 DEF DirectBegin
  <2>2. TypeOK' /\ Stack' /\ Handlers'
    BY <1>1, <2>1, PoolAssumption
    DEF DirectBegin, TypeOK, Stack, Handlers, poolVars, schedVars
  <2>3. Lists' /\ FreeCountExact' /\ Phases'
    BY <1>1 DEF DirectBegin, Lists, FreeCountExact, Phases, poolVars, schedVars
  <2>4. QED
    BY <2>2, <2>3
<1>2. CASE DirectBegin /\ results = << >>
  <2>1. TypeOK' /\ Stack' /\ Handlers'
    BY <1>2 DEF DirectBegin, TypeOK, Stack, Handlers, poolVars, schedVars
  <2>2. Lists' /\ FreeCountExact' /\ Phases'
    BY <1>2 DEF DirectBegin, Lists, FreeCountExact, Phases, poolVars, schedVars
  <2>3. QED
    BY <2>1, <2>2
<1>3. CASE DirectReturn
  <2>1. TypeOK' /\ Stack' /\ Handlers'
    BY <1>3, PoolAssumption DEF DirectReturn, TypeOK, Stack, Handlers, poolVars, schedVars
  <2>2. Lists' /\ FreeCountExact' /\ Phases'
    BY <1>3 DEF DirectReturn, Lists, FreeCountExact, Phases, poolVars, schedVars
  <2>3. QED
    BY <2>1, <2>2
<1>4. QED
  BY <1>1, <1>2, <1>3

-----------------------------------------------------------------------------

\* Every step of the loop thread preserves the invariant.
LEMMA NextIInv == IInv /\ [Next]_vars => IInv'
<1> SUFFICES ASSUME IInv, [Next]_vars PROVE IInv'
  OBVIOUS
<1>1. CASE Poll
  BY <1>1, PollIInv
<1>2. CASE MainStep
  BY <1>2, StartIInv, PutTaskIInv, RunEnterIInv, RunOuterIInv, RunSignalIInv,
     RunInnerDoneIInv, EventloopWaitIInv, EventloopResumeIInv, CheckFinishIInv,
     DirectIInv DEF MainStep
<1>3. CASE CoroutineStep
  BY <1>3, CoroutineWaitIInv, CoroutineTakeIInv, HandlerPollsIInv, HandlerReturnsIInv
  DEF CoroutineStep
<1>4. CASE UNCHANGED vars
  <2> USE <1>4 DEF IInv, vars, poolVars, schedVars, coVars
  <2>1. TypeOK' /\ Stack' /\ Handlers'
    BY DEF TypeOK, Stack, Handlers
  <2>2. Lists' /\ FreeCountExact' /\ Phases'
    BY DEF Lists, FreeCountExact, Phases
  <2>3. QED
    BY <2>1, <2>2
<1>5. QED
  BY <1>1, <1>2, <1>3, <1>4 DEF Next

\* Every variable of the pool and of libco's scheduler keeps its type: in
\* particular free_co_num and task_size never go below zero.
THEOREM TypeCorrect == Spec => []TypeOK
<1>1. IInv => TypeOK
  BY DEF IInv
<1>2. QED
  BY <1>1, InitIInv, NextIInv, PTL DEF Spec

\* free_co_num is the number of coroutines parked in co_cond_timedwait.
THEOREM FreeCountCorrect == Spec => []FreeCountExact
<1>1. IInv => FreeCountExact
  BY DEF IInv
<1>2. QED
  BY <1>1, InitIInv, NextIInv, PTL DEF Spec

\* What the invariant says about the moment the loop polls.
LEMMA BarrierHolds == IInv => RunBarrier
<1> SUFFICES ASSUME IInv, pc = "poll"
             PROVE  /\ task = << >> /\ results = << >>
                    /\ co_num > 0 => Range(cond) = Coroutines
                    /\ \A s \in Coroutines \cup {Main} : channel[s] = NoChannel
  BY DEF RunBarrier
<1>1. task = << >> /\ results = << >> /\ (co_num > 0 => Range(cond) = Coroutines)
  BY DEF IInv, Phases
<1>2. \A co \in Coroutines : channel[co] = NoChannel
  BY <1>1, FreeFacts DEF IInv, Lists, Handlers, Phases
<1>3. channel[Main] = NoChannel
  BY DEF IInv, Handlers
<1>4. QED
  BY <1>1, <1>2, <1>3

\* Run leaves no task and no running handler behind: when the loop polls again
\* the queue is empty, every coroutine is parked and no handler is running.
THEOREM BarrierCorrect == Spec => []RunBarrier
BY BarrierHolds, InitIInv, NextIInv, PTL DEF Spec

\* Where a coroutine is says which one of the lists it is in.
LEMMA WhereIsOnePlace ==
  ASSUME IInv, NEW co \in Coroutines
  PROVE  \E p \in {"cond", "active", "poll", "stack", "created"} : Places(co) = {p}
<1> USE DEF IInv
<1>1. co \in Range(pCallStack) <=> at[co] \in {"top", "handle"}
  <2>1. Range(<<Main>>) = {Main}
    BY DEF Range
  <2>2. \A d \in Coroutines : Range(<<Main, d>>) = {Main, d}
    BY DEF Range
  <2>3. co # Main
    BY PoolAssumption
  <2>4. co \in Range(pCallStack) <=> pCallStack = <<Main, co>>
    BY <2>1, <2>2, <2>3 DEF Stack
  <2>5. QED
    BY <2>4 DEF Stack
<1>2. at[co] \in {"created", "top", "wait", "handle", "poll"}
  BY DEF TypeOK
<1>3. CASE at[co] = "created"
  <2>1. Places(co) = {"created"}
    BY <1>1, <1>3 DEF Places, Polling, Lists
  <2>2. QED
    BY <2>1
<1>4. CASE at[co] \in {"top", "handle"}
  <2>1. Places(co) = {"stack"}
    BY <1>1, <1>4 DEF Places, Polling, Lists
  <2>2. QED
    BY <2>1
<1>5. CASE at[co] \in {"wait", "poll"} /\ co \in Range(pstActiveList)
  <2>1. Places(co) = {"active"}
    BY <1>1, <1>5 DEF Places, Polling, Lists
  <2>2. QED
    BY <2>1
<1>6. CASE at[co] = "wait" /\ co \notin Range(pstActiveList)
  <2>1. Places(co) = {"cond"}
    BY <1>1, <1>6 DEF Places, Polling, Lists
  <2>2. QED
    BY <2>1
<1>7. CASE at[co] = "poll" /\ co \notin Range(pstActiveList)
  <2>1. Places(co) = {"poll"}
    BY <1>1, <1>7 DEF Places, Polling, Lists
  <2>2. QED
    BY <2>1
<1>8. QED
  BY <1>2, <1>3, <1>4, <1>5, <1>6, <1>7

\* A coroutine is parked, runnable, polling, running or not yet started, one of
\* them at a time and in its list once; co_resume never nests pool coroutines.
THEOREM OnePlaceCorrect == Spec => []OnePlace
<1>1. IInv => OnePlace
  <2> SUFFICES ASSUME IInv PROVE OnePlace
    OBVIOUS
  <2>1. \A co \in Coroutines : Cardinality(Places(co)) = 1
    BY WhereIsOnePlace, FS_Singleton
  <2>2. IsInjective(cond) /\ IsInjective(pstActiveList)
    BY DEF IInv, Lists
  <2>3. Len(pCallStack) <= 2
    <3>1. Len(<<Main>>) = 1 /\ \A co \in Coroutines : Len(<<Main, co>>) = 2
      OBVIOUS
    <3>2. CASE pCallStack = <<Main>>
      BY <3>1, <3>2
    <3>3. CASE \E co \in Coroutines : pCallStack = <<Main, co>>
      <4>1. Len(pCallStack) = 2
        BY <3>1, <3>3
      <4>2. QED
        BY <4>1
    <3>4. QED
      BY <3>2, <3>3 DEF IInv, Stack
  <2>4. QED
    BY <2>1, <2>2, <2>3 DEF OnePlace
<1>2. QED
  BY <1>1, InitIInv, NextIInv, PTL DEF Spec

-----------------------------------------------------------------------------
(* The event loop with its coroutine pool implements EventBatch.           *)
(*                                                                         *)
(* A channel's status is read off the queue, the batch not yet queued and  *)
(* the handlers, so the mapping is right only while a channel is in one of *)
(* them at a time (Distinct).  That it stays so across batches is what the *)
(* barrier is needed for: Poll may report a channel again.                 *)

Stacks == Coroutines \cup {Main}

\* A channel is waiting in one place, or being handled by one stack.
Distinct ==
  /\ IsInjective(task)
  /\ IsInjective(results)
  /\ Range(task) \cap Range(results) = {}
  /\ \A s \in Stacks : channel[s] \notin Range(task) \cup Range(results)
  /\ \A s, u \in Stacks : channel[s] = channel[u] /\ channel[s] # NoChannel => s = u

\* The channels waiting to be handled, and the ones being handled.
Waiting == Range(task) \cup Range(results)
Handled == {channel[s] : s \in Stacks} \ {NoChannel}

-----------------------------------------------------------------------------

\* What the types say about the queue, the batch and the handlers.
LEMMA ChannelTypes ==
  ASSUME IInv
  PROVE  /\ task \in Seq(Channels) /\ results \in Seq(Channels)
         /\ Range(task) \subseteq Channels /\ Range(results) \subseteq Channels
         /\ channel \in [Stacks -> Channels \cup {NoChannel}]
         /\ NoChannel \notin Channels
<1>1. /\ task \in Seq(Channels) /\ results \in Seq(Channels)
      /\ channel \in [Stacks -> Channels \cup {NoChannel}]
  BY DEF IInv, TypeOK, Stacks
<1>2. Range(task) \subseteq Channels /\ Range(results) \subseteq Channels
  BY <1>1 DEF Range
<1>3. QED
  BY <1>1, <1>2, PoolAssumption

\* The status of a channel in terms of the two sets.
StatusOf(handled, waiting) ==
  [ch \in Channels |-> IF ch \in handled THEN "handling"
                       ELSE IF ch \in waiting THEN "queued"
                       ELSE "idle"]

\* The mapping in terms of the two sets, before and after a step.
LEMMA StatusFacts ==
  /\ batchStatus = StatusOf(Handled, Waiting)
  /\ batchStatus' = StatusOf(Handled', Waiting')
<1>1. /\ \A ch \in Channels :
           (\E s \in Coroutines \cup {Main} : channel[s] = ch) <=> ch \in Handled
      /\ \A ch \in Channels :
           (\E s \in Coroutines \cup {Main} : channel'[s] = ch) <=> ch \in Handled'
  BY PoolAssumption DEF Handled, Stacks
<1>2. QED
  BY <1>1 DEF batchStatus, Waiting, StatusOf

\* When the loop polls, nothing is waiting and nothing is being handled.
LEMMA PollFacts ==
  ASSUME IInv, pc = "poll"
  PROVE  /\ task = << >> /\ results = << >>
         /\ \A s \in Stacks : channel[s] = NoChannel
         /\ Waiting = {} /\ Handled = {}
<1>1. task = << >> /\ results = << >> /\ \A s \in Stacks : channel[s] = NoChannel
  BY BarrierHolds DEF RunBarrier, Stacks
<1>2. QED
  BY <1>1, EmptyList DEF Waiting, Handled

\* The only steps that touch the queue, the batch or the handlers.
LEMMA OtherSteps ==
  ASSUME [Next]_vars
  PROVE  \/ Poll \/ PutTask \/ DirectBegin \/ DirectReturn
         \/ \E co \in Coroutines : CoroutineTake(co) \/ HandlerReturns(co)
         \/ UNCHANGED <<task, results, channel>>
<1>1. CASE MainStep
  BY <1>1 DEF MainStep, Start, RunEnter, RunOuter, RunSignal, RunInnerDone,
     EventloopWait, EventloopResume, CheckFinish, poolVars, coVars
<1>2. CASE CoroutineStep
  BY <1>2 DEF CoroutineStep, CoroutineWait, HandlerPolls, poolVars
<1>3. CASE UNCHANGED vars
  BY <1>3 DEF vars, poolVars, coVars
<1>4. QED
  BY <1>1, <1>2, <1>3 DEF Next

-----------------------------------------------------------------------------

\* A step that hands the first waiting channel to a stack that has none.
LEMMA BeginStep ==
  ASSUME IInv, IInv', Distinct, NEW s \in Stacks, NEW ch \in Waiting,
         channel[s] = NoChannel,
         channel' = [channel EXCEPT ![s] = ch],
         Waiting' = Waiting \ {ch}
  PROVE  /\ Batch!Begin(ch) /\ ch \in Channels
         /\ \A u \in Stacks : channel'[u] \notin Waiting'
         /\ \A u, w \in Stacks :
              channel'[u] = channel'[w] /\ channel'[u] # NoChannel => u = w
<1>1. ch \in Channels /\ ch \notin Handled /\ ch # NoChannel
  BY ChannelTypes DEF Waiting, Handled, Distinct
<1>2. Handled' = Handled \cup {ch}
  <2>1. \A u \in Stacks : channel'[u] = IF u = s THEN ch ELSE channel[u]
    BY ChannelTypes
  <2>2. QED
    BY <1>1, <2>1 DEF Handled, Stacks
<1>3. Batch!Begin(ch)
  <2>1. batchStatus[ch] = "queued"
    BY <1>1, StatusFacts DEF StatusOf
  <2>2. batchStatus' = [batchStatus EXCEPT ![ch] = "handling"]
    BY <1>1, <1>2, StatusFacts DEF StatusOf
  <2>3. QED
    BY <2>1, <2>2 DEF Batch!Begin
<1>4. \A u \in Stacks : channel'[u] = IF u = s THEN ch ELSE channel[u]
  BY ChannelTypes
<1>5. \A u \in Stacks : channel[u] \notin Waiting
  BY DEF Distinct, Waiting
<1>6. \A u \in Stacks : channel'[u] \notin Waiting'
  BY <1>4, <1>5
<1>7. ASSUME NEW u \in Stacks, NEW w \in Stacks, channel'[u] = channel'[w],
             channel'[u] # NoChannel
      PROVE  u = w
  BY <1>4, <1>5, <1>7 DEF Distinct
<1>8. QED
  BY <1>1, <1>3, <1>6, <1>7

\* A step that ends the handler of a stack.
LEMMA FinishStep ==
  ASSUME IInv, IInv', Distinct, NEW s \in Stacks, channel[s] # NoChannel,
         channel' = [channel EXCEPT ![s] = NoChannel],
         UNCHANGED <<task, results>>
  PROVE  Batch!Finish(channel[s]) /\ channel[s] \in Channels /\ Distinct'
<1> DEFINE ch == channel[s]
<1>1. ch \in Channels /\ ch \in Handled /\ ch \notin Waiting
  BY ChannelTypes DEF Waiting, Handled, Distinct
<1>2. \A u \in Stacks : channel'[u] = IF u = s THEN NoChannel ELSE channel[u]
  BY ChannelTypes
<1>3. Waiting' = Waiting
  BY DEF Waiting
<1>4. Handled' = Handled \ {ch}
  BY <1>1, <1>2 DEF Handled, Distinct, Stacks
<1>5. Batch!Finish(ch)
  <2>1. batchStatus[ch] = "handling"
    BY <1>1, StatusFacts DEF StatusOf
  <2>2. batchStatus' = [batchStatus EXCEPT ![ch] = "idle"]
    BY <1>1, <1>3, <1>4, StatusFacts DEF StatusOf
  <2>3. QED
    BY <2>1, <2>2 DEF Batch!Finish
<1>6. Distinct'
  BY <1>2, ChannelTypes DEF Distinct, Stacks
<1>7. QED
  BY <1>1, <1>5, <1>6

-----------------------------------------------------------------------------

\* The start of Poll's batch: every channel in it becomes queued.
LEMMA PollStep ==
  ASSUME IInv, Poll
  PROVE  Batch!Deliver(Range(results')) /\ Range(results') \subseteq Channels /\ Distinct'
<1>1. results' \in Seq(Channels) /\ Range(results') \subseteq Channels /\ IsInjective(results')
  BY ListingFacts, PoolAssumption DEF Poll, Batches
<1>2. /\ task = << >> /\ \A s \in Stacks : channel[s] = NoChannel
      /\ Waiting = {} /\ Handled = {}
  BY PollFacts DEF Poll
<1>3. task' = task /\ channel' = channel
  BY DEF Poll, poolVars, coVars
<1>4. Waiting' = Range(results') /\ Handled' = {}
  BY <1>2, <1>3, EmptyList DEF Waiting, Handled
<1>5. Batch!Deliver(Range(results'))
  BY <1>2, <1>4, StatusFacts DEF Batch!Deliver, StatusOf
<1>6. Distinct'
  BY <1>1, <1>2, <1>3, EmptyList, PoolAssumption DEF Distinct
<1>7. QED
  BY <1>1, <1>5, <1>6

\* PutTask moves a channel from the batch to the queue: it stays queued.
LEMMA PutTaskStep ==
  ASSUME IInv, Distinct, PutTask
  PROVE  UNCHANGED batchStatus /\ Distinct'
<1>1. CASE results = << >>
  <2>1. task' = task /\ results' = results /\ channel' = channel
    BY <1>1 DEF PutTask, coVars
  <2>2. QED
    BY <2>1, StatusFacts DEF Distinct, Waiting, Handled
<1>2. CASE results # << >>
  <2> DEFINE ch == Head(results)
  <2>1. task' = Append(task, ch) /\ results' = Tail(results) /\ channel' = channel
    BY <1>2 DEF PutTask, coVars
  <2>2. /\ ch \in Channels /\ Range(results) = Range(results') \cup {ch}
        /\ ch \notin Range(results') /\ IsInjective(results')
    BY <1>2, <2>1, ChannelTypes, TailList DEF Distinct
  <2> HIDE DEF ch
  <2>3. ch \notin Range(task)
    BY <2>2 DEF Distinct
  <2>4. Range(task') = Range(task) \cup {ch} /\ IsInjective(task')
    BY <2>1, <2>2, <2>3, ChannelTypes, AppendList DEF Distinct
  <2>5. Distinct'
    BY <2>1, <2>2, <2>3, <2>4 DEF Distinct
  <2>6. Waiting' = Waiting /\ Handled' = Handled
    BY <2>1, <2>2, <2>4 DEF Waiting, Handled
  <2>7. QED
    BY <2>5, <2>6, StatusFacts
<1>3. QED
  BY <1>1, <1>2

\* A coroutine takes the first task: its channel's handler begins.
LEMMA TakeStep ==
  ASSUME IInv, IInv', Distinct, NEW co \in Coroutines, CoroutineTake(co)
  PROVE  Batch!Begin(Head(task)) /\ Head(task) \in Channels /\ Distinct'
<1> DEFINE ch == Head(task)
<1>1. /\ task' = Tail(task) /\ results' = results /\ task # << >>
      /\ channel' = [channel EXCEPT ![co] = ch]
  BY DEF CoroutineTake
<1>2. /\ ch \in Range(task) /\ Range(task) = Range(task') \cup {ch}
      /\ ch \notin Range(task') /\ IsInjective(task')
  BY <1>1, ChannelTypes, TailList DEF Distinct
<1>3. channel[co] = NoChannel
  BY DEF CoroutineTake, IInv, Handlers
<1> HIDE DEF ch
<1>4. ch \in Waiting /\ Waiting' = Waiting \ {ch}
  BY <1>1, <1>2 DEF Waiting, Distinct
<1>5. /\ Batch!Begin(ch) /\ ch \in Channels
      /\ \A u \in Stacks : channel'[u] \notin Waiting'
      /\ \A u, w \in Stacks : channel'[u] = channel'[w] /\ channel'[u] # NoChannel => u = w
  BY <1>1, <1>3, <1>4, BeginStep DEF Stacks
<1>6. Distinct'
  BY <1>1, <1>2, <1>5 DEF Distinct, Waiting
<1>7. QED
  BY <1>5, <1>6 DEF ch

\* The loop without coroutines calls the handler of the first channel itself.
LEMMA DirectStep ==
  ASSUME IInv, IInv', Distinct, DirectBegin, results # << >>
  PROVE  Batch!Begin(Head(results)) /\ Head(results) \in Channels /\ Distinct'
<1> DEFINE ch == Head(results)
<1>1. /\ results' = Tail(results) /\ task' = task /\ channel[Main] = NoChannel
      /\ channel' = [channel EXCEPT ![Main] = ch]
  BY DEF DirectBegin, poolVars
<1>2. /\ ch \in Range(results) /\ Range(results) = Range(results') \cup {ch}
      /\ ch \notin Range(results') /\ IsInjective(results')
  BY <1>1, ChannelTypes, TailList DEF Distinct
<1> HIDE DEF ch
<1>3. ch \in Waiting /\ Waiting' = Waiting \ {ch}
  BY <1>1, <1>2 DEF Waiting, Distinct
<1>4. /\ Batch!Begin(ch) /\ ch \in Channels
      /\ \A u \in Stacks : channel'[u] \notin Waiting'
      /\ \A u, w \in Stacks : channel'[u] = channel'[w] /\ channel'[u] # NoChannel => u = w
  BY <1>1, <1>3, BeginStep DEF Stacks
<1>5. Distinct'
  BY <1>1, <1>2, <1>4 DEF Distinct, Waiting
<1>6. QED
  BY <1>4, <1>5 DEF ch

\* Every step of the loop is a step of EventBatch or leaves it as it is, and
\* keeps the channels apart.
LEMMA NextBatch ==
  ASSUME IInv, IInv', Distinct, [Next]_vars
  PROVE  Distinct' /\ [Batch!Next]_batchStatus
<1>1. CASE Poll
  BY <1>1, PollStep DEF Batch!Next
<1>2. CASE PutTask
  BY <1>2, PutTaskStep
<1>3. CASE \E co \in Coroutines : CoroutineTake(co)
  BY <1>3, TakeStep DEF Batch!Next
<1>4. CASE \E co \in Coroutines : HandlerReturns(co)
  <2>1. PICK co \in Coroutines : HandlerReturns(co)
    BY <1>4
  <2>2. /\ channel[co] # NoChannel /\ channel' = [channel EXCEPT ![co] = NoChannel]
        /\ UNCHANGED <<task, results>>
    BY <2>1 DEF HandlerReturns, poolVars, IInv, Handlers
  <2>3. Batch!Finish(channel[co]) /\ channel[co] \in Channels /\ Distinct'
    BY <2>2, FinishStep DEF Stacks
  <2>4. QED
    BY <2>3 DEF Batch!Next
<1>5. CASE DirectBegin /\ results # << >>
  BY <1>5, DirectStep DEF Batch!Next
<1>6. CASE DirectReturn
  <2>1. /\ channel[Main] # NoChannel /\ channel' = [channel EXCEPT ![Main] = NoChannel]
        /\ UNCHANGED <<task, results>>
    BY <1>6 DEF DirectReturn, poolVars
  <2>2. Batch!Finish(channel[Main]) /\ channel[Main] \in Channels /\ Distinct'
    BY <2>1, FinishStep DEF Stacks
  <2>3. QED
    BY <2>2 DEF Batch!Next
<1>7. CASE UNCHANGED <<task, results, channel>>
  <2>1. Distinct'
    BY <1>7 DEF Distinct
  <2>2. batchStatus' = batchStatus
    BY <1>7 DEF batchStatus
  <2>3. QED
    BY <2>1, <2>2
<1>8. DirectBegin /\ results = << >> => UNCHANGED <<task, results, channel>>
  BY DEF DirectBegin, poolVars
<1>9. QED
  BY <1>1, <1>2, <1>3, <1>4, <1>5, <1>6, <1>7, <1>8, OtherSteps

\* The event loop with its coroutine pool implements EventBatch: every channel
\* that Poll reports is handled once, by one coroutine, before the next Poll.
THEOREM EventBatchCorrect == Spec => ImplementsEventBatch
<1>1. Init => Distinct
  BY EmptyList DEF Init, Distinct, Stacks
<1>2. Init => Batch!Init
  BY EmptyList, PoolAssumption DEF Init, Batch!Init, batchStatus
<1>3. IInv /\ IInv' /\ Distinct /\ [Next]_vars => Distinct' /\ [Batch!Next]_batchStatus
  BY NextBatch
<1>4. QED
  BY <1>1, <1>2, <1>3, InitIInv, NextIInv, PTL
  DEF Spec, ImplementsEventBatch, Batch!Spec, Batch!vars

=============================================================================

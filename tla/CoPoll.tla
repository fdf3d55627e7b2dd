------------------------------- MODULE CoPoll -------------------------------
(***************************************************************************)
(* libco's event loop (libco/co_routine.cpp): co_poll_inner, the timeout   *)
(* wheel, condition variables and co_eventloop, on the switching of        *)
(* CoSwap.  Coroutines run any sequence of libco calls; descriptors become *)
(* ready and time passes while they do.                                    *)
(*                                                                         *)
(* Time is kept relative to stTimeout_t::ullStart: lag is now - ullStart,  *)
(* due[co] is ullExpireTime - ullStart of the item co waits with.  A       *)
(* coroutine waits with one item at a time, so items are named by their    *)
(* coroutines.                                                             *)
(***************************************************************************)
EXTENDS CoSwap

CONSTANTS
  Fds,           \* descriptors that can be polled
  Dangling,      \* a registration whose stPollItem_t has been freed
  iItemSize,     \* slots of the wheel (60 * 1000)
  eMaxTimeout,   \* longest poll (40 * 1000)
  PollArgs,      \* the <<co, fds, timeout>> of the calls of co_poll_inner
  Waits,         \* the <<co, ms>> of the calls of co_cond_timedwait
  MaxLag,        \* bound: furthest the clock gets ahead of ullStart
  MaxBack        \* bound: furthest the clock is set back behind ullStart

ASSUME PollAssumption ==
  /\ iItemSize \in Nat \ {0} /\ eMaxTimeout \in Nat /\ MaxLag \in Nat /\ MaxBack \in Nat
  /\ Waits \subseteq Coroutines \X Int
  /\ PollArgs \subseteq Coroutines \X (SUBSET Fds) \X Int
  /\ Dangling \notin Coroutines \cup {NoCo}

VARIABLES
  loop,          \* where the thread's own stack is
  lag,           \* GetTickMS() - ullStart
  llStartIdx,    \* stTimeout_t::llStartIdx, modulo iItemSize
  pItems,        \* stTimeout_t::pItems
  pstActiveList, \* stCoEpoll_t::pstActiveList
  due,           \* ullExpireTime of the item a coroutine waits with
  cond,          \* a stCoCond_t
  fds,           \* the descriptors a coroutine polls
  arr,           \* co_poll_inner's stPollItem_t are on the coroutine's stack
  revents,       \* the descriptors OnPollPreparePfn has raised
  epoll,         \* the interest list: whose item a descriptor is registered with
  spoilt,        \* descriptors polled twice at once or left registered
  corrupt        \* the loop has followed a dangling registration

wheelVars == <<lag, llStartIdx, pItems, pstActiveList, due>>
pollVars == <<fds, arr, revents, epoll, spoilt>>
vars == <<pc, swapVars, loop, wheelVars, cond, pollVars, corrupt>>

Slots == 0 .. iItemSize - 1

TypeOK ==
  /\ SwapTypeOK
  /\ loop \in {"user", "active"}
  /\ lag \in -MaxBack .. MaxLag
  /\ llStartIdx \in Slots
  /\ pItems \in [Slots -> Seq(Coroutines)]
  /\ pstActiveList \in Seq(Coroutines)
  /\ due \in [Coroutines -> Int]
  /\ cond \in Seq(Coroutines)
  /\ fds \in [Coroutines -> SUBSET Fds]
  /\ arr \in [Coroutines -> BOOLEAN]
  /\ revents \in [Coroutines -> SUBSET Fds]
  /\ epoll \in [Fds -> Coroutines \cup {NoCo, Dangling}]
  /\ spoilt \subseteq Fds
  /\ corrupt \in BOOLEAN

\* AllocEpoll, AllocTimeout.
Init ==
  /\ SwapInit
  /\ loop = "user"
  /\ lag = 0 /\ llStartIdx = 0
  /\ pItems = [i \in Slots |-> << >>]
  /\ pstActiveList = << >>
  /\ due = [co \in Coroutines |-> 0]
  /\ cond = << >>
  /\ fds = [co \in Coroutines |-> {}]
  /\ arr = [co \in Coroutines |-> FALSE]
  /\ revents = [co \in Coroutines |-> {}]
  /\ epoll = [fd \in Fds |-> NoCo]
  /\ spoilt = {}
  /\ corrupt = FALSE

\* RemoveFromLink, for items that may be in the list.
Without(list, S) ==
  LET left[n \in 0 .. Len(list)] ==
        IF n = 0 THEN << >>
        ELSE IF list[n] \in S THEN left[n - 1] ELSE Append(left[n - 1], list[n])
  IN  left[Len(list)]

-----------------------------------------------------------------------------
(* Calls a coroutine makes while it runs *)

Runs(co) == ~ corrupt /\ Current = co /\ (co = Main => loop = "user")

\* AddTimeout refuses an item when the clock is behind ullStart, when it has
\* expired before it is added, and when the wheel does not reach that far.
AddTimeoutOK(timeout) ==
  /\ lag >= 0
  /\ timeout >= 0
  /\ lag + timeout < iItemSize

AddTimeout_NoLag(co, timeout) ==
  /\ due' = [due EXCEPT ![co] = lag + timeout]
  /\ pItems' = [pItems EXCEPT ![(llStartIdx + timeout) % iItemSize] = Append(@, co)]
AddTimeout_ZeroIsNever(co, timeout) ==
  /\ due' = [due EXCEPT ![co] = lag + timeout]
  /\ pItems' = IF timeout = 0 THEN pItems ELSE
       [pItems EXCEPT ![(llStartIdx + lag + timeout) % iItemSize] = Append(@, co)]
\* The item goes to the slot of its expiry time, counted from ullStart.
AddTimeout(co, timeout) ==
  /\ due' = [due EXCEPT ![co] = lag + timeout]
  /\ pItems' = [pItems EXCEPT ![(llStartIdx + lag + timeout) % iItemSize] = Append(@, co)]

OnStack_AnyStack(co, F) == Cardinality(F) < 2
\* Whether co_poll_inner keeps its stPollItem_t in the local array.
OnStack(co, F) == Cardinality(F) < 2 /\ co \notin Shared

\* co_poll_inner up to co_yield_env.  EPOLL_CTL_ADD fails for a descriptor that
\* is registered already.  When AddTimeout fails, the call returns at once: its
\* items are freed, its descriptors stay registered.
co_poll_inner(co, F, t) ==
  LET timeout == IF t > eMaxTimeout THEN eMaxTimeout ELSE t
      added   == {fd \in F : epoll[fd] = NoCo}
  IN  /\ Runs(co)
      /\ IF AddTimeoutOK(timeout)
         THEN /\ epoll' = [fd \in Fds |-> IF fd \in added THEN co ELSE epoll[fd]]
              /\ spoilt' = spoilt \cup (F \ added)
              /\ fds' = [fds EXCEPT ![co] = F]
              /\ arr' = [arr EXCEPT ![co] = OnStack(co, F)]
              /\ AddTimeout(co, timeout)
              /\ pc' = [pc EXCEPT ![co] = "poll"]
              /\ co_yield
         ELSE /\ epoll' = [fd \in Fds |-> IF fd \in added THEN Dangling ELSE epoll[fd]]
              /\ spoilt' = spoilt \cup F
              /\ UNCHANGED <<fds, arr, due, pItems, pc, swapVars>>
      /\ UNCHANGED <<loop, lag, llStartIdx, pstActiveList, cond, revents, corrupt>>

\* co_cond_timedwait: with ms <= 0 the item is in no timeout list.
co_cond_timedwait(co, ms) ==
  /\ Runs(co)
  /\ ms > 0 => AddTimeoutOK(ms)
  /\ IF ms > 0 THEN AddTimeout(co, ms) ELSE UNCHANGED <<due, pItems>>
  /\ cond' = Append(cond, co)
  /\ pc' = [pc EXCEPT ![co] = "cond"]
  /\ co_yield
  /\ UNCHANGED <<loop, lag, llStartIdx, pstActiveList, pollVars, corrupt>>

\* The waiters in W, popped from cond in order, leave whatever timeout list
\* they are in and go to the end of the active list.
Activate(W) ==
  /\ cond' = Without(cond, Range(W))
  /\ pItems' = [i \in Slots |-> Without(pItems[i], Range(W))]
  /\ pstActiveList' = Without(pstActiveList, Range(W)) \o W

co_cond_signal(co) ==
  /\ Runs(co)
  /\ cond # << >>
  /\ Activate(<<Head(cond)>>)
  /\ UNCHANGED <<pc, swapVars, loop, lag, llStartIdx, due, pollVars, corrupt>>

\* With one waiter it is co_cond_signal.
co_cond_broadcast(co) ==
  /\ Runs(co)
  /\ Len(cond) > 1
  /\ Activate(cond)
  /\ UNCHANGED <<pc, swapVars, loop, lag, llStartIdx, due, pollVars, corrupt>>

Create(co, new) ==
  /\ Runs(co)
  /\ \E share_stack \in BOOLEAN : co_create(new, share_stack)
  /\ UNCHANGED <<loop, wheelVars, cond, pollVars, corrupt>>

\* A coroutine is resumed by hand when it is new or has yielded by hand.
Resume(co, other) ==
  /\ Runs(co)
  /\ pc[other] \in {"new", "yield"}
  /\ pc' = [pc EXCEPT ![other] = "run"]
  /\ co_resume(other)
  /\ UNCHANGED <<loop, wheelVars, cond, pollVars, corrupt>>

\* co_yield_ct, and the end of CoRoutineFunc.
Leave(co, how) ==
  /\ Runs(co)
  /\ pc' = [pc EXCEPT ![co] = how]
  /\ co_yield
  /\ UNCHANGED <<loop, wheelVars, cond, pollVars, corrupt>>

-----------------------------------------------------------------------------
(* co_eventloop, on the thread's own stack *)

\* TakeAllTimeout: the number of slots up to now; none when now < ullStart.
cnt_OneMore ==
  IF lag < 0 THEN 0 ELSE IF lag + 2 > iItemSize THEN iItemSize ELSE lag + 2
cnt == IF lag < 0 THEN 0 ELSE IF lag + 1 > iItemSize THEN iItemSize ELSE lag + 1

\* The code lets the index grow and reduces it wherever it uses it; here it is
\* kept reduced.
NewStartIdx == IF cnt = 0 THEN llStartIdx ELSE (llStartIdx + cnt - 1) % iItemSize

\* An event is noted in the stPollItem_t the descriptor is registered with.
OnPollPreparePfn(events) ==
  revents' = [co \in Coroutines |-> {fd \in events : epoll[fd] = co}]

\* A round of co_eventloop begins.  epoll_wait reports the registered
\* descriptors that are ready, any of them at any time; the coroutines they are
\* registered for move to the active list, in the order of their first events.
\* TakeAllTimeout appends those that remain in the slots up to now.
EventloopWait(events) ==
  LET raised  == {epoll[fd] : fd \in events}
      items   == [i \in Slots |-> Without(pItems[i], raised)]
      taken   == [i \in 1 .. cnt |-> (llStartIdx + i - 1) % iItemSize]
      expired == FlattenSeq([i \in 1 .. cnt |-> items[taken[i]]])
      passed  == IF lag < 0 THEN 0 ELSE lag
  IN  /\ Runs(Main)
      /\ loop' = "active"
      /\ raised \subseteq Coroutines
      /\ OnPollPreparePfn(events)
      /\ \E s \in SetToSeqs(raised) :
           pstActiveList' = Without(pstActiveList, raised) \o s \o expired
      /\ pItems' = [i \in Slots |-> IF i \in Range(taken) THEN << >> ELSE items[i]]
      /\ llStartIdx' = NewStartIdx
      /\ lag' = lag - passed
      /\ due' = [co \in Coroutines |->
                   IF \E i \in Slots : co \in Range(pItems[i]) THEN due[co] - passed
                                                               ELSE due[co]]
      /\ UNCHANGED <<pc, swapVars, cond, fds, arr, epoll, spoilt, corrupt>>

\* An event whose stPollItem_t has been freed: the loop reads freed memory.
EventloopDangling ==
  /\ Runs(Main)
  /\ Dangling \in Range(epoll)
  /\ corrupt' = TRUE
  /\ UNCHANGED <<pc, swapVars, loop, wheelVars, cond, pollVars>>

\* co_poll_inner after co_yield_env deletes its descriptors from the epoll.
PollReturns(co) ==
  epoll' = [fd \in Fds |-> IF fd \in fds[co] THEN NoCo ELSE epoll[fd]]

\* PopHead and pfnProcess: the coroutine continues after its co_yield_env in
\* co_poll_inner or co_cond_timedwait and returns to its function.
EventloopResume ==
  LET co == Head(pstActiveList)
  IN  /\ ~ corrupt
      /\ loop = "active" /\ Current = Main
      /\ pstActiveList # << >>
      /\ pstActiveList' = Tail(pstActiveList)
      /\ co_resume(co)
      /\ pc' = [pc EXCEPT ![co] = "run"]
      /\ cond' = Without(cond, {co})
      /\ PollReturns(co)
      /\ fds' = [fds EXCEPT ![co] = {}]
      /\ arr' = [arr EXCEPT ![co] = FALSE]
      /\ revents' = [revents EXCEPT ![co] = {}]
      /\ due' = [due EXCEPT ![co] = 0]
      /\ UNCHANGED <<loop, lag, llStartIdx, pItems, spoilt, corrupt>>

\* The active list is empty: pfn is called, here any code of the thread.
EventloopPfn ==
  /\ ~ corrupt
  /\ loop = "active" /\ Current = Main
  /\ pstActiveList = << >>
  /\ loop' = "user"
  /\ UNCHANGED <<pc, swapVars, wheelVars, cond, pollVars, corrupt>>

-----------------------------------------------------------------------------
(* The world *)

Tick ==
  /\ lag < MaxLag
  /\ lag' = lag + 1
  /\ UNCHANGED <<pc, swapVars, loop, llStartIdx, pItems, pstActiveList, due, cond,
                 pollVars, corrupt>>

\* gettimeofday is set back.
ClockSet ==
  /\ lag >= 0
  /\ lag' \in -MaxBack .. -1
  /\ UNCHANGED <<pc, swapVars, loop, llStartIdx, pItems, pstActiveList, due, cond,
                 pollVars, corrupt>>

CoroutineStep(co) ==
  \/ Leave(co, "yield") \/ Leave(co, "end")
  \/ \E p \in PollArgs : p[1] = co /\ co_poll_inner(co, p[2], p[3])
  \/ \E w \in Waits : w[1] = co /\ co_cond_timedwait(co, w[2])

AnyStep(co) ==
  \/ co_cond_signal(co) \/ co_cond_broadcast(co)
  \/ \E other \in Coroutines : Create(co, other) \/ Resume(co, other)

MainStep ==
  \/ EventloopResume \/ EventloopPfn
  \/ \E events \in SUBSET Fds : EventloopWait(events)

Next ==
  \/ \E co \in Coroutines : CoroutineStep(co)
  \/ \E co \in Coroutines \cup {Main} : AnyStep(co)
  \/ MainStep \/ EventloopDangling
  \/ Tick
  \/ ClockSet

Spec == Init /\ [][Next]_vars

\* The thread runs, time passes, and no coroutine keeps the thread for ever.
Fairness ==
  /\ SF_vars(MainStep)
  /\ WF_vars(Tick)
  /\ \A co \in Coroutines : SF_vars(CoroutineStep(co))

FairSpec == Spec /\ Fairness

-----------------------------------------------------------------------------
(* Properties *)

Slotted == UNION {Range(pItems[i]) : i \in Slots}
Active == Range(pstActiveList)
Polls(co) == pc[co] = "poll"

\* Every item of the wheel is in the slot of its expiry time, in no other list
\* and there once; a coroutine that polls is in the wheel or on the active
\* list, and none that runs, has ended or waits for nothing is in either.  So
\* co_eventloop resumes each waiter once, and none is lost, although an event, a
\* signal and a timeout may all take it out of the list the others look in.
WaitersListed ==
  /\ \A i \in Slots :
       /\ IsInjective(pItems[i])
       /\ \A co \in Range(pItems[i]) :
            due[co] \in Slots /\ i = (llStartIdx + due[co]) % iItemSize
  /\ IsInjective(pstActiveList) /\ IsInjective(cond)
  /\ Slotted \cap Active = {}
  /\ \A co \in Coroutines :
       /\ co \in Slotted \cup Active => pc[co] \in {"poll", "cond"}
       /\ co \in Range(cond) => pc[co] = "cond"
       /\ Polls(co) => co \in Slotted \cup Active
       /\ pc[co] = "cond" => co \in Slotted \cup Active \cup Range(cond)

\* No coroutine wakes without a reason: one the loop is about to resume has an
\* event, has been signalled or its time is over; never before its timeout.
WokenForAReason ==
  \A co \in Active :
    \/ Polls(co) /\ revents[co] # {}
    \/ pc[co] = "cond" /\ co \notin Range(cond)
    \/ due[co] <= 0

\* The registrations co_poll_inner leaves in the epoll are those of the polls
\* that are waiting, and their stPollItem_t can be written when the event
\* comes: not freed, not on a shared stack that holds another coroutine's
\* frames.  Descriptors polled by two coroutines at once, or by a poll whose
\* AddTimeout failed, are excepted: for those it does not hold.
RegisteredWhilePolled ==
  \A fd \in Fds \ spoilt :
    /\ epoll[fd] # Dangling
    /\ \A co \in Coroutines : epoll[fd] = co <=> Polls(co) /\ fd \in fds[co]
    /\ epoll[fd] \in Shared /\ arr[epoll[fd]] =>
         memory[stack_mem[epoll[fd]]] = <<epoll[fd], "now">>

\* A coroutine in co_poll comes back, by an event or at its timeout, even when
\* its descriptor could not be registered ("if fail,the timeout would work"),
\* provided that the clock does not keep being set back and that every drain of
\* the active list ends.  The second is needed: coroutines that signal each other
\* and wait again refill the list co_eventloop is emptying, so that it never
\* looks at the wheel again, and a poll then never returns.  Or the loop has
\* followed a freed item.
EventuallyResumed ==
  (<>[][~ ClockSet]_vars /\ []<>(loop = "user")) =>
    \A co \in {p[1] : p \in PollArgs} : Polls(co) ~> (~ Polls(co) \/ corrupt)

\* co_poll_inner says of its descriptors "the events must be deleted; if they
\* are not, coroutines are resumed by mistake" (co_routine.cpp:1265).
EventsDeleted ==
  \A fd \in Fds : epoll[fd] # NoCo => \E co \in Coroutines : Polls(co) /\ fd \in fds[co]

=============================================================================

# WebServerCoroutinePool: TLA+ verification project

The repository is a small HTTP server: an accepting thread, event loop threads
that run request handlers on a pool of libco coroutines, a timing wheel that
closes idle keep-alive connections, and an asynchronous log. This directory
models the parts of it whose correctness depends on the order in which things
happen, checks them with TLC on small instances, and proves the central results
with TLAPS for every size.

## 1. The system

| Component | State | Operations | Interacts with |
|---|---|---|---|
| Event loop (`Eventloop.cpp`) | the batch `Poll()` returned | `loop`, `MainLoop` | `Epoll::Poll`, pool, `handle_event` |
| Coroutine pool (`CoroutinePool.cpp`) | `task`, `free_co_num`, `cond`, `coroutines` | `Start`, `PutTask`, `Run`, `CoroutineFun`, `CheckFinish` | libco |
| libco scheduler (`libco/co_routine.cpp`) | call stack, shared stacks and their copies, active list, condition lists, timeout wheel, epoll | `co_create`, `co_resume`, `co_yield`, `co_swap`, `co_cond_*`, `co_poll`, `co_eventloop` | pool, hooks |
| libco hooks (`libco/co_hook_sys_call.cpp`) | `g_rpchook_socket_fd`, each coroutine's hook flag | `socket`, `connect`, `read`, `write`, `send`, `recv`, `sendto`, `recvfrom`, `fcntl`, `close`, `co_accept` | `co_poll`, the kernel |
| Asynchronous log (`LogFile.cpp`, `Log.*`) | two queues, two mutexes, two condition variables | `put_write_string`, `write_file`, `swap` | every thread that logs |
| Timing wheel (`TimeRound.h`, `TimeRoundItem.h`) | slots, `cur_index`, `cur_time`, time-out list, `Mutex` | `AddTimeRoundItemNode`, `fun`, `AddToTimeOutList`, `HandleTimeOutList`, `reset` | loop threads add and detach, the timer thread closes |
| Dispatch (`otherFun.cpp`, `EventLoopThreadPool.cpp`, `Httpdata.cpp`) | `cur_event_epoll`, one eventfd per worker | `Maccept`, `GetNextEventEpollFd`, `sysreadn`, `handle_event`, `Add_New_Connect` | acceptor to worker |
| Epoll (`Epoll.cpp`) | `Mmap`, the kernel's interest list | `Epoll_Add`, `Epoll_Del`, `Epoll_Mod`, `Poll` | all channels of a loop, and the timer thread |
| Connection (`channel.*`, `Httpdata.*`) | buffers, keep-alive flag, weak pointer to its timer | `HandleRead`, `HandleWrite`, `handle_http`, `handle_close`, `SeparateTimer` | loop, wheel, epoll |
| Thread pool (`Task.*`, `ThreadPool.*`) | two queues with a capacity | `put_task`, `take_task`, `swap_task` | built, never instantiated |

What is hard about it:

* the pool's accounting: `free_co_num` is changed by coroutines and by `Run`,
  and a coroutine moves between four lists by hand;
* the log's threads, which wait on one condition variable under two mutexes;
* edge-triggered events, which must be drained before a handler returns;
* a wheel turned by a thread that runs late, by a clock that may be set, with
  items added, detached and expired by different threads;
* descriptors that the kernel reuses at once, while a connection's entry in
  `Mmap`, its timer and the running batch each keep its channel alive and two
  threads drop them;
* coroutines that share a stack, whose frames are copied out and in, and waiters
  that an event, a signal and a timeout can claim in one round of the loop;
* hooked calls that must look like blocking ones and never block.

Each of them is an entry of `hazards` in `PROJECT.json`, at its line, with the
properties that would catch it going wrong.

## 2. The modules

**EventBatch** is the promise of an event loop thread: a batch of channels is
delivered when nothing is outstanding, every channel of it is handled once, and
only then is the next one asked for.

**CoroutinePool** is one event loop thread: `loop`/`MainLoop`, the pool and the
part of libco that it runs on. `pc` is the position of the thread's own stack,
`at[co]` that of each coroutine, `pCallStack` says who runs. A step is the code
between two points where control can pass to another stack or where the code
branches. `Start`, `Poll`, `PutTask`, `RunEnter`, `RunOuter`, `RunSignal`,
`RunInnerDone` are the thread's own code; `EventloopWait`, `EventloopResume`,
`CheckFinish` are a pass of `co_eventloop`; `CoroutineWait`, `CoroutineTake`,
`HandlerPolls`, `HandlerReturns` are `CoroutineFun`; `DirectBegin` and
`DirectReturn` are the branch for `coroutine_num = 0`. A handler is the number
of times it blocks in `co_poll`, at most `MaxPolls`.

**FifoChannel** is what a double-buffered queue promises: first in, first out,
nothing lost or repeated.

**LogFile** has any number of logging threads, the writer and the swap thread.
Every mutex call, condition-variable call, test and queue operation is a step.
A condition variable is the set of threads asleep on it; a woken thread takes
its mutex again first.

**TimeRound** is the wheel with loop threads that add and detach items, and the
timer thread. Clocks are kept as differences (`lag` is the wall clock minus
`cur_time`), so the state space is finite without a bound on time. **MCTimeRound**
gives the negative clock jump that a configuration file cannot. **TimeRoundLock**
is `Mutex` alone, with `Lock_Guard` as written.

**Dispatch** has the accepting thread, `thread_num` workers with their eventfds
(`Init` chooses `thread_num` from `ThreadNums`; zero is one thread for all), and
descriptors as numbers, because the eventfd adds them up. `closing` holds the
channels that `Epoll_Del` has taken out and the vector returned by `Poll()`
still keeps alive.

**Task** is the thread pool's queue, a second implementation of FifoChannel: it
has a capacity, several consumers, batches that are put one task at a time, and
`pthread_cond_signal` where the log broadcasts. Only `swap_task` waits on
`Swap_Cond`, so a signal of it wakes whoever sleeps there.

**CoSwap** is libco's switch between coroutines: the call stack, `co_create`'s
choice of a stack, and `co_swap`. A shared stack holds an image, whose frames
these are and whether they are current; so does `save_buffer`. Its operators are
the parts that **CoPoll**'s actions are made of. CoPoll adds the timeout wheel,
condition variables, `co_poll_inner` and `co_eventloop`, for coroutines that make
any sequence of libco calls, while **CoroutinePool** has one particular sequence
of them and no time. Time is relative to `ullStart` (`lag`, `due`). A poll that
returns without having been suspended leaves its registrations `Dangling`; the
loop that follows one reads freed memory, after which nothing is claimed
(`corrupt`). `spoilt` names the descriptors that were polled twice at once or
left registered. `alloc_idx` counts for ever and is reduced by `co_get_stackmem`,
as in the code; `llStartIdx` the code reduces too only where it uses it, the
model when it advances it, so that the state stays finite. **MCCoPoll** gives the
calls each coroutine makes, with the negative timeouts a configuration file cannot.

**Hooks** is the table of descriptors and the hooked calls. A call that waits in
`poll()` is an entry of `call`; a system call that blocks stops the whole thread
(`blocked`). `managed` are the descriptors of a hooked `socket()` whose flag no
unhooked `fcntl` has cleared; `unreported` counts what the kernel took of writes
that have not returned. A `connect` may also be answered at once, and a first
`write` that takes nothing returns zero without a second attempt. Its constants and its specification have names of their
own (`Callers`, `Sockets`, `HookSpec`), so that one proof module can extend it
together with CoPoll; the two share no state.

**Connection** is a connection from `accept` to the close of its descriptor: the
loop thread with `Poll`'s two look-ups in `Mmap`, `HandleRead`, `handle_http`
with `HandleWrite`, and the timer; the timer thread with `Expire` and `TimerClose`;
and clients that send, hang up or reset. `Add_New_Connect` happens before
`epoll_wait` and between the handlers of a batch, `Poll` reports at most
`event_fd.size()` of the ready descriptors, and after a short write `Epoll_Mod`
asks for `EPOLLOUT` as well, which is reported again (`Rearmed`). Of `handle_http`
the parse, the keep-alive test and `HandleWrite` are translated; the page and the
response are not. Reference counts are modelled by their
holders: a channel nobody in `Holders` refers to is destroyed in the same step
(`Destroyed`). `down` is the end of the process, by the null pointer that
`Mmap[fd]` inserts when the timer thread has erased the entry since `find`, or
by SIGPIPE. The loop calls its handlers one after the other, which is what it
does without coroutines, and with them as long as no handler blocks; none does,
see finding 1. **HttpRequest** holds `handle_request_line`, `handle_request_head`
and the keep-alive test as operators on sequences of tokens, and, as the
reference, how a client writes a request (`Request`, `Render`, `Says`). The tokens
stand for the characters exactly where a request has the usual shape, with `: `
after a key and CR LF after a line; the parser skips those two characters without
looking at them. **MCConnection** gives the requests.

**ListLemmas** holds what the proofs need about lists and induction: what append,
tail, front and concatenation do to the elements and the length of a list,
joined lists, a set listed in some order, induction over the naturals and over
the subsets of a finite set, and sums over finite sets.
**CoroutinePoolProofs**, **LogFileProofs**, **TaskProofs**, **DispatchProofs**,
**TimeRoundProofs**, **LibcoProofs** (of CoPoll with CoSwap, and of Hooks) and
**ConnectionProofs** (with HttpRequest) hold the theorems, see section 4.

Operators whose names end in a suffix such as `RunSignal_NotCounted` are the
plausible mistakes that the properties must reveal; no specification uses them.

## 3. The runs

| Run | Instance | Shows |
|---|---|---|
| `pool` | 3 coroutines or none, 4 channels, one `co_poll` per handler | `FreeCountExact`, `OnePlace`, `RunBarrier`, `EventuallyHandled`, refinement of EventBatch |
| `pool_hook` | 2 coroutines | **violated**: handlers are not hooked |
| `log` | 2 loggers, 3 messages, spurious wakeups | `NoLostWakeup`, refinement of FifoChannel, `EventuallyWritten` |
| `wheel` | 2 items, 3 slots, up to 2 s late, the clock is set once | `OnSchedule`, `FiresOnTime`, `ItemsOnce`, `LeavesByExpiring`, `EventuallyExpires` |
| `wheel_lock` | 2 loop threads | **violated**: the wheel is not protected by `Mutex` |
| `dispatch` | 2 workers or one thread, 3 clients, 2 descriptors | `NothingStranded`, `AcceptedIsRegistered`, `EventuallyNotified`, `EventuallyAccepted` |
| `dispatch_eventfd` | 2 workers | **violated**: the number a worker reads is no connection |
| `task` | 2 producers, 2 consumers, 3 tasks, capacity 1, batches of 2 | `CapacityKept`, refinement of FifoChannel, `EventuallyTaken` |
| `libco` | 3 coroutines, 2 of them on one shared stack, 1 descriptor, 2 slots | `StackIntact`, `WaitersListed`, `WokenForAReason`, `RegisteredWhilePolled`, `EventuallyResumed` |
| `poll_leak` | as `libco` | **violated**: a failing poll leaves its descriptors registered |
| `hooks` | 2 coroutines, 1 descriptor, buffers of 2, writes of 3 | `NeverBlocksManaged`, `WritesAccounted`, `EventuallyReturns` |
| `conn` | 2 clients, 2 descriptors, 2 pieces sent, buffer of 26 tokens, 2 events per `epoll_wait` | `NothingUnread`, `MmapSound`, `OneTimer`, `KeptAsAsked`, `EventuallyReleased` |

Bounds. Three coroutines and four channels give batches smaller than, equal to
and larger than the pool, and every mix of parked, runnable, polling and
running coroutines; a second `co_poll` of a handler starts from the same state
as the first. Two loggers and three messages let a logger act between any two
steps of both other threads, with a message in each buffer and one on its way.
The wheel has thresholds below and beyond its length and is late by more than
one slot; the clock goes back by less and forward by more than its length. Ages
are told apart up to `AgeCap`, which is beyond every upper bound the properties
state. Three clients and two descriptors make `accept` fail, descriptors be
reused and an eventfd be written twice; `buff_slots = 1` makes the worker's read
buffer fill up (in the code it holds 512 values). A capacity of one and batches
of two make every second task wait inside `put_task`.

In `libco` coroutines a and b are on the one shared stack, so that each resume of
the other copies frames, also when one resumes the other by hand; c has its own.
Each coroutine has its own calls: a polls nothing, or a descriptor with a
negative timeout or one above `eMaxTimeout`, and waits with a timeout; b polls
the same descriptor; b and c wait for signals without a timeout, and so can
signal each other for ever, the case that `EventuallyResumed` must exclude. The
wheel of two slots wraps, and a round that is late by `MaxLag` passes its whole
length. The invariants are proved for a wheel of any size; that it is short
matters for the liveness property only. In `hooks` a write needs two
attempts at least, and one descriptor is opened again and again by coroutines
with the hook on and off. In `conn` the buffer is longer than one request that
asks to keep the connection and shorter than two: two sent at once are read as
one and a part, and a piece cut inside a header arrives alone. That request names
`Connection` twice, of which the last counts. The numbers of closed
connections are given out again.

`CHECK_DEADLOCK FALSE` is used for the log and the thread pool, whose threads
all sleep when there is nothing to do, and for `dispatch` and `conn`, which end
when the clients do.

### Fairness

* Pool: the thread always runs on (weak fairness of all its steps except `Poll`,
  which may block for ever), and a handler blocked in `co_poll` is raised after
  being waited for again and again: libco's wheel caps every timeout and
  `co_eventloop` wakes at least every millisecond.
* Log and thread pool: each thread that can take a step eventually does. Loggers
  and producers owe no message. `EventuallyWritten` and `EventuallyTaken` are
  claimed of behaviours in which spurious wakeups stop: a mutex is not a fair
  queue, and with wakeups for ever two threads could take turns without the one
  that matters getting the mutex.
* Wheel: the timer thread runs and time passes. Dispatch: every thread with
  something to do runs; clients owe nothing. `EventuallyAccepted` has the premise
  that descriptors become free again and again, because `Maccept` spins on
  `EMFILE` without one.
* libco: the thread runs (strong fairness of `co_eventloop`'s steps, which are
  disabled while a coroutine runs), time passes, and no coroutine keeps the
  thread for ever: with cooperative scheduling a coroutine that does starves
  all, and the code has nothing against it. `EventuallyResumed` has two premises:
  the clock stops being set back, and every drain of the active list ends. The
  second one is not guaranteed: the loop at `co_routine.cpp:1034` also resumes
  what is put on the list meanwhile, so two coroutines that signal each other and
  wait in turn keep one drain going for ever, `TakeAllTimeout` is not reached
  again and a third one that polls does not come back. The pool's coroutines do
  not signal.
* Hooks: `co_eventloop` resumes every coroutine in `poll()` at its timeout, that
  is `EventuallyResumed` of CoPoll; hooked calls signal nobody, so its drains
  end. The premise of `EventuallyReturns` is that the
  thread is not blocked for ever by a call that is not hooked.
* Connection: the loop runs when it has something to do, every item of the wheel
  expires (`EventuallyExpires` of TimeRound), and its destructor runs.

### What the runs found

1. `CoroutinePool.cpp:68` says the hook is on while an event is handled.
   `co_enable_hook_sys` marks the current coroutine, which in `Run` is the
   thread's own; the handlers run in other coroutines, whose flag is clear
   (`pool_hook`).
2. `TimeRound.h:246` says the wheel's queues must be operated on under the lock.
   `fun()` unlocks `Mutex` explicitly, and `~Lock_Guard` unlocks it again after
   the callbacks: if another thread is in `AddTimeRoundItemNode` by then, a
   third one gets in as well (`wheel_lock`). TimeRound therefore treats
   `AddTimeRoundItemNode` as one step and shows the wheel's own logic.
3. README item 4 says the eventfd tells a worker the descriptor of the new
   connection. Two writes before a read give their sum (`dispatch_eventfd`).
4. `libco/co_routine.cpp:1265` says the events of a poll must be deleted, or
   coroutines are resumed by mistake. When `AddTimeout` fails, which it does for
   every negative timeout, `co_poll_inner` returns before that, and the freed
   items stay registered (`poll_leak`).

Some steps of the models end the process or leave it in an undefined state, and
no document promises otherwise, so they are hazards and not findings: `down` in
Connection, `corrupt` in CoPoll, and a `connect` that reports a refused connection
as success in Hooks. So are two races the code does lose: the drain of the active
list that never ends, and an item that has expired before `SeparateTimer` could
detach it, whose destructor then closes a connection that has just been served.

## 4. The proofs

All theorems hold for every value of the constants that satisfies the named
assumptions, which TLC evaluates on every run. Each proof module states an
inductive invariant `IInv`, a conjunction of named parts, and has one lemma per
action or group of actions that preserves it; `IInv` was checked as an invariant
of the run before it was proved. The bounds the models need for TLC (`MaxSends`,
`MaxPolls`, `AgeCap` ...) are constants like the others: nothing is assumed of
them but that they are numbers.

| Module | Theorems `Spec => []P`, unless said otherwise |
|---|---|
| CoroutinePoolProofs | `TypeOK`, `FreeCountExact`, `OnePlace`, `RunBarrier`, `Spec => ImplementsEventBatch` |
| LogFileProofs | `TypeOK`, `LockDiscipline`, `NoLostWakeup`, `SwapMovesForward`, `Spec => ImplementsFifoChannel` |
| TaskProofs | `TypeOK`, `CapacityKept`, `NoLostWakeup`, `Spec => ImplementsFifoChannel` |
| DispatchProofs | `TypeOK`, `NothingStranded`, `AcceptedIsRegistered` |
| TimeRoundProofs | `TypeOK`, `ItemsOnce`, `LeavesByExpiring`; `OnSchedule` and `FiresOnTime` if `MaxLag < max_time` |
| LibcoProofs | `TypeOK`, `StackIntact`, `WaitersListed`, `WokenForAReason`, `RegisteredWhilePolled`, `Spec => WaitEnds`; from `HookSpec`: `HookTypeOK`, `NeverBlocksManaged`, `WritesAccounted`, `AllReported` |
| ConnectionProofs | `TypeOK`, `NothingUnread`, `MmapSound`, `OneTimer`, `KeptAsAsked`, `OwnDescriptor`; `Spec => ErasesItsOwn`, `Spec => ClosesReleased` |

**CoroutinePoolProofs** (any finite set of coroutines, any channels, any bounds):
`TypeCorrect`, `FreeCountCorrect`, `OnePlaceCorrect` and `BarrierCorrect`, that
is `Spec => []P` for `TypeOK`, `FreeCountExact`, `OnePlace` and `RunBarrier`.
From `PoolAssumption`: the coroutines are finitely many, the thread's own stack
is not one of them, "no channel" is not a channel, the bounds are naturals.
`RunBarrier` is not inductive, because nothing in it says why `co_eventloop`
cannot return too early. `IInv` adds where every coroutine is (`Stack`, `Lists`,
`Handlers`), that `free_co_num` counts the parked ones, and what holds in each
phase of the loop (`Phases`): the key conjunct is that while `co_eventloop`
runs, a non-empty queue implies that some coroutine is not parked, which holds
because a coroutine parks only when it has found the queue empty. `FullList`
turns the count into "all coroutines are parked". One lemma per action shows
that it preserves `IInv`.

In the same module, `EventBatchCorrect`, `Spec => ImplementsEventBatch`. The
mapping reads a channel's status off the queue, the batch and the handlers. It
is right while a channel is in one of them at a time (`Distinct`), and a
channel reported again by the next `Poll` does not break that because of the
barrier. `BeginStep` and `FinishStep` are the two ways a handler starts (from
the queue, or from the batch without coroutines) and ends.

**LogFileProofs** (any loggers, any messages, with or without spurious
wakeups): `TypeCorrect`, `LockDisciplineCorrect`, `NoLostWakeupCorrect`,
`SwapMovesForwardCorrect`, and `FifoCorrect`, `Spec => ImplementsFifoChannel`.
From `LogAssumption`: the threads are different, "no thread" is not a thread,
"no message" is not a message. The invariant adds `Found`, what a thread may still
rely on after it tested a buffer, and `Asleep`: the swap thread never sleeps
for an empty `WriteTask` while the writer sleeps or is about to. `PushConcat` and
`PopConcat` say that a push to the one buffer and a pop from the other are a
push to and a pop from their concatenation.

**TaskProofs** (any producers, consumers, tasks, batch sizes and any capacity,
with or without spurious wakeups), from `TaskAssumption`: the threads are
different and the capacity is not zero. `CapacityKept` is inductive by itself:
`put_task` pushes only below the capacity, and the swap exchanges the buffers.
`NoLostWakeup` and the refinement need to know who holds
which mutex (`Locks`) and what `swap_task` may still rely on when it exchanges the
buffers several steps after its tests (`Found`). `NoLostWakeup` says that a
producer, a consumer or the swap thread that sleeps while what it waits for
holds has a signal coming. It holds although `Swap_Cond` is waited on under
two mutexes: a swap thread that waits under `Product_Mutex` keeps
`Comsumer_Mutex`, so the consumers cannot change what it found (`Locks`,
`Found`). The refinement is that of the log.

**DispatchProofs** (any workers, clients, descriptors and any size of
`read_buff`), from `DispatchAssumption`. `NothingStranded` is not inductive where
`sysreadn` stops at a full buffer: `Renewed` adds that whatever arrives after a
worker's first read brings an edge of its own. `AcceptedIsRegistered` needs
`ClosingOpen`: a channel on its way out keeps its descriptor, so that `accept`
cannot give its number to another.

**TimeRoundProofs** (any items, thresholds, number of slots and settings of the
clock), from `WheelAssumption`: the wheel has more than one slot.
`LeavesByExpiring` is an action property, proved for every step from `IInv`.
`OnSchedule` and `FiresOnTime` have the hypothesis `MaxLag < max_time`: the timer
thread is less than a turn of the wheel late (in the code, less than
`max_time` seconds). Without it they do not hold, and TLC shows why: `fun()`
cuts a longer delay to `max_time - 1` sweeps and drops the other seconds, so
items expire late. Their invariant `TInv` adds `KeepsUp`, that no second is
dropped while nobody sets the clock, and `Phases`, that `fun()` starts a
group of sweeps with an empty time-out list and the last group finished. The
arithmetic of a wrapping `cur_index` is in lemmas of its own.

**LibcoProofs** (any coroutines, shared stacks, descriptors, timeouts and slots,
any sequence of libco calls, the clock set back by any amount), from
`SwapAssumption` and `PollAssumption`. `StackIntact` speaks of the coroutine that
runs. `Frames` makes it inductive: the frames of every started coroutine of a
shared stack are on it if it was there last and in its `save_buffer` otherwise,
and `CallStack` says who may be resumed. `WaitersListed` is a conjunction of what
the wheel (`Wheel`), the other lists (`Lists`) and the places of a coroutine in
them (`Places`) must satisfy; that an item stays in the right slot while
`llStartIdx` wraps is `SlotsTurn`. `WokenForAReason` needs that outside
`co_eventloop` only signalled coroutines are on the active list (`Signalled`), and
`RegisteredWhilePolled` that every registration belongs to a poll that waits, or is
`Dangling` (`Polled`). The lists are filtered and joined by recursive functions
(`Without`, `FlattenSeq`); what these do is proved by induction. `WaitEnds` is an
action property, from the invariant before and after the step: a coroutine leaves
`co_poll` or `co_cond_timedwait` only when `co_eventloop` resumes it, for a reason,
and then no list, condition variable or registration refers to it.

The same module proves Hooks, for any coroutines, descriptors, capacities and
lengths of writes, from `HooksAssumption`, which asks of "no entry" (`None`) that
it is neither a coroutine nor a truth value. The inductive invariant is `HookInv`:
the types with what a call that waits may be (`CallsOn`), that a managed
descriptor is non-blocking and also in the table, so that the next hooked `fcntl`
keeps it so (`ManagedNonblocking`), that the thread blocks in a call on a blocking
descriptor only (`BlockedBlocks`), and `WritesAccounted`. That one equates a
counter with a sum over the set of calls (`MapThenSumSet`), which folds an
operator over the set in an order nobody knows. ListLemmas unfolds the sum
(`SumSteps`) and shows by induction over subsets that taking out any element, not
only the chosen one, leaves the sum of the others (`TotalTake`); a step of one
call then changes the sum by what that call adds (`OneCallChanges`).
`AllReported` follows: once no write to a descriptor is under way, the results of
its writes add up to what the kernel took.

**ConnectionProofs** (any clients, descriptors, pieces and any buffer size), from
`ConnectionAssumption`. `MmapSound` rests on the references: a channel is open
exactly while `Mmap`, the loop or an item refers to it (`Alive`), so a number
cannot be given out again while anybody could still erase by it. `OneTimer` says
which timer an idle connection has: the item on the wheel is the one of its last
request, and an item in its destructor may be of an earlier request, whose
expiry `SeparateTimer` was too late for, and does close the connection. `Timed` is
the part of it that a request in progress does not disturb, `Aged` the one about
ages: an item in its destructor is older than the item on the wheel. `NothingUnread`
speaks of the moment before `epoll_wait`; `Unread` says of every other moment that
a readable connection has an edge, or is in `event_fd` or among the results whose
handler has still to read (`Pending`). `KeptAsAsked` says that
a buffer which begins with a whole request is treated as that request asks,
whatever follows it in the buffer: the connection is kept if its last `Connection`
header says so, and one that is served for the first time only then. It is proved for every set of `Request`s: the URI has no blank, a key
none of the characters that end it, a value no end of line, and there are any
number of header lines. `Kept` relates the flag to the buffer that was parsed; the
rest are facts about the parser: `RenderLayout` and `TextLayout` say where the tokens of a
written request are, also with more text behind it, `HeadParsed` follows the
parser from the last header line to the first (`LastOf`: of several equal keys the
last one counts).

Three more theorems say what the two threads never do to each other. While a
connection is handled its descriptor is its own (`OwnDescriptor`). An entry of
`Mmap` is erased only by the loop, for the channel it handles, or by the timer
thread, for the item it destroys, and is never overwritten (`ErasesItsOwn`). When
a descriptor is closed nothing refers to the connection any more, so that no later
step acts on its number (`ClosesReleased`).

Induction over data is done with `NatInductionSet` of ListLemmas: induction over a
set of naturals, from the library's theorem that `<` on them is well-founded.
The same lemma shows that the recursive functions exist (`UntilSteps`,
`HeadSteps`, `FlattenSteps`, `WithoutSteps`).

Only model-checked:

* liveness under fairness, out of the prover's reach: `EventuallyHandled`,
  `EventuallyWritten`, `EventuallyExpires`, `EventuallyNotified`,
  `EventuallyAccepted`, `EventuallyTaken`, `EventuallyResumed`, `EventuallyReturns`,
  `EventuallyReleased`;
* the four violations, which are behaviours and not invariants.

`LockDiscipline` and `SwapMovesForward` of LogFile, `NoLostWakeup` of Task,
`WaitEnds` and `AllReported` of libco, and `OwnDescriptor`, `ErasesItsOwn` and
`ClosesReleased` of Connection are proved and belong to no run; TLC found no
counterexample to them on the instances of the runs `libco`, `hooks` and `conn`
before they were proved.

## 5. Not modelled

* `coctx_swap.S` and `coctx.cpp`: context switches are taken as correct.
* `co_free` and the reuse of a control block (a freed coroutine stays in
  `occupy_co` of its shared stack), coroutine-specific data, the depth of the
  call stack (128 entries, not checked by the code); the server uses none.
* The fallback of `co_poll_inner` for descriptors epoll refuses (`EPERM`), and
  the translation between poll and epoll event bits.
* Of the hooks: `setsockopt`'s timeouts, the environment functions and
  `gethostbyname`. Failures of `malloc` and of `fcntl` itself.
* `UpdateTimeRoundItemNode`, `co_readn` and `co_writen`: they have no caller.
* `Poll()` after `epoll_wait` fails, which ends without a return value; data
  races on the nodes of `Mmap` itself.
* The page and the response in `handle_http`: `request_fd` stays open when `mmap`
  fails (`Httpdata.cpp:127`), and `sprintf` writes into a `write_buff` of fixed
  size (`Httpdata.cpp:168`).
* Requests of another shape than `: ` after a key and CR LF after a line, of which
  the parser skips characters it has not looked at (`Httpdata.cpp:205`).
* The bytes of responses and log lines: which part of a short write is kept
  (`channel.cpp:69`), which file a URI names. A negative `coroutine_num`, for
  which `std::vector` throws before the pool exists.
* The examples and build files of libco.

## 6. Plan

1. Connection on the coroutine pool: handlers of one batch that interleave.
2. `co_free` and reuse of shared stacks; `setsockopt`'s timeouts.

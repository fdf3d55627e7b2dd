----------------------------- MODULE TimeRound ------------------------------
(***************************************************************************)
(* The timing wheel that closes idle keep-alive connections: TimeRound     *)
(* (TimeRound.h) and TimeRoundItem (TimeRoundItem.h).  Event loop threads  *)
(* add items and detach them (SeparateTimer, handle_close); one timer      *)
(* thread turns the wheel by the wall clock and runs the callbacks.        *)
(*                                                                         *)
(* AddTimeRoundItemNode holds Mutex from its first statement to its last   *)
(* and is one step here, so the second unlock of the timer thread finds    *)
(* Mutex free; TimeRoundLock looks at what it does when it does not.       *)
(*                                                                         *)
(* Clocks are kept as differences: lag is the wall clock minus cur_time,   *)
(* age[it] counts the seconds that really passed since `it' was added,     *)
(* until its node is deleted.                                              *)
(***************************************************************************)
EXTENDS Integers, Sequences, FiniteSets, SequencesExt

CONSTANTS
  Items,        \* TimeRoundItem objects
  max_time,     \* number of slots: the constructor's argument plus one
  Thresholds,   \* time_threod values the items are created with
  MaxLag,       \* most seconds the wheel falls behind the clock
  Jumps,        \* amounts by which the wall clock may be set
  MaxSets       \* most times the wall clock is set

ASSUME WheelAssumption ==
  /\ max_time \in Nat /\ max_time > 1
  /\ Thresholds \subseteq Int
  /\ MaxLag \in Nat \ {0}
  /\ Jumps \subseteq Int
  /\ MaxSets \in Nat

VARIABLES
  pc,                    \* the timer thread: "read", "lock", "sweep", "handle"
  lag,                   \* system_time.tv_sec - cur_time
  diff_time,             \* slots fun() has still to sweep
  cur_index,             \* TimeRound::cur_index
  TimeRoundVector,       \* slot -> its list of items
  time_out_event_list,   \* items swept, their callbacks not yet run
  time_threod,           \* TimeRoundItem::time_threod
  attached,              \* items whose ptr has not been reset
  age,                   \* seconds the item has been in the wheel or the list
  fired,                 \* items whose callback has run
  clock_sets             \* how often the wall clock has been set

itemVars == <<time_threod, attached, age, fired>>
wheelVars == <<cur_index, TimeRoundVector, time_out_event_list>>
vars == <<pc, lag, diff_time, wheelVars, itemVars, clock_sets>>

Slots == 0 .. max_time - 1

InWheel == UNION {Range(TimeRoundVector[i]) : i \in Slots}
Listed == Range(time_out_event_list)

\* The threshold AddTimeRoundItemNode uses: longer ones are cut to max_time-1.
Clamped(time) == IF time >= max_time THEN max_time - 1 ELSE time

TypeOK ==
  /\ pc \in {"read", "lock", "sweep", "handle"}
  /\ lag \in Int
  /\ diff_time \in 0 .. max_time - 1
  /\ cur_index \in Slots
  /\ TimeRoundVector \in [Slots -> Seq(Items)]
  /\ time_out_event_list \in Seq(Items)
  /\ time_threod \in [Items -> Int]
  /\ attached \subseteq Items
  /\ age \in [Items -> Nat]
  /\ fired \subseteq Items
  /\ clock_sets \in Nat

Init ==
  /\ pc = "read"
  /\ lag = 0
  /\ diff_time = 0
  /\ cur_index = 0
  /\ TimeRoundVector = [i \in Slots |-> << >>]
  /\ time_out_event_list = << >>
  /\ time_threod = [it \in Items |-> 0]
  /\ attached = {}
  /\ age = [it \in Items |-> 0]
  /\ fired = {}
  /\ clock_sets = 0

-----------------------------------------------------------------------------
(* Items *)

\* ~TimeRoundItem: the callback runs if ptr has not been reset.
TimeRoundItem_destructor(it, ptr) ==
  /\ fired' = IF ptr THEN fired \cup {it} ELSE fired
  /\ attached' = attached \ {it}

\* reset: the item lets go of its channel.
reset(it) == attached' = attached \ {it}

-----------------------------------------------------------------------------
(* Event loop threads *)

SlotFor_OneEarly(time) == (cur_index + Clamped(time) - 1) % max_time
\* The slot that is swept after time more slots.
SlotFor(time) == (cur_index + Clamped(time)) % max_time

\* new TimeRoundItem and AddTimeRoundItemNode.  Mutex is held by the timer
\* thread while it sweeps.  With a threshold of 0 or less the node is deleted
\* at once, and with it the item: its callback runs now.
AddTimeRoundItemNode(it, time) ==
  /\ pc # "sweep"
  /\ it \notin InWheel \cup Listed
  /\ time_threod' = [time_threod EXCEPT ![it] = time]
  /\ age' = [age EXCEPT ![it] = 0]
  /\ IF time <= 0
     THEN /\ TimeRoundItem_destructor(it, TRUE)
          /\ UNCHANGED TimeRoundVector
     ELSE /\ TimeRoundVector' = [TimeRoundVector EXCEPT ![SlotFor(time)] = Append(@, it)]
          /\ attached' = attached \cup {it}
          /\ fired' = fired \ {it}
  /\ UNCHANGED <<pc, lag, diff_time, cur_index, time_out_event_list, clock_sets>>

\* SeparateTimer, and handle_close likewise: reset() the item through the weak
\* pointer, which locks only while the item exists.
SeparateTimer(it) ==
  /\ it \in InWheel \cup Listed
  /\ it \in attached
  /\ reset(it)
  /\ UNCHANGED <<pc, lag, diff_time, wheelVars, time_threod, age, fired, clock_sets>>

-----------------------------------------------------------------------------
(* The timer thread *)

\* fun: read the clock; if a second or more has passed, the wheel is to turn.
ReadClock ==
  /\ pc = "read"
  /\ lag >= 1
  /\ diff_time' = IF lag >= max_time THEN max_time - 1 ELSE lag
  /\ lag' = 0
  /\ pc' = "lock"
  /\ UNCHANGED <<wheelVars, itemVars, clock_sets>>

\* Lock_Guard lock(Mutex).  Until it has Mutex other threads may add items.
LockWheel ==
  /\ pc = "lock"
  /\ pc' = "sweep"
  /\ UNCHANGED <<lag, diff_time, wheelVars, itemVars, clock_sets>>

\* The slot after cur_index.
NextSlot_NoWrap == cur_index + 1
NextSlot_Same == cur_index
NextSlot == IF cur_index + 1 >= max_time THEN 0 ELSE cur_index + 1

AddToTimeOutList_KeepSlot(index) ==
  /\ time_out_event_list' = time_out_event_list \o TimeRoundVector[index]
  /\ UNCHANGED TimeRoundVector
AddToTimeOutList_DropList(index) ==
  /\ time_out_event_list' = TimeRoundVector[index]
  /\ TimeRoundVector' = [TimeRoundVector EXCEPT ![index] = << >>]
\* AddToTimeOutList: splice the slot's list to the end of the time-out list.
AddToTimeOutList(index) ==
  /\ time_out_event_list' = time_out_event_list \o TimeRoundVector[index]
  /\ TimeRoundVector' = [TimeRoundVector EXCEPT ![index] = << >>]

Sweep_StepFirst ==
  /\ pc = "sweep"
  /\ diff_time > 0
  /\ AddToTimeOutList(NextSlot)
  /\ cur_index' = NextSlot
  /\ diff_time' = diff_time - 1
  /\ UNCHANGED <<pc, lag, itemVars, clock_sets>>
\* One turn of while(diff_time--): AddToTimeOutList(cur_index) and step on.
Sweep ==
  /\ pc = "sweep"
  /\ diff_time > 0
  /\ AddToTimeOutList(cur_index)
  /\ cur_index' = NextSlot
  /\ diff_time' = diff_time - 1
  /\ UNCHANGED <<pc, lag, itemVars, clock_sets>>

\* The wheel has caught up: unlock Mutex.
SweepDone ==
  /\ pc = "sweep"
  /\ diff_time = 0
  /\ pc' = "handle"
  /\ UNCHANGED <<lag, diff_time, wheelVars, itemVars, clock_sets>>

\* HandleTimeOutList deletes one node; ~TimeRoundItem runs the callback of an
\* item that is still attached.
HandleTimeOut ==
  /\ pc = "handle"
  /\ time_out_event_list # << >>
  /\ LET it == Head(time_out_event_list) IN
       TimeRoundItem_destructor(it, it \in attached)
  /\ time_out_event_list' = Tail(time_out_event_list)
  /\ UNCHANGED <<pc, lag, diff_time, cur_index, TimeRoundVector, time_threod, age, clock_sets>>

\* The list is empty: sleep(1) and look at the clock again.
HandleDone ==
  /\ pc = "handle"
  /\ time_out_event_list = << >>
  /\ pc' = "read"
  /\ UNCHANGED <<lag, diff_time, wheelVars, itemVars, clock_sets>>

-----------------------------------------------------------------------------
(* Time *)

\* Ages are told apart up to here, which is longer than any item should stay.
AgeCap == max_time + 2 * MaxLag

\* A second passes.  The wheel, with the sweeps fun() has begun and not done,
\* keeps up with the clock to MaxLag.
Tick ==
  /\ lag + diff_time < MaxLag
  /\ lag' = lag + 1
  /\ age' = [it \in Items |->
               IF it \in InWheel \cup Listed /\ age[it] < AgeCap THEN age[it] + 1 ELSE age[it]]
  /\ UNCHANGED <<pc, diff_time, wheelVars, time_threod, attached, fired, clock_sets>>

\* gettimeofday is the wall clock: it can be set forward or back.
ClockSet ==
  /\ clock_sets < MaxSets
  /\ clock_sets' = clock_sets + 1
  /\ \E j \in Jumps : lag' = lag + j
  /\ UNCHANGED <<pc, diff_time, wheelVars, itemVars>>

-----------------------------------------------------------------------------

TimerStep == ReadClock \/ LockWheel \/ Sweep \/ SweepDone \/ HandleTimeOut \/ HandleDone

Next ==
  \/ \E it \in Items, time \in Thresholds : AddTimeRoundItemNode(it, time)
  \/ \E it \in Items : SeparateTimer(it)
  \/ TimerStep
  \/ Tick
  \/ ClockSet

Spec == Init /\ [][Next]_vars

\* The timer thread runs and time passes.
FairSpec == Spec /\ WF_vars(TimerStep) /\ WF_vars(Tick)

-----------------------------------------------------------------------------
(* Properties *)

\* Slots the timer thread has still to sweep before it has swept slot i.
Distance(i) == (IF i >= cur_index THEN i - cur_index ELSE i - cur_index + max_time) + 1

\* An item is in one slot or in the time-out list, once, and no item in the
\* wheel has fired: AddToTimeOutList loses and duplicates nothing when it
\* splices a slot into the list.
ItemsOnce ==
  /\ IsInjective(time_out_event_list)
  /\ \A i \in Slots :
       /\ IsInjective(TimeRoundVector[i])
       /\ Range(TimeRoundVector[i]) \cap Listed = {}
       /\ \A j \in Slots \ {i} :
            Range(TimeRoundVector[i]) \cap Range(TimeRoundVector[j]) = {}
  /\ (InWheel \cup Listed) \cap fired = {}

\* Seconds an item that still needs d sweeps has waited, if it was added when
\* the wheel had just caught up with the clock.
Due(it, d) == Clamped(time_threod[it]) + 1 - d + lag + diff_time

\* While nobody sets the clock, the slot of an item tells when it expires,
\* wherever cur_index wraps and however the sweeps are grouped: an item d slots ahead has waited what is
\* due at that distance, less at most the MaxLag seconds by which the wheel
\* was behind the clock when AddTimeRoundItemNode computed its index; a listed
\* item may have been passed by the rest of the same group of sweeps.
OnSchedule ==
  clock_sets = 0 =>
    /\ \A i \in Slots : \A it \in Range(TimeRoundVector[i]) :
         age[it] \in Due(it, Distance(i)) - MaxLag .. Due(it, Distance(i))
    /\ \A it \in Listed :
         age[it] \in Clamped(time_threod[it]) + 1 + lag - MaxLag
                       .. Clamped(time_threod[it]) + lag + MaxLag

\* A connection is closed on time unless the clock is set: when the callback of an item with threshold
\* T (5 s for HTTP keep-alive) runs, at least T + 1 - MaxLag and at most
\* T + 2 * MaxLag seconds have passed since it was added.  With a timer thread
\* that is never more than a second late, that is T to T + 2.
FiresOnTime ==
  \A it \in fired :
    clock_sets = 0 /\ time_threod[it] > 0 =>
      age[it] \in Clamped(time_threod[it]) + 1 - MaxLag
                    .. Clamped(time_threod[it]) + 2 * MaxLag

\* An item leaves the wheel and the list only by expiring: its callback runs if
\* and only if nothing detached it before, in whatever order SeparateTimer,
\* the sweep and HandleTimeOutList come.
LeavesByExpiring ==
  [][\A it \in InWheel \cup Listed :
       \/ it \in (InWheel \cup Listed)'
       \/ it \in fired' <=> it \in attached]_vars

\* Every item added leaves the wheel, so an idle keep-alive connection that is
\* not detached is closed.
EventuallyExpires ==
  \A it \in Items : (it \in InWheel) ~> (it \notin InWheel \cup Listed)

=============================================================================

--------------------------- MODULE TimeRoundProofs --------------------------
(***************************************************************************)
(* The timing wheel, for any number of items and slots and any thresholds: *)
(* no item is lost, listed twice or fired while it is in the wheel, an     *)
(* item leaves only by expiring, and a callback runs on time.              *)
(*                                                                         *)
(* The slot of an item says how many sweeps it is away from expiring,      *)
(* lag + diff_time how many the timer thread owes the clock.  OnSchedule   *)
(* relates the two to the item's age; what it needs is that no second is   *)
(* dropped (KeepsUp), that fun() starts a group of sweeps only when it has *)
(* finished the last one, and that the time-out list is empty by then      *)
(* (Phases).                                                               *)
(***************************************************************************)
EXTENDS TimeRound, ListLemmas

\* What fun() has finished when it begins the next step.
Phases ==
  /\ pc \in {"read", "handle"} => diff_time = 0
  /\ pc \in {"read", "lock"} => time_out_event_list = << >>

IInv == TypeOK /\ ItemsOnce /\ Phases

\* While nobody sets the clock, the wheel is behind it and by MaxLag at most.
KeepsUp == clock_sets = 0 => lag >= 0 /\ lag + diff_time <= MaxLag

TInv == IInv /\ KeepsUp /\ OnSchedule /\ FiresOnTime

-----------------------------------------------------------------------------
(* The operators on slots *)

\* A threshold is cut to what the wheel can hold.
LEMMA ClampedRange ==
  ASSUME NEW time \in Int
  PROVE  /\ Clamped(time) \in Int /\ Clamped(time) <= max_time - 1
         /\ time > 0 => Clamped(time) >= 1
BY WheelAssumption DEF Clamped

\* AddTimeRoundItemNode puts an item into a slot of the wheel that is as many
\* sweeps ahead as its threshold says, one more for the current slot.
LEMMA SlotForFacts ==
  ASSUME TypeOK, NEW time \in Int, time > 0
  PROVE  SlotFor(time) \in Slots /\ Distance(SlotFor(time)) = Clamped(time) + 1
<1> DEFINE c == Clamped(time)
<1>1. c \in 1 .. max_time - 1 /\ max_time \in Nat /\ max_time > 1
  BY ClampedRange, WheelAssumption
<1>2. cur_index \in 0 .. max_time - 1
  BY DEF TypeOK, Slots
<1> HIDE DEF c
<1>3. (cur_index + c) % max_time =
        IF cur_index + c >= max_time THEN cur_index + c - max_time ELSE cur_index + c
  <2>1. CASE cur_index + c >= max_time
    <3>1. cur_index + c = 1 * max_time + (cur_index + c - max_time)
      BY <1>1, <1>2
    <3>2. cur_index + c - max_time \in 0 .. max_time - 1
      BY <1>1, <1>2, <2>1
    <3>3. QED
      BY <1>1, <1>2, <2>1, <3>1, <3>2
  <2>2. CASE cur_index + c < max_time
    BY <1>1, <1>2, <2>2
  <2>3. QED
    BY <1>1, <1>2, <2>1, <2>2
<1>4. QED
  BY <1>1, <1>2, <1>3 DEF SlotFor, Slots, Distance, c

\* The next slot is a slot; every slot but the one that is left comes one sweep
\* nearer.
LEMMA NextSlotFacts ==
  ASSUME TypeOK
  PROVE  /\ NextSlot \in Slots
         /\ Distance(cur_index) = 1
         /\ \A i \in Slots : Distance(i) \in 1 .. max_time
         /\ cur_index' = NextSlot =>
              \A i \in Slots \ {cur_index} : Distance(i)' = Distance(i) - 1
<1>1. cur_index \in 0 .. max_time - 1 /\ max_time \in Nat /\ max_time > 1
  BY WheelAssumption DEF TypeOK, Slots
<1>2. QED
  BY <1>1 DEF NextSlot, Slots, Distance

-----------------------------------------------------------------------------
(* What the steps do to the wheel and the list *)

\* AddTimeRoundItemNode with a threshold above 0.
LEMMA AddEffect ==
  ASSUME TypeOK, NEW it \in Items, NEW time \in Thresholds,
         AddTimeRoundItemNode(it, time), time > 0
  PROVE  /\ TimeRoundVector' \in [Slots -> Seq(Items)]
         /\ it \notin InWheel \cup Listed
         /\ Range(TimeRoundVector'[SlotFor(time)]) = Range(TimeRoundVector[SlotFor(time)]) \cup {it}
         /\ IsInjective(TimeRoundVector[SlotFor(time)]) => IsInjective(TimeRoundVector'[SlotFor(time)])
         /\ \A i \in Slots \ {SlotFor(time)} : TimeRoundVector'[i] = TimeRoundVector[i]
         /\ InWheel' = InWheel \cup {it} /\ Listed' = Listed
<1>1. time \in Int /\ SlotFor(time) \in Slots
  BY WheelAssumption, SlotForFacts
<1>2. /\ TimeRoundVector' =
           [TimeRoundVector EXCEPT ![SlotFor(time)] = Append(TimeRoundVector[SlotFor(time)], it)]
      /\ it \notin InWheel \cup Listed /\ time_out_event_list' = time_out_event_list
  <2>1. ~ (time <= 0)
    BY <1>1
  <2>2. QED
    BY <2>1, Zenon DEF AddTimeRoundItemNode
<1>3. TimeRoundVector \in [Slots -> Seq(Items)]
  BY DEF TypeOK
<1> DEFINE s == SlotFor(time)
           l == TimeRoundVector[s]
<1>4. l \in Seq(Items)
  BY <1>1, <1>3
<1>5. it \notin Range(l)
  BY <1>1, <1>2 DEF InWheel
<1>6. /\ Append(l, it) \in Seq(Items) /\ Range(Append(l, it)) = Range(l) \cup {it}
      /\ IsInjective(l) => IsInjective(Append(l, it))
  BY <1>4, <1>5, AppendList
<1>7. TimeRoundVector' \in [Slots -> Seq(Items)] /\ TimeRoundVector'[s] = Append(l, it)
      /\ \A i \in Slots \ {s} : TimeRoundVector'[i] = TimeRoundVector[i]
  BY <1>1, <1>2, <1>3, <1>6
<1>8. InWheel' = InWheel \cup {it} /\ Listed' = Listed
  BY <1>1, <1>2, <1>6, <1>7 DEF InWheel, Listed
<1>9. QED
  BY <1>2, <1>6, <1>7, <1>8

\* A turn of fun()'s loop: the current slot goes to the end of the list.
LEMMA SweepEffect ==
  ASSUME TypeOK, Sweep
  PROVE  /\ TimeRoundVector' \in [Slots -> Seq(Items)] /\ time_out_event_list' \in Seq(Items)
         /\ TimeRoundVector'[cur_index] = << >>
         /\ \A i \in Slots \ {cur_index} : TimeRoundVector'[i] = TimeRoundVector[i]
         /\ Listed' = Listed \cup Range(TimeRoundVector[cur_index])
         /\ ItemsOnce => IsInjective(time_out_event_list')
         /\ InWheel' \cup Listed' = InWheel \cup Listed
<1> DEFINE l == TimeRoundVector[cur_index]
<1>1. /\ TimeRoundVector \in [Slots -> Seq(Items)] /\ cur_index \in Slots
      /\ l \in Seq(Items) /\ time_out_event_list \in Seq(Items)
  BY DEF TypeOK
<1>2. /\ time_out_event_list' = time_out_event_list \o l
      /\ TimeRoundVector' = [TimeRoundVector EXCEPT ![cur_index] = << >>]
  BY DEF Sweep, AddToTimeOutList
<1>3. /\ time_out_event_list' \in Seq(Items) /\ Listed' = Listed \cup Range(l)
      /\ IsInjective(time_out_event_list) /\ IsInjective(l) /\ Listed \cap Range(l) = {}
           => IsInjective(time_out_event_list')
  BY <1>1, <1>2, ConcatList DEF Listed
<1>4. /\ TimeRoundVector' \in [Slots -> Seq(Items)] /\ TimeRoundVector'[cur_index] = << >>
      /\ \A i \in Slots \ {cur_index} : TimeRoundVector'[i] = TimeRoundVector[i]
  <2>1. << >> \in Seq(Items)
    OBVIOUS
  <2>2. QED
    BY <1>1, <1>2, <2>1
<1>5. InWheel' \cup Listed' = InWheel \cup Listed
  BY <1>1, <1>3, <1>4, EmptyList DEF InWheel
<1>6. ItemsOnce => IsInjective(time_out_event_list')
  BY <1>1, <1>3 DEF ItemsOnce
<1>7. QED
  BY <1>3, <1>4, <1>5, <1>6

\* HandleTimeOutList: the first item leaves the list.
LEMMA HandleEffect ==
  ASSUME TypeOK, ItemsOnce, HandleTimeOut
  PROVE  LET it == Head(time_out_event_list) IN
         /\ it \in Items /\ it \in Listed /\ it \notin Listed' /\ it \notin InWheel
         /\ Listed = Listed' \cup {it} /\ InWheel' = InWheel
         /\ time_out_event_list' \in Seq(Items) /\ IsInjective(time_out_event_list')
         /\ fired' = IF it \in attached THEN fired \cup {it} ELSE fired
         /\ attached' = attached \ {it}
<1> DEFINE it == Head(time_out_event_list)
<1>1. /\ time_out_event_list \in Seq(Items) /\ time_out_event_list # << >>
      /\ time_out_event_list' = Tail(time_out_event_list)
      /\ TimeRoundVector' = TimeRoundVector
      /\ TimeRoundItem_destructor(it, it \in attached)
  BY DEF TypeOK, HandleTimeOut
<1>2. IsInjective(time_out_event_list)
  BY DEF ItemsOnce
<1>3. /\ Tail(time_out_event_list) \in Seq(Items) /\ it \in Items /\ it \in Listed
      /\ Listed = Range(Tail(time_out_event_list)) \cup {it}
      /\ IsInjective(Tail(time_out_event_list)) /\ it \notin Range(Tail(time_out_event_list))
  BY <1>1, <1>2, TailList DEF Listed
<1>4. it \notin InWheel
  BY <1>3 DEF ItemsOnce, InWheel
<1>5. InWheel' = InWheel /\ Listed' = Range(Tail(time_out_event_list))
  BY <1>1 DEF InWheel, Listed
<1>6. QED
  BY <1>1, <1>3, <1>4, <1>5 DEF TimeRoundItem_destructor

-----------------------------------------------------------------------------
(* Type correctness, and every item in one place *)

\* The invariant holds when the wheel is built.
LEMMA InitIInv == Init => IInv
<1> SUFFICES ASSUME Init PROVE IInv
  OBVIOUS
<1>1. TypeOK
  <2>1. << >> \in Seq(Items) /\ 0 \in Slots /\ 0 \in 0 .. max_time - 1
    BY WheelAssumption DEF Slots
  <2>2. QED
    BY <2>1 DEF Init, TypeOK
<1>2. ItemsOnce /\ Phases
  BY EmptyList DEF Init, ItemsOnce, Phases, InWheel, Listed
<1>3. QED
  BY <1>1, <1>2 DEF IInv

\* The invariant is preserved by adding an item.
LEMMA AddIInv ==
  ASSUME IInv, NEW it \in Items, NEW time \in Thresholds, AddTimeRoundItemNode(it, time)
  PROVE  IInv'
<1> USE DEF IInv
<1>0. time \in Int
  BY WheelAssumption
<1>1. /\ time_threod' \in [Items -> Int] /\ age' \in [Items -> Nat]
      /\ UNCHANGED <<pc, lag, diff_time, cur_index, time_out_event_list, clock_sets>>
  BY <1>0 DEF AddTimeRoundItemNode, TypeOK
<1>2. CASE time <= 0
  <2>1. /\ UNCHANGED TimeRoundVector /\ it \notin InWheel \cup Listed
        /\ fired' = fired \cup {it} /\ attached' = attached \ {it}
    BY <1>2 DEF AddTimeRoundItemNode, TimeRoundItem_destructor
  <2>2. TypeOK'
    BY <1>1, <2>1 DEF TypeOK
  <2>3. ItemsOnce' /\ Phases'
    <3>1. InWheel' = InWheel /\ Listed' = Listed
      BY <1>1, <2>1 DEF InWheel, Listed
    <3>2. (InWheel' \cup Listed') \cap fired' = {}
      BY <2>1, <3>1 DEF ItemsOnce
    <3>3. QED
      BY <1>1, <2>1, <3>1, <3>2 DEF ItemsOnce, Phases
  <2>4. QED
    BY <2>2, <2>3
<1>3. CASE time > 0
  <2>1. attached' = attached \cup {it} /\ fired' = fired \ {it}
    <3>1. ~ (time <= 0)
      BY <1>0, <1>3
    <3>2. QED
      BY <3>1, Zenon DEF AddTimeRoundItemNode
  <2>2. SlotFor(time) \in Slots
    BY <1>0, <1>3, SlotForFacts
  <2>3. TypeOK'
    BY <1>1, <1>3, <2>1, AddEffect DEF TypeOK
  <2>4. ItemsOnce'
    <3>1. ASSUME NEW i \in Slots
          PROVE  /\ IsInjective(TimeRoundVector'[i])
                 /\ Range(TimeRoundVector'[i]) \subseteq Range(TimeRoundVector[i]) \cup {it}
                 /\ i # SlotFor(time) => it \notin Range(TimeRoundVector'[i])
      <4>1. IsInjective(TimeRoundVector[i]) /\ it \notin Range(TimeRoundVector[i])
        BY <1>3, AddEffect DEF ItemsOnce, InWheel
      <4>2. CASE i = SlotFor(time)
        BY <1>3, <4>1, <4>2, AddEffect
      <4>3. CASE i # SlotFor(time)
        BY <1>3, <4>1, <4>3, AddEffect
      <4>4. QED
        BY <4>2, <4>3
    <3>2. it \notin Listed /\ Listed' = Listed /\ InWheel' = InWheel \cup {it} /\ it \notin InWheel
      BY <1>3, AddEffect
    <3>3. QED
      <4>1. IsInjective(time_out_event_list')
        BY <1>1 DEF ItemsOnce
      <4>2. ASSUME NEW i \in Slots
            PROVE  Range(TimeRoundVector'[i]) \cap Listed' = {}
        BY <3>1, <3>2 DEF ItemsOnce
      <4>3. ASSUME NEW i \in Slots, NEW j \in Slots \ {i}
            PROVE  Range(TimeRoundVector'[i]) \cap Range(TimeRoundVector'[j]) = {}
        <5>1. Range(TimeRoundVector[i]) \cap Range(TimeRoundVector[j]) = {}
          BY DEF ItemsOnce
        <5>2. it \notin Range(TimeRoundVector'[i]) \/ it \notin Range(TimeRoundVector'[j])
          BY <3>1
        <5>3. QED
          BY <3>1, <5>1, <5>2
      <4>4. (InWheel' \cup Listed') \cap fired' = {}
        BY <2>1, <3>2 DEF ItemsOnce
      <4>5. QED
        BY <3>1, <4>1, <4>2, <4>3, <4>4 DEF ItemsOnce
  <2>5. Phases'
    BY <1>1 DEF Phases
  <2>6. QED
    BY <2>3, <2>4, <2>5
<1>4. QED
  BY <1>0, <1>2, <1>3

\* The invariant is preserved by a turn of fun()'s loop.
LEMMA SweepIInv ==
  ASSUME IInv, Sweep
  PROVE  IInv'
<1> USE DEF IInv
<1>1. /\ UNCHANGED <<pc, lag, itemVars, clock_sets>> /\ pc = "sweep"
      /\ cur_index' = NextSlot /\ diff_time' = diff_time - 1 /\ diff_time > 0
  BY DEF Sweep
<1>2. TypeOK'
  <2>1. diff_time' \in 0 .. max_time - 1
    BY <1>1, WheelAssumption DEF TypeOK
  <2>2. QED
    BY <1>1, <2>1, SweepEffect, NextSlotFacts DEF TypeOK, itemVars
<1>3. ItemsOnce'
  <2>1. cur_index \in Slots
    BY DEF TypeOK
  <2>2. ASSUME NEW i \in Slots
        PROVE  /\ IsInjective(TimeRoundVector'[i])
               /\ Range(TimeRoundVector'[i]) \subseteq Range(TimeRoundVector[i])
               /\ Range(TimeRoundVector'[i]) \cap Range(TimeRoundVector[cur_index]) = {}
    BY <2>1, SweepEffect, EmptyList DEF ItemsOnce
  <2>3. \A i \in Slots : Range(TimeRoundVector'[i]) \cap Listed' = {}
    BY <2>2, SweepEffect DEF ItemsOnce
  <2>4. (InWheel' \cup Listed') \cap fired' = {}
    BY <1>1, SweepEffect DEF ItemsOnce, itemVars
  <2>5. IsInjective(time_out_event_list')
    BY SweepEffect
  <2>6. QED
    BY <2>2, <2>3, <2>4, <2>5 DEF ItemsOnce
<1>4. Phases'
  BY <1>1 DEF Phases
<1>5. QED
  BY <1>2, <1>3, <1>4

\* The invariant is preserved when an item leaves the time-out list.
LEMMA HandleIInv ==
  ASSUME IInv, HandleTimeOut
  PROVE  IInv'
<1> USE DEF IInv
<1>1. /\ UNCHANGED <<pc, lag, diff_time, cur_index, TimeRoundVector, time_threod, age, clock_sets>>
      /\ pc = "handle"
  BY DEF HandleTimeOut
<1>2. TypeOK'
  BY <1>1, HandleEffect DEF TypeOK
<1>3. ItemsOnce'
  BY <1>1, HandleEffect DEF ItemsOnce
<1>4. Phases'
  BY <1>1 DEF Phases
<1>5. QED
  BY <1>2, <1>3, <1>4

\* The invariant is preserved by the steps that leave the lists alone.
LEMMA OtherIInv ==
  ASSUME IInv,
         \/ \E it \in Items : SeparateTimer(it)
         \/ ReadClock \/ LockWheel \/ SweepDone \/ HandleDone
         \/ Tick \/ ClockSet \/ UNCHANGED vars
  PROVE  IInv'
<1> USE DEF IInv, wheelVars, itemVars
<1>1. UNCHANGED <<wheelVars, fired, time_threod>> /\ attached' \subseteq attached
  BY DEF SeparateTimer, reset, ReadClock, LockWheel, SweepDone, HandleDone, Tick, ClockSet, vars
<1>2. /\ lag' \in Int /\ clock_sets' \in Nat /\ diff_time' \in 0 .. max_time - 1
      /\ pc' \in {"read", "lock", "sweep", "handle"}
  <2>1. lag \in Int /\ clock_sets \in Nat /\ diff_time \in 0 .. max_time - 1
        /\ pc \in {"read", "lock", "sweep", "handle"} /\ max_time \in Nat /\ max_time > 1
    BY WheelAssumption DEF TypeOK
  <2>2. CASE ReadClock
    BY <2>1, <2>2 DEF ReadClock
  <2>3. CASE ClockSet
    BY <2>1, <2>3, WheelAssumption DEF ClockSet
  <2>4. CASE ~ ReadClock /\ ~ ClockSet
    BY <2>1, <2>4 DEF SeparateTimer, LockWheel, SweepDone, HandleDone, Tick, vars
  <2>5. QED
    BY <2>2, <2>3, <2>4
<1>3. age' \in [Items -> Nat]
  <2>1. CASE Tick
    <3>1. \A it \in Items : age[it] \in Nat
      BY DEF TypeOK
    <3>2. QED
      BY <2>1, <3>1 DEF Tick
  <2>2. CASE age' = age
    BY <2>2 DEF TypeOK
  <2>3. QED
    BY <2>1, <2>2 DEF SeparateTimer, ReadClock, LockWheel, SweepDone, HandleDone, ClockSet, vars
<1>4. TypeOK'
  BY <1>1, <1>2, <1>3 DEF TypeOK
<1>5. ItemsOnce'
  BY <1>1 DEF ItemsOnce, InWheel, Listed
<1>6. Phases'
  BY DEF Phases, SeparateTimer, ReadClock, LockWheel, SweepDone, HandleDone, Tick, ClockSet, vars
<1>7. QED
  BY <1>4, <1>5, <1>6

\* Every step of every thread preserves the invariant.
LEMMA NextIInv == IInv /\ [Next]_vars => IInv'
BY AddIInv, SweepIInv, HandleIInv, OtherIInv DEF Next, TimerStep

\* Every index of the wheel is a slot and every count has its range, whatever
\* the thresholds and however the clock is set.
THEOREM TypeCorrect == Spec => []TypeOK
<1>1. IInv => TypeOK
  BY DEF IInv
<1>2. QED
  BY <1>1, InitIInv, NextIInv, PTL DEF Spec

\* No item is ever in two slots, twice in one, in the list and the wheel at
\* once, or fired while it is in either.
THEOREM ItemsOnceCorrect == Spec => []ItemsOnce
<1>1. IInv => ItemsOnce
  BY DEF IInv
<1>2. QED
  BY <1>1, InitIInv, NextIInv, PTL DEF Spec

\* An item stays in the wheel or the list until its node is deleted, and then
\* its callback runs if and only if nothing has detached it.
THEOREM LeavesByExpiringCorrect == Spec => LeavesByExpiring
<1> DEFINE L == \A it \in InWheel \cup Listed :
                  \/ it \in (InWheel \cup Listed)'
                  \/ it \in fired' <=> it \in attached
<1>1. ASSUME IInv, [Next]_vars
      PROVE  L \/ UNCHANGED vars
  <2>0. TypeOK /\ ItemsOnce
    BY <1>1 DEF IInv
  <2>1. CASE \E it \in Items, time \in Thresholds : AddTimeRoundItemNode(it, time)
    <3>1. PICK it \in Items, time \in Thresholds : AddTimeRoundItemNode(it, time)
      BY <2>1
    <3>2. CASE time > 0
      BY <2>0, <3>1, <3>2, AddEffect
    <3>3. CASE time <= 0
      <4>1. UNCHANGED <<TimeRoundVector, time_out_event_list>>
        BY <3>1, <3>3 DEF AddTimeRoundItemNode
      <4>2. QED
        BY <4>1 DEF InWheel, Listed
    <3>4. time \in Int
      BY WheelAssumption
    <3>5. QED
      BY <3>2, <3>3, <3>4
  <2>2. CASE Sweep
    <3>1. InWheel' \cup Listed' = InWheel \cup Listed
      BY <2>0, <2>2, SweepEffect
    <3>2. QED
      BY <3>1
  <2>3. CASE HandleTimeOut
    <3>1. fired \cap Listed = {}
      BY <2>0 DEF ItemsOnce
    <3>2. QED
      BY <2>0, <2>3, <3>1, HandleEffect
  <2>4. CASE UNCHANGED wheelVars
    BY <2>4 DEF wheelVars, InWheel, Listed
  <2>5. QED
    BY <1>1, <2>1, <2>2, <2>3, <2>4
    DEF Next, TimerStep, SeparateTimer, ReadClock, LockWheel, SweepDone, HandleDone, Tick,
        ClockSet
<1>2. QED
  BY <1>1, InitIInv, NextIInv, PTL DEF Spec, LeavesByExpiring

-----------------------------------------------------------------------------
(* The schedule *)

\* Due and what it is made of are integers.
LEMMA DueFacts ==
  ASSUME TypeOK, NEW it \in Items
  PROVE  /\ age[it] \in Nat /\ Clamped(time_threod[it]) \in Int
         /\ Clamped(time_threod[it]) <= max_time - 1
         /\ lag \in Int /\ diff_time \in Nat /\ clock_sets \in Nat
         /\ MaxLag \in Nat \ {0} /\ max_time \in Nat /\ max_time > 1
         /\ \A d \in Int : Due(it, d) = Clamped(time_threod[it]) + 1 - d + lag + diff_time
<1>1. time_threod[it] \in Int /\ age[it] \in Nat /\ lag \in Int /\ clock_sets \in Nat
  BY DEF TypeOK
<1>2. diff_time \in Nat /\ MaxLag \in Nat \ {0} /\ max_time \in Nat /\ max_time > 1
  BY WheelAssumption DEF TypeOK
<1>3. QED
  BY <1>1, <1>2, ClampedRange DEF Due

\* Everything the lists hold is an item.
LEMMA ListedItems ==
  ASSUME TypeOK
  PROVE  Listed \subseteq Items /\ \A i \in Slots : Range(TimeRoundVector[i]) \subseteq Items
<1>1. time_out_event_list \in Seq(Items) /\ \A i \in Slots : TimeRoundVector[i] \in Seq(Items)
  BY DEF TypeOK
<1>2. QED
  BY <1>1, RangeOfSeq DEF Listed

\* The schedule holds when the wheel is built.
LEMMA InitTInv == Init => TInv
<1> SUFFICES ASSUME Init PROVE TInv
  OBVIOUS
<1>1. IInv
  BY InitIInv
<1>2. KeepsUp
  BY WheelAssumption DEF Init, KeepsUp
<1>3. OnSchedule /\ FiresOnTime
  BY EmptyList DEF Init, OnSchedule, FiresOnTime, Listed
<1>4. QED
  BY <1>1, <1>2, <1>3 DEF TInv

\* A new item is due at the distance of its slot.
LEMMA AddSchedule ==
  ASSUME TInv, clock_sets = 0, IInv',
         NEW new \in Items, NEW time \in Thresholds, AddTimeRoundItemNode(new, time)
  PROVE  KeepsUp' /\ OnSchedule' /\ FiresOnTime'
<1> USE DEF TInv, IInv
<1>0. time \in Int
  BY WheelAssumption
<1>1. UNCHANGED <<pc, lag, diff_time, cur_index, time_out_event_list, clock_sets>>
  BY DEF AddTimeRoundItemNode
<1>2. /\ age'[new] = 0 /\ time_threod'[new] = time
      /\ \A it \in Items \ {new} : age'[it] = age[it] /\ time_threod'[it] = time_threod[it]
  BY DEF AddTimeRoundItemNode, TypeOK
<1>3. KeepsUp'
  BY <1>1 DEF KeepsUp
<1>4. \A i \in Slots : Distance(i)' = Distance(i) /\ Distance(i) \in Int
  BY <1>1, NextSlotFacts DEF Distance
<1>5. new \notin InWheel \cup Listed /\ Listed' = Listed
  BY <1>1 DEF AddTimeRoundItemNode, Listed
<1>6. \A i \in Slots : \A it \in Range(TimeRoundVector[i]) :
        /\ it \in Items \ {new}
        /\ (age[it] \in Due(it, Distance(i)) - MaxLag .. Due(it, Distance(i)))'
  <2>1. SUFFICES ASSUME NEW i \in Slots, NEW it \in Range(TimeRoundVector[i])
                 PROVE  /\ it \in Items \ {new}
                        /\ (age[it] \in Due(it, Distance(i)) - MaxLag .. Due(it, Distance(i)))'
    OBVIOUS
  <2>2. it \in Items \ {new}
    BY <1>5, ListedItems DEF InWheel
  <2>3. age[it] \in Due(it, Distance(i)) - MaxLag .. Due(it, Distance(i))
    BY DEF OnSchedule
  <2>4. Due(it, Distance(i))' = Due(it, Distance(i))
    BY <1>1, <1>2, <1>4, <2>2 DEF Due, Clamped
  <2>5. QED
    BY <1>2, <2>2, <2>3, <2>4
<1>7. \A it \in Listed :
        (age[it] \in Clamped(time_threod[it]) + 1 + lag - MaxLag
                       .. Clamped(time_threod[it]) + lag + MaxLag)'
  BY <1>1, <1>2, <1>5, ListedItems DEF OnSchedule, Clamped
<1>8. CASE time <= 0
  <2>1. TimeRoundVector' = TimeRoundVector /\ fired' = fired \cup {new}
    BY <1>8 DEF AddTimeRoundItemNode, TimeRoundItem_destructor
  <2>2. OnSchedule'
    BY <1>5, <1>6, <1>7, <2>1 DEF OnSchedule
  <2>3. FiresOnTime'
    BY <1>0, <1>1, <1>2, <1>8, <2>1 DEF FiresOnTime, TypeOK, Clamped
  <2>4. QED
    BY <1>3, <2>2, <2>3
<1>9. CASE time > 0
  <2>1. fired' = fired \ {new}
    <3>1. ~ (time <= 0)
      BY <1>0, <1>9
    <3>2. QED
      BY <3>1, Zenon DEF AddTimeRoundItemNode
  <2>2. PICK s \in Slots : s = SlotFor(time) /\ Distance(s) = Clamped(time) + 1
    BY <1>0, <1>9, SlotForFacts
  <2>3. (age[new] \in Due(new, Distance(s)) - MaxLag .. Due(new, Distance(s)))'
    <3>1. Due(new, Distance(s))' = lag + diff_time
      <4>1. Distance(s)' = Clamped(time) + 1 /\ Clamped(time) \in Int
        BY <1>0, <1>4, <2>2, ClampedRange
      <4>2. Clamped(time_threod[new])' = Clamped(time)
        BY <1>2 DEF Clamped
      <4>3. QED
        BY <1>1, <4>1, <4>2, DueFacts DEF Due
    <3>2. lag + diff_time \in 0 .. MaxLag
      BY DueFacts DEF KeepsUp
    <3>3. QED
      BY <1>2, <3>1, <3>2, WheelAssumption
  <2>4. OnSchedule'
    <3>1. ASSUME NEW i \in Slots, NEW it \in Range(TimeRoundVector'[i])
          PROVE  (age[it] \in Due(it, Distance(i)) - MaxLag .. Due(it, Distance(i)))'
      <4>1. it \in Range(TimeRoundVector[i]) \/ (it = new /\ i = s)
        <5>1. /\ Range(TimeRoundVector'[s]) = Range(TimeRoundVector[s]) \cup {new}
              /\ \A j \in Slots \ {s} : TimeRoundVector'[j] = TimeRoundVector[j]
          BY <1>9, <2>2, AddEffect
        <5>2. QED
          BY <3>1, <5>1
      <4>2. CASE it \in Range(TimeRoundVector[i])
        BY <1>6, <4>2
      <4>3. CASE it = new /\ i = s
        BY <2>3, <4>3
      <4>4. QED
        BY <4>1, <4>2, <4>3
    <3>2. QED
      BY <1>5, <1>7, <3>1 DEF OnSchedule
  <2>5. FiresOnTime'
    BY <1>1, <1>2, <2>1 DEF FiresOnTime, TypeOK, Clamped
  <2>6. QED
    BY <1>3, <2>4, <2>5
<1>10. QED
  BY <1>0, <1>8, <1>9

\* A sweep moves the items of the current slot, whose time has come, to the
\* list and brings every other slot nearer by the second it accounts for.
LEMMA SweepSchedule ==
  ASSUME TInv, clock_sets = 0, Sweep
  PROVE  KeepsUp' /\ OnSchedule' /\ FiresOnTime'
<1> USE DEF TInv, IInv
<1>1. /\ UNCHANGED <<pc, lag, time_threod, attached, age, fired, clock_sets>>
      /\ cur_index' = NextSlot /\ diff_time' = diff_time - 1 /\ diff_time > 0
  BY DEF Sweep, itemVars
<1>2. KeepsUp'
  BY <1>1, WheelAssumption DEF KeepsUp, TypeOK
<1>3. FiresOnTime'
  BY <1>1 DEF FiresOnTime, Clamped
<1>4. ASSUME NEW i \in Slots, NEW it \in Range(TimeRoundVector'[i])
      PROVE  (age[it] \in Due(it, Distance(i)) - MaxLag .. Due(it, Distance(i)))'
  <2>1. i # cur_index /\ it \in Range(TimeRoundVector[i])
    BY <1>4, SweepEffect, EmptyList
  <2>2. it \in Items
    BY <2>1, ListedItems
  <2>3. age[it] \in Due(it, Distance(i)) - MaxLag .. Due(it, Distance(i))
    BY <2>1 DEF OnSchedule
  <2>4. Distance(i)' = Distance(i) - 1 /\ Distance(i) \in Int
    BY <1>1, <2>1, NextSlotFacts
  <2>5. Due(it, Distance(i))' = Due(it, Distance(i))
    <3>1. Clamped(time_threod[it])' = Clamped(time_threod[it])
      BY <1>1 DEF Clamped
    <3>2. QED
      BY <1>1, <2>2, <2>4, <3>1, DueFacts DEF Due
  <2>6. QED
    BY <1>1, <2>3, <2>5
<1>5. ASSUME NEW it \in Listed'
      PROVE  (age[it] \in Clamped(time_threod[it]) + 1 + lag - MaxLag
                            .. Clamped(time_threod[it]) + lag + MaxLag)'
  <2>1. cur_index \in Slots /\ Distance(cur_index) = 1
    BY NextSlotFacts DEF TypeOK
  <2>2. it \in Items /\ (it \in Listed \/ it \in Range(TimeRoundVector[cur_index]))
    BY <1>5, <2>1, SweepEffect, ListedItems
  <2>3. CASE it \in Listed
    BY <1>1, <2>3 DEF OnSchedule, Clamped
  <2>4. CASE it \in Range(TimeRoundVector[cur_index])
    <3>1. age[it] \in Due(it, 1) - MaxLag .. Due(it, 1)
      BY <2>1, <2>4 DEF OnSchedule
    <3>2. lag + diff_time <= MaxLag /\ lag >= 0
      BY DEF KeepsUp
    <3>3. age[it] \in Clamped(time_threod[it]) + 1 + lag - MaxLag
                        .. Clamped(time_threod[it]) + lag + MaxLag
      BY <1>1, <2>2, <3>1, <3>2, DueFacts
    <3>4. QED
      BY <1>1, <3>3 DEF Clamped
  <2>5. QED
    BY <2>2, <2>3, <2>4
<1>6. OnSchedule'
  BY <1>4, <1>5 DEF OnSchedule
<1>7. QED
  BY <1>2, <1>3, <1>6

\* An item whose callback runs has been on the list.
LEMMA HandleSchedule ==
  ASSUME TInv, clock_sets = 0, HandleTimeOut
  PROVE  KeepsUp' /\ OnSchedule' /\ FiresOnTime'
<1> USE DEF TInv, IInv
<1>1. UNCHANGED <<pc, lag, diff_time, cur_index, TimeRoundVector, time_threod, age, clock_sets>>
  BY DEF HandleTimeOut
<1>2. KeepsUp'
  BY <1>1 DEF KeepsUp
<1>3. Listed' \subseteq Listed
  BY HandleEffect
<1>4. OnSchedule'
  BY <1>1, <1>3 DEF OnSchedule, Due, Distance, Clamped
<1>5. FiresOnTime'
  <2>1. SUFFICES ASSUME NEW it \in fired', clock_sets = 0, time_threod[it] > 0
                 PROVE  age[it] \in Clamped(time_threod[it]) + 1 - MaxLag
                                      .. Clamped(time_threod[it]) + 2 * MaxLag
    BY <1>1 DEF FiresOnTime, Clamped
  <2>2. CASE it \in fired
    BY <2>1, <2>2 DEF FiresOnTime
  <2>3. CASE it \notin fired
    <3>1. it \in Items /\ it \in Listed
      BY <2>1, <2>3, HandleEffect
    <3>2. age[it] \in Clamped(time_threod[it]) + 1 + lag - MaxLag
                        .. Clamped(time_threod[it]) + lag + MaxLag
      BY <3>1 DEF OnSchedule
    <3>3. lag + diff_time <= MaxLag /\ lag >= 0
      BY DEF KeepsUp
    <3>4. QED
      BY <3>1, <3>2, <3>3, DueFacts
  <2>4. QED
    BY <2>2, <2>3
<1>6. QED
  BY <1>2, <1>4, <1>5

\* A second passes: every waiting item is a second older and a second nearer.
LEMMA TickSchedule ==
  ASSUME TInv, clock_sets = 0, Tick
  PROVE  KeepsUp' /\ OnSchedule' /\ FiresOnTime'
<1> USE DEF TInv, IInv
<1>1. /\ lag + diff_time < MaxLag /\ lag' = lag + 1
      /\ UNCHANGED <<diff_time, cur_index, TimeRoundVector, time_out_event_list, time_threod,
                     fired, clock_sets>>
  BY DEF Tick, wheelVars
<1>2. KeepsUp'
  <2>1. lag >= 0 /\ lag \in Int /\ diff_time \in Int /\ MaxLag \in Int
    BY WheelAssumption DEF KeepsUp, TypeOK
  <2>2. QED
    BY <1>1, <2>1 DEF KeepsUp
<1>3. ASSUME NEW it \in Items
      PROVE  age'[it] = IF it \in InWheel \cup Listed /\ age[it] < AgeCap THEN age[it] + 1
                                                                       ELSE age[it]
  BY <1>3 DEF Tick
<1>4. lag >= 0 /\ lag + diff_time <= MaxLag /\ AgeCap = max_time + 2 * MaxLag
  BY DEF KeepsUp, AgeCap
<1>5. ASSUME NEW i \in Slots, NEW it \in Range(TimeRoundVector[i])
      PROVE  (age[it] \in Due(it, Distance(i)) - MaxLag .. Due(it, Distance(i)))'
  <2>1. it \in Items /\ it \in InWheel
    BY <1>5, ListedItems DEF InWheel
  <2>2. age[it] \in Due(it, Distance(i)) - MaxLag .. Due(it, Distance(i))
    BY <1>5 DEF OnSchedule
  <2>3. Distance(i)' = Distance(i) /\ Distance(i) \in 1 .. max_time
    BY <1>1, NextSlotFacts DEF Distance
  <2>4. Clamped(time_threod[it])' = Clamped(time_threod[it])
    BY <1>1 DEF Clamped
  <2>5. Due(it, Distance(i))' = Due(it, Distance(i)) + 1
    BY <1>1, <2>1, <2>3, <2>4, DueFacts DEF Due
  <2>6. age[it] < AgeCap
    BY <1>4, <2>1, <2>2, <2>3, DueFacts
  <2>7. age'[it] = age[it] + 1
    BY <1>3, <2>1, <2>6
  <2>8. Due(it, Distance(i)) \in Int /\ age[it] \in Int /\ MaxLag \in Int
    BY <2>1, <2>3, DueFacts
  <2>9. QED
    BY <2>2, <2>5, <2>7, <2>8
<1>6. ASSUME NEW it \in Listed
      PROVE  (age[it] \in Clamped(time_threod[it]) + 1 + lag - MaxLag
                            .. Clamped(time_threod[it]) + lag + MaxLag)'
  <2>1. it \in Items
    BY <1>6, ListedItems
  <2>2. age[it] \in Clamped(time_threod[it]) + 1 + lag - MaxLag
                      .. Clamped(time_threod[it]) + lag + MaxLag
    BY <1>6 DEF OnSchedule
  <2>3. Clamped(time_threod[it])' = Clamped(time_threod[it])
    BY <1>1 DEF Clamped
  <2>4. age[it] < AgeCap
    BY <1>4, <2>1, <2>2, DueFacts
  <2>5. age'[it] = age[it] + 1
    BY <1>3, <1>6, <2>1, <2>4
  <2>6. QED
    <3>1. /\ age[it] \in Int /\ Clamped(time_threod[it]) \in Int /\ lag \in Int
          /\ MaxLag \in Int
      BY <2>1, DueFacts
    <3>2. QED
      BY <1>1, <2>2, <2>3, <2>5, <3>1
<1>7. OnSchedule'
  <2>1. Listed' = Listed
    BY <1>1 DEF Listed
  <2>2. QED
    BY <1>1, <1>5, <1>6, <2>1 DEF OnSchedule
<1>8. FiresOnTime'
  <2>1. \A it \in fired : it \in Items /\ age'[it] = age[it]
    BY <1>3 DEF ItemsOnce, TypeOK
  <2>2. QED
    BY <1>1, <2>1 DEF FiresOnTime, Clamped
<1>9. QED
  BY <1>2, <1>7, <1>8

\* The remaining steps of the timer thread pass the seconds on from the clock to
\* the sweeps that are owed; none is dropped while the wheel is less than a
\* turn behind.
LEMMA OtherSchedule ==
  ASSUME TInv, clock_sets = 0, MaxLag < max_time,
         \/ \E it \in Items : SeparateTimer(it)
         \/ ReadClock \/ LockWheel \/ SweepDone \/ HandleDone \/ UNCHANGED vars
  PROVE  KeepsUp' /\ OnSchedule' /\ FiresOnTime'
<1> USE DEF TInv, IInv
<1>1. UNCHANGED <<cur_index, TimeRoundVector, time_out_event_list, time_threod, age, fired, clock_sets>>
  BY DEF SeparateTimer, ReadClock, LockWheel, SweepDone, HandleDone, vars, wheelVars, itemVars
<1>2. FiresOnTime'
  BY <1>1 DEF FiresOnTime, Clamped
<1>3. CASE UNCHANGED <<lag, diff_time>>
  BY <1>1, <1>2, <1>3 DEF KeepsUp, OnSchedule, Listed, Due, Distance, Clamped
<1>4. CASE ReadClock
  <2>1. lag \in Int /\ MaxLag \in Int /\ max_time \in Int
    BY WheelAssumption DEF TypeOK
  <2>2. diff_time = 0 /\ time_out_event_list = << >>
    BY <1>4 DEF ReadClock, Phases
  <2>3. diff_time' = lag /\ lag' = 0
    BY <1>4, <2>1, <2>2 DEF ReadClock, KeepsUp
  <2>4. KeepsUp'
    BY <1>1, <2>1, <2>2, <2>3 DEF KeepsUp
  <2>5. Listed' = {}
    BY <1>1, <2>2, EmptyList DEF Listed
  <2>6. ASSUME NEW i \in Slots, NEW it \in Range(TimeRoundVector[i])
        PROVE  (age[it] \in Due(it, Distance(i)) - MaxLag .. Due(it, Distance(i)))'
    <3>1. it \in Items
      BY <2>6, ListedItems
    <3>2. age[it] \in Due(it, Distance(i)) - MaxLag .. Due(it, Distance(i))
      BY <2>6 DEF OnSchedule
    <3>3. Distance(i)' = Distance(i) /\ Distance(i) \in Int
      BY <1>1, NextSlotFacts DEF Distance
    <3>4. Clamped(time_threod[it])' = Clamped(time_threod[it])
      BY <1>1 DEF Clamped
    <3>5. Due(it, Distance(i))' = Due(it, Distance(i))
      BY <2>1, <2>2, <2>3, <3>1, <3>3, <3>4, DueFacts DEF Due
    <3>6. QED
      BY <1>1, <3>2, <3>5
  <2>7. OnSchedule'
    BY <1>1, <2>5, <2>6 DEF OnSchedule
  <2>8. QED
    BY <1>2, <2>4, <2>7
<1>5. QED
  BY <1>3, <1>4 DEF SeparateTimer, LockWheel, SweepDone, HandleDone, vars

\* Every step keeps the schedule, until the clock is set.
LEMMA NextTInv ==
  ASSUME MaxLag < max_time, TInv, [Next]_vars
  PROVE  TInv'
<1>1. IInv'
  BY NextIInv DEF TInv
<1>2. CASE clock_sets' # 0
  BY <1>1, <1>2 DEF TInv, KeepsUp, OnSchedule, FiresOnTime
<1>3. CASE clock_sets' = 0
  <2>1. clock_sets = 0 /\ ~ ClockSet
    <3>1. clock_sets \in Nat
      BY DEF TInv, IInv, TypeOK
    <3>2. ~ ClockSet
      BY <1>3, <3>1 DEF ClockSet
    <3>3. clock_sets' = clock_sets
      BY <3>2, Zenon
      DEF Next, TimerStep, AddTimeRoundItemNode, SeparateTimer, ReadClock, LockWheel, Sweep,
          SweepDone, HandleTimeOut, HandleDone, Tick, vars
    <3>4. QED
      BY <1>3, <3>2, <3>3
  <2>2. KeepsUp' /\ OnSchedule' /\ FiresOnTime'
    BY <1>1, <2>1, AddSchedule, SweepSchedule, HandleSchedule, TickSchedule, OtherSchedule
    DEF Next, TimerStep
  <2>3. QED
    BY <1>1, <2>2 DEF TInv
<1>4. QED
  BY <1>2, <1>3

\* While nobody sets the clock and the timer thread is less than a turn of the
\* wheel late, the slot of an item says when it expires, wherever cur_index
\* wraps and however the sweeps are grouped.
THEOREM OnScheduleCorrect ==
  ASSUME MaxLag < max_time
  PROVE  Spec => []OnSchedule
<1>1. TInv => OnSchedule
  BY DEF TInv
<1>2. TInv /\ [Next]_vars => TInv'
  BY NextTInv
<1>3. QED
  BY <1>1, <1>2, InitTInv, PTL DEF Spec

\* Under the same conditions a connection is closed when its keep-alive time is
\* over, at most MaxLag - 1 seconds early and 2 * MaxLag late.
THEOREM FiresOnTimeCorrect ==
  ASSUME MaxLag < max_time
  PROVE  Spec => []FiresOnTime
<1>1. TInv => FiresOnTime
  BY DEF TInv
<1>2. TInv /\ [Next]_vars => TInv'
  BY NextTInv
<1>3. QED
  BY <1>1, <1>2, InitTInv, PTL DEF Spec

=============================================================================

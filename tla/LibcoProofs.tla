----------------------------- MODULE LibcoProofs -----------------------------
(***************************************************************************)
(* libco's scheduler, for any number of coroutines, shared stacks,         *)
(* descriptors and slots of the wheel: co_swap loses no frames, every      *)
(* waiter is in one list and leaves it for a reason, and the epoll holds   *)
(* the registrations of the polls that are waiting; its hooks never block  *)
(* the thread on a descriptor they manage, and report all they write.      *)
(*                                                                         *)
(* StackIntact speaks of the coroutine that runs.  What makes it inductive *)
(* is where the frames of all the others are: on the stack, for the one    *)
(* that was there last, and in its copy for any other (Frames).            *)
(*                                                                         *)
(* The hooked system calls are the other half of libco, with constants and *)
(* variables of their own.  NeverBlocksManaged needs that a managed        *)
(* descriptor is in the table as well as non-blocking; WritesAccounted is  *)
(* inductive as it stands, once sums are understood.                       *)
(***************************************************************************)
EXTENDS CoPoll, Hooks, ListLemmas

-----------------------------------------------------------------------------
(* Lists *)

\* RemoveFromLink takes the items out and leaves the others in their order.
LEMMA WithoutSteps ==
  ASSUME NEW X, NEW list \in Seq(X), NEW S
  PROVE  \E f : /\ f = [n \in 0 .. Len(list) |->
                          IF n = 0 THEN << >>
                          ELSE IF list[n] \in S THEN f[n - 1] ELSE Append(f[n - 1], list[n])]
                /\ Without(list, S) = f[Len(list)]
<1> DEFINE Step(n, f) == IF n = 0 THEN << >>
                         ELSE IF list[n] \in S THEN f[n - 1] ELSE Append(f[n - 1], list[n])
           Def(m, f) == f = [n \in 0 .. m |-> Step(n, f)]
           Has == {m \in Nat : \E f : Def(m, f)}
<1>1. 0 \in Has
  <2> DEFINE g == [n \in 0 .. 0 |-> << >>]
  <2>1. Def(0, g)
    OBVIOUS
  <2> HIDE DEF Def
  <2>2. QED
    BY <2>1
<1>2. ASSUME NEW m \in Nat, m \in Has
      PROVE  m + 1 \in Has
  <2> HIDE DEF Def
  <2>1. PICK f : Def(m, f)
    BY <1>2
  <2> DEFINE g == [n \in 0 .. m + 1 |-> IF n <= m THEN f[n] ELSE Step(n, f)]
  <2> HIDE DEF Step
  <2>2. f = [n \in 0 .. m |-> Step(n, f)]
    BY <2>1 DEF Def
  <2>3. \A n \in 0 .. m : f[n] = Step(n, f)
    BY <2>2, Zenon
  <2>4. \A n \in 0 .. m + 1 : g[n] = Step(n, f)
    <3> TAKE n \in 0 .. m + 1
    <3>1. CASE n \in 0 .. m
      BY <2>3, <3>1
    <3>2. CASE n = m + 1
      BY <3>2
    <3>3. QED
      BY <3>1, <3>2
  <2>5. \A n \in 0 .. m + 1 : Step(n, g) = Step(n, f)
    <3> TAKE n \in 0 .. m + 1
    <3>1. CASE n = 0
      BY <3>1 DEF Step
    <3>2. CASE n # 0
      <4>1. n - 1 \in 0 .. m + 1 /\ n - 1 <= m
        BY <3>2
      <4>2. g[n - 1] = f[n - 1]
        BY <4>1
      <4>3. QED
        BY <4>2 DEF Step
    <3>3. QED
      BY <3>1, <3>2
  <2> HIDE DEF g
  <2>6. g = [n \in 0 .. m + 1 |-> g[n]]
    BY DEF g
  <2>7. g = [n \in 0 .. m + 1 |-> Step(n, g)]
    BY <2>4, <2>5, <2>6
  <2>8. QED
    BY <2>7 DEF Def
<1>3. Len(list) \in Has
  <2> HIDE DEF Has
  <2>1. Nat \subseteq Has
    BY <1>1, <1>2, NatInductionSet
  <2>2. QED
    BY <2>1
<1>4. PICK f : Def(Len(list), f)
  <2> HIDE DEF Def
  <2>1. QED
    BY <1>3
<1>5. QED
  BY <1>4 DEF Without

\* What is left in the list.
LEMMA WithoutList ==
  ASSUME NEW X, NEW list \in Seq(X), NEW S
  PROVE  /\ Without(list, S) \in Seq(X)
         /\ Range(Without(list, S)) = Range(list) \ S
         /\ IsInjective(list) => IsInjective(Without(list, S))
<1>1. PICK f : /\ f = [n \in 0 .. Len(list) |->
                         IF n = 0 THEN << >>
                         ELSE IF list[n] \in S THEN f[n - 1] ELSE Append(f[n - 1], list[n])]
               /\ Without(list, S) = f[Len(list)]
  BY WithoutSteps
<1>2. /\ f[0] = << >>
      /\ \A n \in 1 .. Len(list) :
           f[n] = IF list[n] \in S THEN f[n - 1] ELSE Append(f[n - 1], list[n])
  <2>1. \A n \in 0 .. Len(list) :
          f[n] = IF n = 0 THEN << >>
                 ELSE IF list[n] \in S THEN f[n - 1] ELSE Append(f[n - 1], list[n])
    BY <1>1, Zenon
  <2>2. 0 \in 0 .. Len(list) /\ \A n \in 1 .. Len(list) : n \in 0 .. Len(list) /\ n # 0
    OBVIOUS
  <2>3. QED
    BY <2>1, <2>2, Zenon
<1> DEFINE Seen(n) == {list[i] : i \in 1 .. n}
           Fine(n) == /\ f[n] \in Seq(X) /\ Range(f[n]) = Seen(n) \ S
                      /\ IsInjective(list) => IsInjective(f[n])
           Has == {n \in Nat : n <= Len(list) => Fine(n)}
<1>3. 0 \in Has
  <2>1. Seen(0) = {}
    OBVIOUS
  <2> HIDE DEF Seen
  <2>2. Fine(0)
    BY <1>2, <2>1, EmptyList
  <2>3. QED
    BY <2>2
<1>4. ASSUME NEW n \in Nat, n \in Has
      PROVE  n + 1 \in Has
  <2> HIDE DEF Fine
  <2>1. SUFFICES ASSUME n + 1 <= Len(list) PROVE Fine(n + 1)
    OBVIOUS
  <2>2. Fine(n)
    <3>1. n <= Len(list)
      BY <2>1
    <3>2. QED
      BY <1>4, <3>1
  <2> DEFINE x == list[n + 1]
  <2>3. n + 1 \in 1 .. Len(list) /\ (n + 1) - 1 = n /\ x \in X
    BY <2>1
  <2>4. f[n + 1] = IF x \in S THEN f[n] ELSE Append(f[n], x)
    BY <1>2, <2>3
  <2>5. Seen(n + 1) = Seen(n) \cup {x}
    <3>1. 1 .. n + 1 = (1 .. n) \cup {n + 1}
      OBVIOUS
    <3>2. QED
      BY <3>1
  <2>6. IsInjective(list) => x \notin Seen(n)
    <3>1. \A i \in 1 .. n : i \in DOMAIN list /\ n + 1 \in DOMAIN list /\ i # n + 1
      BY <2>1, <2>3
    <3>2. QED
      BY <3>1 DEF IsInjective
  <2> HIDE DEF Seen, x
  <2>7. CASE x \in S
    BY <2>2, <2>4, <2>5, <2>7 DEF Fine
  <2>8. CASE x \notin S
    BY <2>2, <2>3, <2>4, <2>5, <2>6, <2>8, AppendList DEF Fine
  <2>9. QED
    BY <2>7, <2>8
<1>5. Fine(Len(list))
  <2> HIDE DEF Has, Fine
  <2>1. Nat \subseteq Has
    BY <1>3, <1>4, NatInductionSet
  <2>2. Len(list) \in Has /\ Len(list) <= Len(list)
    BY <2>1
  <2>3. QED
    BY <2>2 DEF Has
<1>6. Seen(Len(list)) = Range(list)
  BY DEF Range
<1>7. QED
  BY <1>1, <1>5, <1>6

-----------------------------------------------------------------------------
(* The call stack and the shared stacks *)

\* The thread's own stack is at the bottom; above it, once each, are the
\* coroutines that have been resumed and have not yielded.
CallStack ==
  /\ pCallStack # << >> /\ Head(pCallStack) = Main
  /\ IsInjective(pCallStack)
  /\ Range(pCallStack) = {Main} \cup {co \in Coroutines : pc[co] = "run"}

Started(co) == pc[co] \notin {"none", "new"}

\* A shared stack belongs to the coroutine that ran on it last, and holds its
\* frames as they are; those of any other coroutine are in its copy.
Frames ==
  /\ \A s \in Stacks : occupy_co[s] # NoCo =>
       stack_mem[occupy_co[s]] = s /\ Started(occupy_co[s])
  /\ \A co \in Shared :
       /\ pc[co] # "none"
       /\ Started(co) =>
            /\ occupy_co[stack_mem[co]] # NoCo
            /\ occupy_co[stack_mem[co]] = co => memory[stack_mem[co]] = <<co, "now">>
            /\ occupy_co[stack_mem[co]] # co => save_buffer[co] = <<co, "now">>
  /\ Current \in Shared => occupy_co[stack_mem[Current]] = Current

SwapInv == SwapTypeOK /\ CallStack /\ Frames

\* The coroutine that runs.
LEMMA CurrentFacts ==
  ASSUME SwapInv
  PROVE  /\ Current \in Coroutines \cup {Main}
         /\ Current \in Coroutines => pc[Current] = "run"
<1>1. pCallStack \in Seq(Coroutines \cup {Main}) /\ pCallStack # << >>
  BY DEF SwapInv, SwapTypeOK, CallStack
<1>2. Current \in Range(pCallStack) /\ Current \in Coroutines \cup {Main}
  BY <1>1, FrontList DEF Current
<1>3. QED
  BY <1>2, SwapAssumption DEF SwapInv, CallStack

\* A push on the call stack.
LEMMA PushCall ==
  ASSUME SwapInv, NEW co \in Coroutines, pc[co] # "run",
         pCallStack' = Append(pCallStack, co), pc' = [pc EXCEPT ![co] = "run"]
  PROVE  /\ CallStack' /\ Current' = co
         /\ pCallStack' \in Seq(Coroutines \cup {Main})
<1>1. /\ pCallStack \in Seq(Coroutines \cup {Main}) /\ pCallStack # << >>
      /\ co \in Coroutines \cup {Main} /\ DOMAIN pc = Coroutines
  BY DEF SwapInv, SwapTypeOK, CallStack
<1>2. co \notin Range(pCallStack)
  BY SwapAssumption DEF SwapInv, CallStack
<1>3. /\ pCallStack' \in Seq(Coroutines \cup {Main}) /\ pCallStack' # << >>
      /\ Range(pCallStack') = Range(pCallStack) \cup {co}
      /\ IsInjective(pCallStack')
  BY <1>1, <1>2, AppendList DEF SwapInv, CallStack
<1>4. Head(pCallStack') = Head(pCallStack) /\ Last(pCallStack') = co
  BY <1>1 DEF Last
<1>5. {c \in Coroutines : pc'[c] = "run"} = {c \in Coroutines : pc[c] = "run"} \cup {co}
  BY <1>1
<1>6. QED
  BY <1>3, <1>4, <1>5 DEF SwapInv, CallStack, Current

\* A pop: the coroutine below runs again, or the thread's own stack.
LEMMA PopCall ==
  ASSUME SwapInv, NEW co \in Coroutines, Current = co,
         pCallStack' = Front(pCallStack),
         NEW how \in {"yield", "poll", "cond", "end"}, pc' = [pc EXCEPT ![co] = how]
  PROVE  /\ CallStack' /\ Current' = Last(Front(pCallStack)) /\ Current' # co
         /\ Current' \in Coroutines \cup {Main}
         /\ Current' \in Coroutines => pc[Current'] = "run"
         /\ pCallStack' \in Seq(Coroutines \cup {Main})
<1>1. /\ pCallStack \in Seq(Coroutines \cup {Main}) /\ pCallStack # << >>
      /\ DOMAIN pc = Coroutines /\ how # "run"
  BY DEF SwapInv, SwapTypeOK, CallStack
<1>2. /\ Last(pCallStack) = co /\ Head(pCallStack) = Main /\ co # Main
      /\ IsInjective(pCallStack)
      /\ Range(pCallStack) = {Main} \cup {c \in Coroutines : pc[c] = "run"}
  BY SwapAssumption DEF SwapInv, CallStack, Current
<1>3. /\ pCallStack' \in Seq(Coroutines \cup {Main}) /\ pCallStack' # << >>
      /\ Head(pCallStack') = Main /\ IsInjective(pCallStack')
      /\ Range(pCallStack') = Range(pCallStack) \ {co}
  BY <1>1, <1>2, FrontList
<1>4. {c \in Coroutines : pc'[c] = "run"} = {c \in Coroutines : pc[c] = "run"} \ {co}
  BY <1>1
<1>5. CallStack'
  BY <1>2, <1>3, <1>4 DEF CallStack
<1>6. Last(pCallStack') \in Range(pCallStack')
  BY <1>3, FrontList
<1>7. Current' = Last(pCallStack') /\ Current' \in Range(pCallStack)  /\ Current' # co
  BY <1>3, <1>6 DEF Current
<1>8. QED
  BY <1>2, <1>3, <1>5, <1>7, SwapAssumption

\* What co_swap does to the frames: the new stack gets those of the coroutine
\* that runs next, the copy of the one it displaces those it had there.
LEMMA SwapEffect ==
  ASSUME SwapInv, NEW p \in Coroutines, p # Current, p \in Shared, co_swap(Current, p)
  PROVE  LET s   == stack_mem[p]
             occ == occupy_co[s]
         IN  /\ s \in Stacks /\ occ \in Coroutines \cup {NoCo}
             /\ occupy_co' = [occupy_co EXCEPT ![s] = p]
             /\ memory' = [memory EXCEPT ![s] = <<p, "now">>]
             /\ occ \in {NoCo, p} => save_buffer' = BuffersAtSwap(Current)
             /\ occ \notin {NoCo, p} =>
                  save_buffer' = [BuffersAtSwap(Current) EXCEPT ![occ] = <<occ, "now">>]
<1> DEFINE s == stack_mem[p]
           occ == occupy_co[s]
           buf == BuffersAtSwap(Current)
<1>1. s \in Stacks /\ occ \in Coroutines \cup {NoCo} /\ s # 0
  BY DEF SwapInv, SwapTypeOK, Shared, Stacks
<1>2. occ # NoCo => Started(occ) /\ stack_mem[occ] = s /\ occ \in Shared /\ memory[s] = <<occ, "now">>
  BY <1>1 DEF SwapInv, Frames, Shared
<1>3. MemoryAtSwap(Current) = memory
  <2>1. CASE Current \in Shared
    <3>1. /\ Current \in Coroutines /\ Started(Current) /\ stack_mem[Current] \in Stacks
          /\ memory[stack_mem[Current]] = <<Current, "now">>
      BY <2>1, CurrentFacts DEF SwapInv, SwapTypeOK, Frames, Shared, Started, Stacks
    <3>2. memory = [memory EXCEPT ![stack_mem[Current]] = <<Current, "now">>]
      BY <3>1 DEF SwapInv, SwapTypeOK
    <3>3. QED
      BY <2>1, <3>2 DEF MemoryAtSwap
  <2>2. CASE Current \notin Shared
    BY <2>2 DEF MemoryAtSwap
  <2>3. QED
    BY <2>1, <2>2
<1>4. buf[p] = save_buffer[p]
  BY DEF BuffersAtSwap, SwapInv, SwapTypeOK
<1>5. pc[p] # "new" /\ occ # p => buf[p] = <<p, "now">> /\ buf[p] # Unsaved /\ occ # NoCo
  BY <1>1, <1>4, SwapAssumption DEF SwapInv, Frames, Started, Unsaved
<1>6. pc[p] # "new" /\ occ = p => memory[s] = <<p, "now">>
  BY <1>1, <1>2, SwapAssumption
<1>7. pc[p] = "new" => occ # p
  BY <1>2, SwapAssumption DEF Started
<1> HIDE DEF s, occ, buf
<1>8. /\ occupy_co' = [occupy_co EXCEPT ![s] = p]
      /\ save_buffer' = IF occ \notin {NoCo, p} THEN [buf EXCEPT ![occ] = memory[s]] ELSE buf
      /\ memory' = CASE pc[p] = "new" -> [memory EXCEPT ![s] = <<p, "now">>]
                     [] occ \notin {NoCo, p} /\ pc[p] # "new" /\ buf[p] # Unsaved ->
                          [memory EXCEPT ![s] = buf[p]]
                     [] OTHER -> memory
  BY <1>3 DEF co_swap, save_stack_buffer, s, occ, buf
<1>9. memory' = [memory EXCEPT ![s] = <<p, "now">>]
  <2>1. CASE pc[p] = "new"
    BY <1>8, <2>1
  <2>2. CASE pc[p] # "new" /\ occ # p
    BY <1>5, <1>8, <2>2
  <2>3. CASE pc[p] # "new" /\ occ = p
    <3>1. memory' = memory
      BY <1>8, <2>3
    <3>2. memory = [memory EXCEPT ![s] = <<p, "now">>]
      BY <1>1, <1>6, <2>3 DEF SwapInv, SwapTypeOK
    <3>3. QED
      BY <3>1, <3>2
  <2>4. QED
    BY <2>1, <2>2, <2>3
<1>10. occ \notin {NoCo, p} => save_buffer' = [buf EXCEPT ![occ] = <<occ, "now">>]
  BY <1>2, <1>8
<1>11. occ \in {NoCo, p} => save_buffer' = buf
  BY <1>8
<1>12. QED
  BY <1>1, <1>8, <1>9, <1>10, <1>11 DEF s, occ, buf

\* co_swap keeps the frames of every coroutine: p runs next, and has started.
LEMMA SwapFrames ==
  ASSUME SwapInv, NEW p \in Coroutines \cup {Main}, p # Current, co_swap(Current, p),
         stack_mem' = stack_mem, Current' = p, DOMAIN pc' = Coroutines,
         \A c \in Coroutines : Started(c)' <=> Started(c) \/ c = p,
         \A c \in Coroutines : pc'[c] = "none" => pc[c] = "none"
  PROVE  /\ Frames'
         /\ occupy_co' \in [Stacks -> Coroutines \cup {NoCo}]
         /\ memory' \in [Stacks -> Images]
         /\ save_buffer' \in [Coroutines -> Images]
<1> DEFINE buf == BuffersAtSwap(Current)
<1>1. /\ stack_mem \in [Coroutines -> 0 .. count] /\ occupy_co \in [Stacks -> Coroutines \cup {NoCo}]
      /\ memory \in [Stacks -> Images] /\ save_buffer \in [Coroutines -> Images]
  BY DEF SwapInv, SwapTypeOK
<1>2. /\ Shared' = Shared /\ Shared \subseteq Coroutines /\ NoCo \notin Coroutines
      /\ \A c \in Shared : stack_mem[c] \in Stacks
      /\ \A c \in Coroutines : <<c, "now">> \in Images /\ <<c, "old">> \in Images
      /\ \A c \in Coroutines : stack_mem[c] # 0 => c \in Shared
      /\ 0 \notin Stacks
  BY <1>1, SwapAssumption DEF Shared, Stacks, Images
<1>3. /\ buf \in [Coroutines -> Images]
      /\ \A c \in Coroutines : c # Current => buf[c] = save_buffer[c]
  BY <1>1, <1>2 DEF BuffersAtSwap
<1>4. Current \in Shared => occupy_co[stack_mem[Current]] = Current /\ Started(Current)
  BY <1>2, CurrentFacts DEF SwapInv, Frames, Started
<1>5. /\ \A t \in Stacks : occupy_co[t] # NoCo =>
           stack_mem[occupy_co[t]] = t /\ Started(occupy_co[t])
      /\ \A co \in Shared :
           /\ pc[co] # "none"
           /\ Started(co) =>
                /\ occupy_co[stack_mem[co]] # NoCo
                /\ occupy_co[stack_mem[co]] = co => memory[stack_mem[co]] = <<co, "now">>
                /\ occupy_co[stack_mem[co]] # co => save_buffer[co] = <<co, "now">>
  BY DEF SwapInv, Frames
<1> HIDE DEF buf
<1>6. CASE p \notin Shared
  <2>1. occupy_co' = occupy_co /\ memory' = memory /\ save_buffer' = buf
    <3>1. MemoryAtSwap(Current) = memory
      <4>1. CASE Current \in Shared
        <5>1. memory = [memory EXCEPT ![stack_mem[Current]] = <<Current, "now">>]
          BY <1>1, <1>2, <1>4, <1>5, <4>1
        <5>2. QED
          BY <4>1, <5>1 DEF MemoryAtSwap
      <4>2. CASE Current \notin Shared
        BY <4>2 DEF MemoryAtSwap
      <4>3. QED
        BY <4>1, <4>2
    <3>2. QED
      BY <1>6, <3>1 DEF co_swap, buf
  <2>2. \A c \in Shared : Started(c)' => Started(c)
    BY <1>2, <1>6
  <2>3. \A t \in Stacks : (occupy_co[t] # NoCo =>
           stack_mem[occupy_co[t]] = t /\ Started(occupy_co[t]))'
    BY <1>1, <1>5, <2>1
  <2>4. ASSUME NEW c \in Shared
        PROVE  /\ pc'[c] # "none"
               /\ Started(c)' =>
                    /\ occupy_co'[stack_mem[c]] # NoCo
                    /\ occupy_co'[stack_mem[c]] = c => memory'[stack_mem[c]] = <<c, "now">>
                    /\ occupy_co'[stack_mem[c]] # c => save_buffer'[c] = <<c, "now">>
    BY <1>2, <1>3, <1>4, <1>5, <2>1, <2>2
  <2>5. Frames'
    BY <1>2, <1>6, <2>3, <2>4 DEF Frames
  <2>6. QED
    BY <1>1, <1>3, <2>1, <2>5
<1>7. CASE p \in Shared
  <2> DEFINE s == stack_mem[p]
             occ == occupy_co[s]
  <2>1. /\ s \in Stacks /\ occ \in Coroutines \cup {NoCo}
        /\ occupy_co' = [occupy_co EXCEPT ![s] = p]
        /\ memory' = [memory EXCEPT ![s] = <<p, "now">>]
        /\ occ \in {NoCo, p} => save_buffer' = buf
        /\ occ \notin {NoCo, p} => save_buffer' = [buf EXCEPT ![occ] = <<occ, "now">>]
    BY <1>2, <1>7, SwapEffect DEF buf
  <2> HIDE DEF s, occ
  <2>2. p \in Coroutines /\ Started(p)' /\ stack_mem[p] = s /\ occupy_co[s] = occ
    BY <1>2, <1>7 DEF s, occ
  <2>3. /\ occupy_co' \in [Stacks -> Coroutines \cup {NoCo}]
        /\ memory' \in [Stacks -> Images] /\ save_buffer' \in [Coroutines -> Images]
    BY <1>1, <1>2, <1>3, <2>1, <2>2
  <2>4. ASSUME NEW t \in Stacks, occupy_co'[t] # NoCo
        PROVE  (stack_mem[occupy_co[t]] = t /\ Started(occupy_co[t]))'
    <3>1. CASE t = s
      <4>1. occupy_co'[t] = p /\ pc'[p] \notin {"none", "new"} /\ stack_mem'[p] = t
        BY <1>1, <2>1, <2>2, <3>1 DEF Started
      <4>2. QED
        BY <4>1 DEF Started
    <3>2. CASE t # s
      <4>1. occupy_co'[t] = occupy_co[t] /\ occupy_co[t] \in Coroutines
        BY <1>1, <2>1, <2>4, <3>2
      <4>2. PICK c \in Coroutines : c = occupy_co[t]
        BY <4>1
      <4>3. stack_mem[c] = t /\ Started(c)'
        BY <1>5, <2>4, <4>1, <4>2
      <4>4. occupy_co'[t] = c /\ pc'[c] \notin {"none", "new"} /\ stack_mem'[c] = t
        BY <4>1, <4>2, <4>3 DEF Started
      <4>5. QED
        BY <4>4 DEF Started
    <3>3. QED
      BY <3>1, <3>2
  <2>5. ASSUME NEW c \in Shared, Started(c)'
        PROVE  /\ occupy_co'[stack_mem[c]] # NoCo
               /\ occupy_co'[stack_mem[c]] = c => memory'[stack_mem[c]] = <<c, "now">>
               /\ occupy_co'[stack_mem[c]] # c => save_buffer'[c] = <<c, "now">>
    <3>1. CASE c = p
      BY <1>1, <1>2, <2>1, <2>2, <3>1
    <3>2. CASE c # p /\ stack_mem[c] = s
      <4>1. Started(c) /\ occupy_co'[s] = p
        BY <1>1, <1>2, <2>1, <2>5, <3>2
      <4>2. CASE occ = c
        BY <1>2, <1>3, <2>1, <2>2, <3>2, <4>1, <4>2
      <4>3. CASE occ # c
        <5>1. c # Current /\ save_buffer[c] = <<c, "now">>
          BY <1>4, <1>5, <2>2, <3>2, <4>1, <4>3
        <5>2. buf[c] = <<c, "now">>
          BY <1>2, <1>3, <5>1
        <5>3. save_buffer'[c] = buf[c]
          BY <1>2, <1>3, <2>1, <4>3
        <5>4. QED
          BY <1>2, <2>2, <3>2, <4>1, <5>2, <5>3
      <4>4. QED
        BY <4>2, <4>3
    <3>3. CASE stack_mem[c] # s
      <4>1. /\ Started(c) /\ stack_mem[c] \in Stacks
            /\ occupy_co'[stack_mem[c]] = occupy_co[stack_mem[c]]
            /\ memory'[stack_mem[c]] = memory[stack_mem[c]]
        BY <1>1, <1>2, <2>1, <2>2, <2>5, <3>3
      <4>2. occ # c
        BY <1>2, <1>5, <2>1, <2>2, <3>3
      <4>3. save_buffer'[c] = buf[c]
        BY <1>2, <1>3, <2>1, <4>2
      <4>4. occupy_co[stack_mem[c]] # c => c # Current /\ buf[c] = <<c, "now">>
        BY <1>2, <1>3, <1>4, <1>5, <4>1
      <4>5. QED
        BY <1>5, <4>1, <4>3, <4>4
    <3>4. QED
      BY <3>1, <3>2, <3>3
  <2>6. \A c \in Shared : pc'[c] # "none"
    BY <1>2, <1>5
  <2>7. occupy_co'[stack_mem[p]] = p
    BY <1>1, <2>1, <2>2
  <2>8. Frames'
    BY <1>2, <2>4, <2>5, <2>6, <2>7 DEF Frames
  <2>9. QED
    BY <2>3, <2>8
<1>8. QED
  BY <1>6, <1>7

\* co_resume, of a coroutine that is new or waits.
LEMMA SwapResume ==
  ASSUME SwapInv, NEW co \in Coroutines, pc[co] \in {"new", "yield", "poll", "cond"},
         pc' = [pc EXCEPT ![co] = "run"], co_resume(co)
  PROVE  SwapInv' /\ Current' = co
<1>1. /\ pc[co] # "run" /\ pCallStack' = Append(pCallStack, co)
      /\ stack_mem' = stack_mem /\ alloc_idx' = alloc_idx /\ co_swap(Current, co)
  BY DEF co_resume
<1>2. CallStack' /\ Current' = co /\ pCallStack' \in Seq(Coroutines \cup {Main})
  BY <1>1, PushCall
<1>3. co # Current
  BY <1>1, CurrentFacts
<1>4. /\ pc' \in [Coroutines -> {"none", "new", "run", "yield", "poll", "cond", "end"}]
      /\ DOMAIN pc' = Coroutines
      /\ \A c \in Coroutines : pc'[c] = IF c = co THEN "run" ELSE pc[c]
  BY DEF SwapInv, SwapTypeOK
<1>5. /\ \A c \in Coroutines : Started(c)' <=> Started(c) \/ c = co
      /\ \A c \in Coroutines : pc'[c] = "none" => pc[c] = "none"
  BY <1>4 DEF Started
<1>6. /\ Frames' /\ occupy_co' \in [Stacks -> Coroutines \cup {NoCo}]
      /\ memory' \in [Stacks -> Images] /\ save_buffer' \in [Coroutines -> Images]
  BY <1>1, <1>2, <1>3, <1>4, <1>5, SwapFrames
<1>7. SwapTypeOK'
  BY <1>1, <1>2, <1>4, <1>6 DEF SwapInv, SwapTypeOK
<1>8. QED
  BY <1>2, <1>6, <1>7 DEF SwapInv

\* co_yield_env, by the coroutine that runs.
LEMMA SwapYield ==
  ASSUME SwapInv, NEW co \in Coroutines, Current = co,
         NEW how \in {"yield", "poll", "cond", "end"}, pc' = [pc EXCEPT ![co] = how],
         co_yield
  PROVE  SwapInv'
<1> DEFINE p == Last(Front(pCallStack))
<1>1. /\ pCallStack' = Front(pCallStack) /\ co_swap(Current, p)
      /\ stack_mem' = stack_mem /\ alloc_idx' = alloc_idx
  BY DEF co_yield
<1>2. /\ CallStack' /\ Current' = p /\ p # co /\ p \in Coroutines \cup {Main}
      /\ p \in Coroutines => pc[p] = "run"
      /\ pCallStack' \in Seq(Coroutines \cup {Main})
  BY <1>1, PopCall
<1> HIDE DEF p
<1>3. /\ pc' \in [Coroutines -> {"none", "new", "run", "yield", "poll", "cond", "end"}]
      /\ DOMAIN pc' = Coroutines
      /\ \A c \in Coroutines : pc'[c] = IF c = co THEN how ELSE pc[c]
      /\ pc[co] = "run"
  BY CurrentFacts DEF SwapInv, SwapTypeOK
<1>4. /\ \A c \in Coroutines : Started(c)' <=> Started(c) \/ c = p
      /\ \A c \in Coroutines : pc'[c] = "none" => pc[c] = "none"
  BY <1>2, <1>3 DEF Started
<1>5. /\ Frames' /\ occupy_co' \in [Stacks -> Coroutines \cup {NoCo}]
      /\ memory' \in [Stacks -> Images] /\ save_buffer' \in [Coroutines -> Images]
  BY <1>1, <1>2, <1>3, <1>4, SwapFrames
<1>6. SwapTypeOK'
  BY <1>1, <1>2, <1>3, <1>5 DEF SwapInv, SwapTypeOK
<1>7. QED
  BY <1>2, <1>5, <1>6 DEF SwapInv

\* co_create_env: the new coroutine has no frames yet.
LEMMA SwapCreate ==
  ASSUME SwapInv, NEW co \in Coroutines, NEW share_stack \in BOOLEAN,
         co_create(co, share_stack)
  PROVE  SwapInv'
<1>1. /\ pc[co] = "none" /\ pc' = [pc EXCEPT ![co] = "new"]
      /\ pCallStack' = pCallStack /\ occupy_co' = occupy_co /\ memory' = memory
      /\ save_buffer' = save_buffer
  BY DEF co_create
<1>2. /\ pc' \in [Coroutines -> {"none", "new", "run", "yield", "poll", "cond", "end"}]
      /\ \A c \in Coroutines : pc'[c] = IF c = co THEN "new" ELSE pc[c]
  BY <1>1 DEF SwapInv, SwapTypeOK
<1>3. /\ stack_mem' \in [Coroutines -> 0 .. count] /\ alloc_idx' \in Nat
      /\ \A c \in Coroutines : c # co => stack_mem'[c] = stack_mem[c]
  <2>1. alloc_idx \in Nat /\ count \in Nat \ {0}
    BY SwapAssumption DEF SwapInv, SwapTypeOK
  <2>2. co_get_stackmem \in 1 .. count /\ alloc_idx + 1 \in Nat
    BY <2>1 DEF co_get_stackmem
  <2>3. stack_mem \in [Coroutines -> 0 .. count]
    BY DEF SwapInv, SwapTypeOK
  <2>4. CASE share_stack
    BY <2>2, <2>3, <2>4 DEF co_create
  <2>5. CASE ~ share_stack
    BY <2>1, <2>3, <2>5 DEF co_create
  <2>6. QED
    BY <2>4, <2>5
<1>4. SwapTypeOK'
  BY <1>1, <1>2, <1>3 DEF SwapInv, SwapTypeOK
<1>5. CallStack'
  <2>1. {c \in Coroutines : pc'[c] = "run"} = {c \in Coroutines : pc[c] = "run"}
    BY <1>1, <1>2
  <2>2. QED
    BY <1>1, <2>1 DEF SwapInv, CallStack
<1>6. Frames'
  <2>1. /\ \A c \in Coroutines : Started(c)' <=> Started(c) /\ c # co
        /\ \A c \in Coroutines : c # co => (c \in Shared' <=> c \in Shared)
        /\ ~ Started(co) /\ Shared \subseteq Coroutines /\ Shared' \subseteq Coroutines
    BY <1>1, <1>2, <1>3 DEF Started, Shared
  <2>2. \A s \in Stacks : occupy_co[s] \in Coroutines \cup {NoCo}
    BY DEF SwapInv, SwapTypeOK
  <2>3. ASSUME NEW s \in Stacks, occupy_co[s] # NoCo
        PROVE  stack_mem'[occupy_co[s]] = s /\ pc'[occupy_co[s]] \notin {"none", "new"}
    <3>1. /\ stack_mem[occupy_co[s]] = s /\ Started(occupy_co[s])
          /\ occupy_co[s] \in Coroutines
      BY <2>2, <2>3 DEF SwapInv, Frames
    <3>2. QED
      BY <1>2, <1>3, <2>1, <3>1 DEF Started
  <2>4. ASSUME NEW c \in Shared'
        PROVE  /\ pc'[c] # "none"
               /\ Started(c)' =>
                    /\ occupy_co[stack_mem'[c]] # NoCo
                    /\ occupy_co[stack_mem'[c]] = c => memory[stack_mem'[c]] = <<c, "now">>
                    /\ occupy_co[stack_mem'[c]] # c => save_buffer[c] = <<c, "now">>
    <3>1. CASE c = co
      BY <1>2, <2>1, <3>1
    <3>2. CASE c # co
      BY <1>2, <1>3, <2>1, <3>2 DEF SwapInv, Frames
    <3>3. QED
      BY <3>1, <3>2
  <2>5. Current' \in Shared' => occupy_co[stack_mem'[Current']] = Current'
    <3>1. Current' = Current /\ Current # co
      BY <1>1, CurrentFacts DEF Current
    <3>2. QED
      BY <1>3, <2>1, <3>1 DEF SwapInv, Frames
  <2>6. QED
    BY <1>1, <2>3, <2>4, <2>5 DEF Frames, Started
<1>7. QED
  BY <1>4, <1>5, <1>6 DEF SwapInv

\* The other steps leave the stacks alone.
LEMMA SwapSame ==
  ASSUME SwapInv, UNCHANGED <<pc, swapVars>>
  PROVE  SwapInv'
<1>1. SwapTypeOK' /\ CallStack' /\ Frames'
  BY DEF SwapInv, SwapTypeOK, CallStack, Frames, Started, Shared, Current, swapVars
<1>2. QED
  BY <1>1 DEF SwapInv

\* The coroutine that runs finds its frames.
LEMMA SwapIntact ==
  ASSUME SwapInv
  PROVE  StackIntact
<1>1. SUFFICES ASSUME Current \in Shared
               PROVE  memory[stack_mem[Current]] = <<Current, "now">>
  BY DEF StackIntact
<1>2. Started(Current)
  BY <1>1, CurrentFacts DEF Shared, Started
<1>3. QED
  BY <1>1, <1>2 DEF SwapInv, Frames

-----------------------------------------------------------------------------
(* The lists *)

\* Every item of the wheel is in the slot of its expiry time.
Wheel ==
  \A i \in Slots :
    /\ IsInjective(pItems[i])
    /\ \A co \in Range(pItems[i]) :
         due[co] \in Slots /\ i = (llStartIdx + due[co]) % iItemSize

\* Where a coroutine is.
Places ==
  \A co \in Coroutines :
    /\ co \in Slotted \cup Active => pc[co] \in {"poll", "cond"}
    /\ co \in Range(cond) => pc[co] = "cond"
    /\ Polls(co) => co \in Slotted \cup Active
    /\ pc[co] = "cond" => co \in Slotted \cup Active \cup Range(cond)

Lists ==
  /\ IsInjective(pstActiveList) /\ IsInjective(cond)
  /\ Slotted \cap Active = {}

\* The parts of WaitersListed.
LEMMA WaitersParts ==
  /\ WaitersListed <=> Wheel /\ Lists /\ Places
  /\ WaitersListed' <=> Wheel' /\ Lists' /\ Places'
BY DEF WaitersListed, Wheel, Lists, Places

\* What the types say about the lists.
LEMMA ListTypes ==
  ASSUME TypeOK
  PROVE  /\ \A i \in Slots : pItems[i] \in Seq(Coroutines) /\ Range(pItems[i]) \subseteq Coroutines
         /\ Slotted \subseteq Coroutines /\ Active \subseteq Coroutines
         /\ Range(cond) \subseteq Coroutines
         /\ iItemSize \in Nat \ {0} /\ lag \in Int /\ llStartIdx \in 0 .. iItemSize - 1
<1>1. \A s \in Seq(Coroutines) : Range(s) \subseteq Coroutines
  BY DEF Range
<1>2. /\ \A i \in Slots : pItems[i] \in Seq(Coroutines)
      /\ pstActiveList \in Seq(Coroutines) /\ cond \in Seq(Coroutines)
  BY DEF TypeOK
<1>3. iItemSize \in Nat \ {0} /\ lag \in Int /\ llStartIdx \in 0 .. iItemSize - 1
  BY PollAssumption DEF TypeOK, Slots
<1>4. QED
  BY <1>1, <1>2, <1>3 DEF Slotted, Active

\* The slots of the wheel go round.
LEMMA Modulo ==
  ASSUME NEW n \in Nat \ {0}, NEW k \in 0 .. n - 1, NEW d \in 0 .. n - 1
  PROVE  (k + d) % n = IF k + d < n THEN k + d ELSE k + d - n
<1>1. CASE k + d < n
  BY <1>1
<1>2. CASE ~ (k + d < n)
  <2>1. k + d - n \in 0 .. n - 1 /\ k + d = n * 1 + (k + d - n)
    BY <1>2
  <2>2. QED
    BY <1>2, <2>1
<1>3. QED
  BY <1>1, <1>2

\* The slots that are reached from one slot in less than a turn are different.
LEMMA SlotsDiffer ==
  ASSUME NEW n \in Nat \ {0}, NEW k \in 0 .. n - 1, NEW d \in 0 .. n - 1, NEW e \in 0 .. n - 1,
         (k + d) % n = (k + e) % n
  PROVE  d = e
<1>2. /\ (k + d) % n = IF k + d < n THEN k + d ELSE k + d - n
      /\ (k + e) % n = IF k + e < n THEN k + e ELSE k + e - n
  BY Modulo
<1>3. QED
  BY <1>2

\* When the wheel turns by l slots, an item further than that stays in its slot.
LEMMA SlotsTurn ==
  ASSUME NEW n \in Nat \ {0}, NEW k \in 0 .. n - 1, NEW d \in 0 .. n - 1, NEW l \in 0 .. n - 1,
         l <= d
  PROVE  d - l \in 0 .. n - 1 /\ (((k + l) % n) + (d - l)) % n = (k + d) % n
<1>1. d - l \in 0 .. n - 1
  OBVIOUS
<1>2. /\ (k + l) % n = IF k + l < n THEN k + l ELSE k + l - n
      /\ (k + d) % n = IF k + d < n THEN k + d ELSE k + d - n
  BY Modulo
<1>3. CASE k + l < n
  <2>1. ((k + l) % n) + (d - l) = k + d
    BY <1>2, <1>3
  <2>2. QED
    BY <1>1, <2>1
<1>4. CASE ~ (k + l < n)
  <2>1. ((k + l) % n) + (d - l) = k + d - n /\ k + d - n \in 0 .. n - 1
    BY <1>2, <1>4
  <2>2. (k + d - n) % n = k + d - n
    BY <2>1
  <2>3. ~ (k + d < n)
    BY <1>4
  <2>4. (k + d) % n = k + d - n
    BY <1>2, <2>3
  <2>5. (((k + l) % n) + (d - l)) % n = (k + d - n) % n
    BY <2>1
  <2>6. QED
    BY <1>1, <2>2, <2>4, <2>5
<1>5. QED
  BY <1>3, <1>4

\* AddTimeout puts the item in the slot of its expiry time.
LEMMA AddEffect ==
  ASSUME TypeOK, Wheel, NEW co \in Coroutines, co \notin Slotted, NEW t \in Int,
         AddTimeoutOK(t), AddTimeout(co, t), llStartIdx' = llStartIdx
  PROVE  /\ due' \in [Coroutines -> Int] /\ \A c \in Coroutines : c # co => due'[c] = due[c]
         /\ pItems' \in [Slots -> Seq(Coroutines)]
         /\ Wheel' /\ Slotted' = Slotted \cup {co}
<1> DEFINE d == lag + t
           j == (llStartIdx + d) % iItemSize
<1>1. /\ d \in Slots /\ d \in Int /\ j \in Slots
      /\ due' = [due EXCEPT ![co] = d] /\ pItems' = [pItems EXCEPT ![j] = Append(@, co)]
  <2>1. d \in 0 .. iItemSize - 1 /\ (llStartIdx + lag) + t = llStartIdx + d
    BY ListTypes DEF AddTimeoutOK
  <2>2. j \in 0 .. iItemSize - 1
    BY <2>1, ListTypes
  <2>3. j = (llStartIdx + lag + t) % iItemSize
    BY <2>1
  <2> HIDE DEF j
  <2>4. due' = [due EXCEPT ![co] = d] /\ pItems' = [pItems EXCEPT ![j] = Append(@, co)]
    BY <2>3 DEF AddTimeout
  <2> HIDE DEF d
  <2>5. QED
    BY <2>1, <2>2, <2>4 DEF Slots
<1> HIDE DEF d
<1>2. due \in [Coroutines -> Int] /\ pItems \in [Slots -> Seq(Coroutines)]
  BY DEF TypeOK
<1>3. co \notin Range(pItems[j])
  BY <1>1 DEF Slotted
<1>4. /\ Append(pItems[j], co) \in Seq(Coroutines)
      /\ Range(Append(pItems[j], co)) = Range(pItems[j]) \cup {co}
      /\ IsInjective(Append(pItems[j], co))
  BY <1>1, <1>2, <1>3, AppendList DEF Wheel
<1>5. /\ due' \in [Coroutines -> Int] /\ due'[co] = d
      /\ \A c \in Coroutines : c # co => due'[c] = due[c]
  BY <1>1, <1>2
<1>6. /\ pItems' \in [Slots -> Seq(Coroutines)]
      /\ pItems'[j] = Append(pItems[j], co)
      /\ \A i \in Slots : i # j => pItems'[i] = pItems[i]
  BY <1>1, <1>2, <1>4
<1> HIDE DEF j
<1>7. Slotted' = Slotted \cup {co}
  BY <1>1, <1>4, <1>6 DEF Slotted, Slots
<1>8. Wheel'
  <2>1. Slots' = Slots
    BY DEF Slots
  <2>2. ASSUME NEW i \in Slots
        PROVE  /\ IsInjective(pItems'[i])
               /\ \A c \in Range(pItems'[i]) :
                    due'[c] \in Slots /\ i = (llStartIdx + due'[c]) % iItemSize
    <3>1. \A c \in Range(pItems[i]) : c \in Coroutines /\ c # co /\ due'[c] = due[c]
      BY <1>5, ListTypes DEF Slotted
    <3>2. CASE i = j
      <4>1. due'[co] \in Slots /\ i = (llStartIdx + due'[co]) % iItemSize
        BY <1>1, <1>5, <3>2 DEF j
      <4>2. \A c \in Range(pItems[i]) :
              due'[c] \in Slots /\ i = (llStartIdx + due'[c]) % iItemSize
        BY <3>1 DEF Wheel
      <4>3. IsInjective(pItems'[i]) /\ Range(pItems'[i]) = Range(pItems[i]) \cup {co}
        BY <1>4, <1>6, <3>2
      <4>4. QED
        BY <4>1, <4>2, <4>3
    <3>3. CASE i # j
      BY <1>6, <3>1, <3>3 DEF Wheel
    <3>4. QED
      BY <3>2, <3>3
  <2>3. QED
    BY <2>1, <2>2 DEF Wheel
<1>9. QED
  BY <1>5, <1>6, <1>7, <1>8

\* RemoveFromLink from every slot.
LEMMA RemoveEffect ==
  ASSUME TypeOK, Wheel, NEW W
  PROVE  LET items == [i \in Slots |-> Without(pItems[i], W)]
         IN  /\ items \in [Slots -> Seq(Coroutines)]
             /\ \A i \in Slots : /\ Range(items[i]) = Range(pItems[i]) \ W
                                 /\ IsInjective(items[i])
<1>1. \A i \in Slots : /\ Without(pItems[i], W) \in Seq(Coroutines)
                       /\ Range(Without(pItems[i], W)) = Range(pItems[i]) \ W
                       /\ IsInjective(Without(pItems[i], W))
  BY ListTypes, WithoutList DEF Wheel
<1>2. QED
  BY <1>1

\* OnSignalProcessEvent's effect, for the waiters in W.
LEMMA ActivateEffect ==
  ASSUME TypeOK, Wheel, Lists, NEW W \in Seq(Coroutines), IsInjective(W), Activate(W),
         llStartIdx' = llStartIdx, due' = due
  PROVE  /\ pItems' \in [Slots -> Seq(Coroutines)] /\ pstActiveList' \in Seq(Coroutines)
         /\ cond' \in Seq(Coroutines)
         /\ Wheel' /\ Lists'
         /\ Slotted' = Slotted \ Range(W) /\ Active' = Active \cup Range(W)
         /\ Range(cond') = Range(cond) \ Range(W)
<1>1. cond \in Seq(Coroutines) /\ pstActiveList \in Seq(Coroutines)
  BY DEF TypeOK
<1>2. /\ cond' = Without(cond, Range(W))
      /\ pItems' = [i \in Slots |-> Without(pItems[i], Range(W))]
      /\ pstActiveList' = Without(pstActiveList, Range(W)) \o W
  BY DEF Activate
<1>3. /\ cond' \in Seq(Coroutines) /\ Range(cond') = Range(cond) \ Range(W)
      /\ IsInjective(cond')
  BY <1>1, <1>2, WithoutList DEF Lists
<1>4. /\ pItems' \in [Slots -> Seq(Coroutines)]
      /\ \A i \in Slots : Range(pItems'[i]) = Range(pItems[i]) \ Range(W) /\ IsInjective(pItems'[i])
  BY <1>2, RemoveEffect
<1>5. /\ pstActiveList' \in Seq(Coroutines)
      /\ Range(pstActiveList') = (Range(pstActiveList) \ Range(W)) \cup Range(W)
      /\ IsInjective(pstActiveList')
  <2> DEFINE rest == Without(pstActiveList, Range(W))
  <2>1. rest \in Seq(Coroutines) /\ Range(rest) = Range(pstActiveList) \ Range(W) /\ IsInjective(rest)
    BY <1>1, WithoutList DEF Lists
  <2> HIDE DEF rest
  <2>2. pstActiveList' = rest \o W
    BY <1>2 DEF rest
  <2>3. QED
    BY <2>1, <2>2, ConcatList
<1>6. Slotted' = Slotted \ Range(W)
  BY <1>4 DEF Slotted, Slots
<1>7. Active' = Active \cup Range(W)
  BY <1>5 DEF Active
<1>8. Wheel'
  BY <1>4 DEF Wheel, Slots
<1>9. Lists'
  BY <1>3, <1>5, <1>6, <1>7 DEF Lists
<1>10. QED
  BY <1>3, <1>4, <1>5, <1>6, <1>7, <1>8, <1>9

\* TakeAllTimeout: how many slots are taken, which, and where the wheel stands then.
LEMMA TakenSlots ==
  ASSUME TypeOK
  PROVE  LET taken == [i \in 1 .. cnt |-> (llStartIdx + i - 1) % iItemSize]
         IN  /\ cnt \in 0 .. iItemSize
             /\ lag < 0 => cnt = 0
             /\ lag >= 0 => cnt >= 1 /\ cnt - 1 <= lag /\ (cnt - 1 = lag \/ cnt = iItemSize)
             /\ \A i \in 1 .. cnt : taken[i] \in Slots
             /\ \A i \in 1 .. cnt : \A d \in Slots :
                  taken[i] = (llStartIdx + d) % iItemSize <=> d = i - 1
             /\ \A d \in Slots : (llStartIdx + d) % iItemSize \in Range(taken) <=> d <= cnt - 1
             /\ NewStartIdx \in Slots
<1> DEFINE taken == [i \in 1 .. cnt |-> (llStartIdx + i - 1) % iItemSize]
<1>1. /\ iItemSize \in Nat \ {0} /\ lag \in Int /\ llStartIdx \in 0 .. iItemSize - 1
      /\ Slots = 0 .. iItemSize - 1
  BY ListTypes DEF Slots
<1>2. /\ cnt \in 0 .. iItemSize
      /\ lag < 0 => cnt = 0
      /\ lag >= 0 => cnt >= 1 /\ cnt - 1 <= lag /\ (cnt - 1 = lag \/ cnt = iItemSize)
  BY <1>1 DEF cnt
<1>3. ASSUME NEW i \in 1 .. cnt
      PROVE  /\ i - 1 \in Slots /\ taken[i] = (llStartIdx + (i - 1)) % iItemSize
             /\ taken[i] \in Slots
  <2>1. i - 1 \in 0 .. iItemSize - 1 /\ llStartIdx + i - 1 = llStartIdx + (i - 1)
    BY <1>1, <1>2
  <2>2. taken[i] = (llStartIdx + (i - 1)) % iItemSize
    BY <2>1
  <2>3. (llStartIdx + (i - 1)) % iItemSize \in 0 .. iItemSize - 1
    BY <1>1, <2>1
  <2>4. QED
    BY <1>1, <2>1, <2>2, <2>3
<1>4. ASSUME NEW i \in 1 .. cnt, NEW d \in Slots, taken[i] = (llStartIdx + d) % iItemSize
      PROVE  d = i - 1
  <2>1. (llStartIdx + d) % iItemSize = (llStartIdx + (i - 1)) % iItemSize
    BY <1>3, <1>4
  <2>2. d \in 0 .. iItemSize - 1 /\ i - 1 \in 0 .. iItemSize - 1
    BY <1>1, <1>3
  <2>3. QED
    BY <1>1, <2>1, <2>2, SlotsDiffer
<1>5. ASSUME NEW d \in Slots
      PROVE  (llStartIdx + d) % iItemSize \in Range(taken) <=> d <= cnt - 1
  <2>1. DOMAIN taken = 1 .. cnt
    OBVIOUS
  <2>2. ASSUME d <= cnt - 1
        PROVE  (llStartIdx + d) % iItemSize \in Range(taken)
    <3>1. d + 1 \in 1 .. cnt /\ (d + 1) - 1 = d
      BY <1>1, <1>2, <2>2
    <3>2. taken[d + 1] = (llStartIdx + d) % iItemSize
      BY <1>3, <3>1
    <3> HIDE DEF taken
    <3>3. QED
      BY <2>1, <3>1, <3>2 DEF Range
  <2>3. ASSUME (llStartIdx + d) % iItemSize \in Range(taken)
        PROVE  d <= cnt - 1
    <3>1. PICK i \in 1 .. cnt : taken[i] = (llStartIdx + d) % iItemSize
      BY <2>1, <2>3 DEF Range
    <3>2. d = i - 1
      BY <1>4, <3>1
    <3>3. QED
      BY <1>2, <3>2
  <2>4. QED
    BY <2>2, <2>3
<1>6. NewStartIdx \in Slots
  <2>1. CASE cnt = 0
    BY <1>1, <2>1 DEF NewStartIdx
  <2>2. CASE cnt # 0
    <3>1. llStartIdx + cnt - 1 \in Nat
      BY <1>1, <1>2, <2>2
    <3>2. (llStartIdx + cnt - 1) % iItemSize \in 0 .. iItemSize - 1
      BY <1>1, <3>1
    <3>3. QED
      BY <1>1, <2>2, <3>2 DEF NewStartIdx
  <2>3. QED
    BY <2>1, <2>2
<1>7. \A i \in 1 .. cnt : \A d \in Slots :
        taken[i] = (llStartIdx + d) % iItemSize <=> d = i - 1
  BY <1>3, <1>4
<1> HIDE DEF taken
<1>8. /\ \A i \in 1 .. cnt : taken[i] \in Slots
      /\ \A d \in Slots : (llStartIdx + d) % iItemSize \in Range(taken) <=> d <= cnt - 1
  BY <1>3, <1>5
<1>9. QED
  BY <1>2, <1>6, <1>7, <1>8 DEF taken

\* A round of the loop: the coroutines with an event and those whose time is
\* over leave the wheel for the active list; the others are as far from their
\* expiry as they should be.
LEMMA WaitEffect ==
  ASSUME TypeOK, Wheel, Lists, NEW events \in SUBSET Fds, EventloopWait(events)
  PROVE  LET raised == {epoll[fd] : fd \in events}
         IN  /\ pItems' \in [Slots -> Seq(Coroutines)] /\ pstActiveList' \in Seq(Coroutines)
             /\ lag' \in -MaxBack .. MaxLag /\ llStartIdx' \in Slots
             /\ due' \in [Coroutines -> Int]
             /\ Wheel' /\ Lists'
             /\ Slotted' \subseteq Slotted \ raised
             /\ Active' = Active \cup raised \cup (Slotted \ Slotted')
             /\ \A co \in Slotted \ (Slotted' \cup raised) : due'[co] <= 0
             /\ \A co \in Coroutines \ Slotted : due'[co] = due[co]
<1> DEFINE raised  == {epoll[fd] : fd \in events}
           items   == [i \in Slots |-> Without(pItems[i], raised)]
           taken   == [i \in 1 .. cnt |-> (llStartIdx + i - 1) % iItemSize]
           ls      == [i \in 1 .. cnt |-> items[taken[i]]]
           passed  == IF lag < 0 THEN 0 ELSE lag
<1>1. /\ raised \subseteq Coroutines
      /\ \E s \in SetToSeqs(raised) :
           pstActiveList' = Without(pstActiveList, raised) \o s \o FlattenSeq(ls)
      /\ pItems' = [i \in Slots |-> IF i \in Range(taken) THEN << >> ELSE items[i]]
      /\ llStartIdx' = NewStartIdx
      /\ lag' = lag - passed
      /\ due' = [co \in Coroutines |->
                   IF \E i \in Slots : co \in Range(pItems[i]) THEN due[co] - passed
                                                               ELSE due[co]]
  BY DEF EventloopWait
<1>2. /\ items \in [Slots -> Seq(Coroutines)]
      /\ \A i \in Slots : Range(items[i]) = Range(pItems[i]) \ raised /\ IsInjective(items[i])
  BY RemoveEffect
<1>3. /\ cnt \in 0 .. iItemSize
      /\ lag < 0 => cnt = 0
      /\ lag >= 0 => cnt >= 1 /\ cnt - 1 <= lag /\ (cnt - 1 = lag \/ cnt = iItemSize)
      /\ \A i \in 1 .. cnt : taken[i] \in Slots
      /\ \A i \in 1 .. cnt : \A d \in Slots :
           taken[i] = (llStartIdx + d) % iItemSize <=> d = i - 1
      /\ \A d \in Slots : (llStartIdx + d) % iItemSize \in Range(taken) <=> d <= cnt - 1
      /\ NewStartIdx \in Slots
  BY TakenSlots
<1>t. DOMAIN taken = 1 .. cnt
  OBVIOUS
<1> HIDE DEF raised, items, taken, cnt, NewStartIdx
<1>4. /\ iItemSize \in Nat \ {0} /\ lag \in Int /\ llStartIdx \in 0 .. iItemSize - 1
      /\ Slots = 0 .. iItemSize - 1 /\ lag \in -MaxBack .. MaxLag /\ MaxBack \in Nat
      /\ MaxLag \in Nat /\ due \in [Coroutines -> Int] /\ Slotted \subseteq Coroutines
      /\ pstActiveList \in Seq(Coroutines)
  BY ListTypes, PollAssumption DEF Slots, TypeOK
<1>5. /\ lag' \in -MaxBack .. MaxLag /\ llStartIdx' \in Slots /\ passed \in Int
      /\ lag < 0 => passed = 0
      /\ lag >= 0 => passed = lag
  BY <1>1, <1>3, <1>4
<1> HIDE DEF passed
<1>6. /\ due' \in [Coroutines -> Int]
      /\ \A c \in Slotted : due'[c] = due[c] - passed
      /\ \A c \in Coroutines \ Slotted : due'[c] = due[c]
  <2>1. \A c : (\E i \in Slots : c \in Range(pItems[i])) <=> c \in Slotted
    BY DEF Slotted
  <2>2. due' = [c \in Coroutines |-> IF c \in Slotted THEN due[c] - passed ELSE due[c]]
    BY <1>1, <2>1
  <2>3. QED
    BY <1>4, <1>5, <2>2
<1>7. \A i \in Slots : \A c \in Range(pItems[i]) :
        /\ c \in Coroutines /\ c \in Slotted
        /\ due[c] \in Slots /\ i = (llStartIdx + due[c]) % iItemSize
        /\ i \in Range(taken) <=> due[c] <= cnt - 1
  <2> TAKE i \in Slots
  <2> TAKE c \in Range(pItems[i])
  <2>1. c \in Slotted /\ due[c] \in Slots /\ i = (llStartIdx + due[c]) % iItemSize
    BY DEF Wheel, Slotted
  <2>2. i \in Range(taken) <=> due[c] <= cnt - 1
    BY <1>3, <2>1
  <2>3. QED
    BY <1>4, <2>1, <2>2
<1>8. /\ pItems' \in [Slots -> Seq(Coroutines)]
      /\ \A i \in Slots : /\ i \in Range(taken) => pItems'[i] = << >>
                          /\ i \notin Range(taken) => pItems'[i] = items[i]
  BY <1>1, <1>2
<1>9. \A i \in Slots : /\ IsInjective(pItems'[i])
                       /\ Range(pItems'[i]) =
                            {c \in Range(pItems[i]) : c \notin raised /\ ~ (due[c] <= cnt - 1)}
  <2> TAKE i \in Slots
  <2>1. CASE i \in Range(taken)
    BY <1>7, <1>8, <2>1, EmptyList
  <2>2. CASE i \notin Range(taken)
    BY <1>2, <1>7, <1>8, <2>2
  <2>3. QED
    BY <2>1, <2>2
<1>10. Slotted' = {c \in Slotted : c \notin raised /\ ~ (due[c] <= cnt - 1)}
  BY <1>9 DEF Slotted, Slots
<1>11. Wheel'
  <2>1. ASSUME NEW i \in Slots, NEW c \in Range(pItems'[i])
        PROVE  due'[c] \in Slots /\ i = (llStartIdx' + due'[c]) % iItemSize
    <3>1. c \in Range(pItems[i]) /\ ~ (due[c] <= cnt - 1)
      BY <1>9, <2>1
    <3>2. /\ c \in Coroutines /\ due'[c] = due[c] - passed /\ due[c] \in 0 .. iItemSize - 1
          /\ i = (llStartIdx + due[c]) % iItemSize
      BY <1>4, <1>6, <1>7, <3>1
    <3>3. CASE lag < 0
      <4>1. due'[c] = due[c] /\ cnt = 0
        BY <1>3, <1>5, <3>2, <3>3
      <4>2. llStartIdx' = llStartIdx
        BY <1>1, <4>1 DEF NewStartIdx
      <4>3. QED
        BY <1>4, <3>2, <4>1, <4>2
    <3>4. CASE lag >= 0
      <4>1. cnt - 1 = lag /\ cnt # 0 /\ passed = lag /\ lag \in 0 .. iItemSize - 1 /\ lag <= due[c]
        <5>1. /\ cnt \in 0 .. iItemSize /\ cnt >= 1 /\ cnt - 1 <= lag
              /\ cnt - 1 = lag \/ cnt = iItemSize
              /\ passed = lag
          BY <1>3, <1>5, <3>4
        <5>2. QED
          BY <1>4, <3>1, <3>2, <5>1
      <4>2. llStartIdx + cnt - 1 = llStartIdx + lag
        BY <1>3, <1>4, <4>1
      <4>3. llStartIdx' = (llStartIdx + lag) % iItemSize
        BY <1>1, <4>1, <4>2 DEF NewStartIdx
      <4>4. /\ due[c] - lag \in 0 .. iItemSize - 1
            /\ (((llStartIdx + lag) % iItemSize) + (due[c] - lag)) % iItemSize
                 = (llStartIdx + due[c]) % iItemSize
        <5>1. PICK d \in 0 .. iItemSize - 1 : d = due[c]
          BY <3>2
        <5>2. PICK l \in 0 .. iItemSize - 1 : l = lag /\ l <= d
          BY <4>1, <5>1
        <5>3. PICK k \in 0 .. iItemSize - 1 : k = llStartIdx
          BY <1>4
        <5>4. iItemSize \in Nat \ {0}
          BY <1>4
        <5>5. d - l \in 0 .. iItemSize - 1 /\ (((k + l) % iItemSize) + (d - l)) % iItemSize = (k + d) % iItemSize
          BY <5>2, <5>4, SlotsTurn
        <5>6. QED
          BY <5>1, <5>2, <5>3, <5>5
      <4>5. QED
        BY <1>4, <3>2, <4>1, <4>3, <4>4
    <3>5. QED
      BY <1>4, <3>3, <3>4
  <2>2. QED
    BY <1>9, <2>1 DEF Wheel, Slots
<1>12. /\ ls \in Seq(Seq(Coroutines)) /\ Len(ls) = cnt
       /\ \A i \in 1 .. cnt :
            /\ IsInjective(ls[i])
            /\ Range(ls[i]) = {c \in Slotted : c \notin raised /\ due[c] = i - 1}
  <2>1. \A i \in 1 .. cnt : ls[i] = items[taken[i]] /\ taken[i] \in Slots
    BY <1>3
  <2>2. ls \in [1 .. cnt -> Seq(Coroutines)] /\ cnt \in Nat
    BY <1>2, <1>3, <1>4
  <2>3. ls \in Seq(Seq(Coroutines)) /\ Len(ls) = cnt
    BY <2>2
  <2> HIDE DEF ls
  <2>4. ASSUME NEW i \in 1 .. cnt
        PROVE  Range(ls[i]) = {c \in Slotted : c \notin raised /\ due[c] = i - 1}
    <3>1. Range(ls[i]) = Range(pItems[taken[i]]) \ raised
      BY <1>2, <2>1
    <3>2. \A c \in Range(pItems[taken[i]]) : c \in Slotted /\ due[c] = i - 1
      BY <1>3, <1>7, <2>1
    <3>3. ASSUME NEW c \in Slotted, due[c] = i - 1
          PROVE  c \in Range(pItems[taken[i]])
      <4>1. PICK j \in Slots : c \in Range(pItems[j])
        BY DEF Slotted
      <4>2. due[c] \in Slots /\ j = (llStartIdx + due[c]) % iItemSize
        BY <1>7, <4>1
      <4>3. taken[i] = j
        BY <1>3, <3>3, <4>2
      <4>4. QED
        BY <4>1, <4>3
    <3>4. QED
      BY <3>1, <3>2, <3>3
  <2>5. \A i \in 1 .. cnt : IsInjective(ls[i])
    BY <1>2, <2>1
  <2>6. QED
    BY <2>3, <2>4, <2>5
<1> HIDE DEF ls
<1>13. /\ FlattenSeq(ls) \in Seq(Coroutines) /\ IsInjective(FlattenSeq(ls))
       /\ Range(FlattenSeq(ls)) = {c \in Slotted : c \notin raised /\ due[c] <= cnt - 1}
  <2>1. /\ FlattenSeq(ls) \in Seq(Coroutines)
        /\ Range(FlattenSeq(ls)) = UNION {Range(ls[i]) : i \in 1 .. Len(ls)}
        /\ /\ \A i \in 1 .. Len(ls) : IsInjective(ls[i])
           /\ \A i, j \in 1 .. Len(ls) : i # j => Range(ls[i]) \cap Range(ls[j]) = {}
           => IsInjective(FlattenSeq(ls))
    BY <1>12, FlattenList
  <2>2. \A i, j \in 1 .. Len(ls) : i # j => Range(ls[i]) \cap Range(ls[j]) = {}
    BY <1>3, <1>12
  <2>3. \A c \in Slotted : due[c] \in 0 .. iItemSize - 1
    BY <1>4, <1>7 DEF Slotted
  <2>4. \A c \in Slotted : due[c] <= cnt - 1 <=> \E i \in 1 .. cnt : due[c] = i - 1
    <3> TAKE c \in Slotted
    <3>1. due[c] <= cnt - 1 => due[c] + 1 \in 1 .. cnt /\ due[c] = (due[c] + 1) - 1
      BY <1>3, <1>4, <2>3
    <3>2. \A i \in 1 .. cnt : i - 1 <= cnt - 1
      BY <1>3
    <3>3. QED
      BY <3>1, <3>2
  <2>5. UNION {Range(ls[i]) : i \in 1 .. cnt} = {c \in Slotted : c \notin raised /\ due[c] <= cnt - 1}
    BY <1>12, <2>4
  <2>6. QED
    BY <1>12, <2>1, <2>2, <2>5
<1>14. PICK s \in SetToSeqs(raised) :
         pstActiveList' = Without(pstActiveList, raised) \o s \o FlattenSeq(ls)
  BY <1>1
<1>15. /\ s \in Seq(Coroutines) /\ IsInjective(s) /\ Range(s) = raised
  <2>1. IsFiniteSet(raised)
    BY <1>1, SwapAssumption, FS_Subset
  <2>2. s \in Seq(raised) /\ IsInjective(s) /\ Range(s) = raised
    BY <1>14, <2>1, OrderedSet
  <2>3. QED
    BY <1>1, <2>2
<1>16. /\ Without(pstActiveList, raised) \in Seq(Coroutines)
       /\ Range(Without(pstActiveList, raised)) = Active \ raised
       /\ IsInjective(Without(pstActiveList, raised))
  BY <1>4, WithoutList DEF Lists, Active
<1>17. /\ pstActiveList' \in Seq(Coroutines) /\ IsInjective(pstActiveList')
       /\ Range(pstActiveList') =
            (Active \ raised) \cup raised \cup {c \in Slotted : c \notin raised /\ due[c] <= cnt - 1}
  <2> DEFINE rest == Without(pstActiveList, raised)
             expired == FlattenSeq(ls)
  <2>1. pstActiveList' = (rest \o s) \o expired
    BY <1>14
  <2> HIDE DEF rest, expired
  <2>2. rest \o s \in Seq(Coroutines) /\ Range(rest \o s) = Active \cup raised /\ IsInjective(rest \o s)
    BY <1>15, <1>16, ConcatList DEF rest
  <2>3. Range(rest \o s) \cap Range(expired) = {}
    BY <1>13, <2>2 DEF expired, Lists
  <2>4. PICK front : front = rest \o s
    OBVIOUS
  <2>5. /\ pstActiveList' \in Seq(Coroutines) /\ IsInjective(pstActiveList')
        /\ Range(pstActiveList') = Range(front) \cup Range(expired)
    <3>1. /\ front \in Seq(Coroutines) /\ IsInjective(front)
          /\ expired \in Seq(Coroutines) /\ IsInjective(expired)
          /\ Range(front) \cap Range(expired) = {} /\ pstActiveList' = front \o expired
      BY <1>13, <2>1, <2>2, <2>3, <2>4 DEF expired
    <3>2. QED
      BY <3>1, ConcatList
  <2>6. QED
    BY <1>13, <2>2, <2>4, <2>5 DEF expired
<1>18. Active' = Active \cup raised \cup (Slotted \ Slotted')
  BY <1>10, <1>17 DEF Active
<1>19. Lists'
  <2>1. Slotted' \cap Active' = {}
    BY <1>10, <1>17 DEF Active, Lists
  <2>2. cond' = cond
    BY DEF EventloopWait
  <2>3. QED
    BY <1>17, <2>1, <2>2 DEF Lists
<1>20. \A c \in Slotted \ (Slotted' \cup raised) : due'[c] <= 0
  <2> TAKE c \in Slotted \ (Slotted' \cup raised)
  <2>1. due[c] <= cnt - 1 /\ due'[c] = due[c] - passed /\ due[c] \in 0 .. iItemSize - 1
    <3>1. PICK i \in Slots : c \in Range(pItems[i])
      BY DEF Slotted
    <3>2. due[c] \in Slots
      BY <1>7, <3>1
    <3>3. QED
      BY <1>4, <1>6, <1>10, <3>2
  <2>2. lag >= 0 /\ passed = lag /\ cnt - 1 <= lag
    BY <1>3, <1>4, <1>5, <2>1
  <2>3. QED
    BY <1>3, <1>4, <2>1, <2>2
<1>21. QED
  BY <1>5, <1>6, <1>8, <1>10, <1>11, <1>17, <1>18, <1>19, <1>20 DEF raised

-----------------------------------------------------------------------------
(* The inductive invariant *)

\* While the loop does not process its list, only signalled coroutines are on it.
Signalled ==
  loop = "user" => \A co \in Active : pc[co] = "cond" /\ co \notin Range(cond)

\* A coroutine keeps its descriptors while it polls, a registration is that of
\* a poll that is waiting, and a descriptor nobody else polls is registered.
Polled ==
  /\ \A co \in Coroutines :
       /\ fds[co] # {} => Polls(co)
       /\ arr[co] => Polls(co) /\ co \notin Shared
  /\ \A fd \in Fds : \A co \in Coroutines : epoll[fd] = co => fd \in fds[co]
  /\ \A fd \in Fds \ spoilt :
       /\ epoll[fd] # Dangling
       /\ \A co \in Coroutines : fd \in fds[co] => epoll[fd] = co

IInv ==
  /\ TypeOK /\ SwapInv /\ WaitersListed
  /\ Signalled /\ WokenForAReason /\ Polled

\* The types of what co_swap does not touch.
OtherTypes ==
  /\ loop \in {"user", "active"} /\ lag \in -MaxBack .. MaxLag /\ llStartIdx \in Slots
  /\ pItems \in [Slots -> Seq(Coroutines)] /\ pstActiveList \in Seq(Coroutines)
  /\ due \in [Coroutines -> Int] /\ cond \in Seq(Coroutines)
  /\ fds \in [Coroutines -> SUBSET Fds] /\ arr \in [Coroutines -> BOOLEAN]
  /\ revents \in [Coroutines -> SUBSET Fds]
  /\ epoll \in [Fds -> Coroutines \cup {NoCo, Dangling}]
  /\ spoilt \subseteq Fds /\ corrupt \in BOOLEAN

\* The parts of IInv, before and after a step.
LEMMA InvParts ==
  /\ IInv => /\ TypeOK /\ OtherTypes /\ SwapInv /\ Wheel /\ Lists /\ Places
             /\ Signalled /\ WokenForAReason /\ Polled
  /\ OtherTypes' /\ SwapInv' /\ Wheel' /\ Lists' /\ Places' /\ Signalled'
       /\ WokenForAReason' /\ Polled' => IInv'
<1>1. /\ TypeOK <=> SwapTypeOK /\ OtherTypes
      /\ TypeOK' <=> SwapTypeOK' /\ OtherTypes'
  BY DEF TypeOK, OtherTypes, Slots
<1>2. QED
  BY <1>1, WaitersParts DEF IInv, SwapInv

\* Registrations are as co_poll_inner means them.
LEMMA PolledMeans ==
  ASSUME TypeOK, Polled
  PROVE  RegisteredWhilePolled
<1>1. ASSUME NEW fd \in Fds \ spoilt
      PROVE  /\ epoll[fd] # Dangling
             /\ \A co \in Coroutines : epoll[fd] = co <=> Polls(co) /\ fd \in fds[co]
             /\ ~ (epoll[fd] \in Shared /\ arr[epoll[fd]])
  BY DEF Polled, Shared
<1>2. QED
  BY <1>1 DEF RegisteredWhilePolled

\* AllocEpoll and co_init_curr_thread_env establish it.
LEMMA InitInv ==
  Init => IInv
<1>1. SUFFICES ASSUME Init PROVE IInv
  OBVIOUS
<1>2. SwapTypeOK
  <2>1. /\ pCallStack \in Seq(Coroutines \cup {Main}) /\ 0 \in 0 .. count - 1 /\ 0 \in 0 .. count
        /\ Unsaved \in Images
    BY <1>1, SwapAssumption DEF Init, SwapInit, Images
  <2>2. QED
    BY <1>1, <2>1 DEF Init, SwapInit, SwapTypeOK
<1>3. CallStack
  <2>1. pCallStack = <<Main>> /\ \A co \in Coroutines : pc[co] = "none"
    BY <1>1 DEF Init, SwapInit
  <2>2. Range(<<Main>>) = {Main} /\ IsInjective(<<Main>>) /\ Head(<<Main>>) = Main
    BY DEF Range, IsInjective
  <2>3. QED
    BY <2>1, <2>2 DEF CallStack
<1>4. Shared = {} /\ Frames
  BY <1>1 DEF Init, SwapInit, Frames, Shared
<1>5. OtherTypes
  <2>1. 0 \in Slots /\ 0 \in -MaxBack .. MaxLag
    BY PollAssumption DEF Slots
  <2>2. QED
    BY <1>1, <2>1 DEF Init, OtherTypes
<1>6. Slotted = {} /\ Active = {} /\ Range(cond) = {} /\ \A i \in Slots : Range(pItems[i]) = {}
  BY <1>1, EmptyList DEF Init, Slotted, Active
<1>7. WaitersListed
  <2>1. \A i \in Slots : IsInjective(pItems[i])
    BY <1>1, EmptyList DEF Init
  <2>2. IsInjective(pstActiveList) /\ IsInjective(cond)
    BY <1>1, EmptyList DEF Init
  <2>3. \A co \in Coroutines : pc[co] = "none"
    BY <1>1 DEF Init, SwapInit
  <2>4. QED
    BY <1>6, <2>1, <2>2, <2>3 DEF WaitersListed, Polls
<1>8. Signalled /\ WokenForAReason
  BY <1>6 DEF Signalled, WokenForAReason
<1>9. Polled
  BY <1>1, SwapAssumption, PollAssumption DEF Init, Polled
<1>10. QED
  BY <1>2, <1>3, <1>4, <1>5, <1>7, <1>8, <1>9 DEF IInv, SwapInv, TypeOK, OtherTypes

\* A coroutine that runs waits for nothing.
LEMMA RunnerFree ==
  ASSUME IInv, NEW co \in Coroutines, Current = co
  PROVE  /\ pc[co] = "run"
         /\ co \notin Slotted /\ co \notin Active /\ co \notin Range(cond)
         /\ fds[co] = {} /\ ~ arr[co] /\ \A fd \in Fds : epoll[fd] # co
<1>1. pc[co] = "run"
  BY InvParts, CurrentFacts
<1>2. co \notin Slotted /\ co \notin Active /\ co \notin Range(cond)
  BY <1>1, InvParts DEF Places
<1>3. ~ Polls(co) /\ Polled
  BY <1>1, InvParts DEF Polls
<1>4. QED
  BY <1>1, <1>2, <1>3 DEF Polled

\* Steps that change no list and no registration.
LEMMA QuietInv ==
  ASSUME IInv, SwapInv', loop' \in {"user", "active"}, lag' \in -MaxBack .. MaxLag,
         corrupt' \in BOOLEAN,
         UNCHANGED <<llStartIdx, pItems, pstActiveList, due, cond, pollVars>>,
         loop' = "user" => loop = "user" \/ pstActiveList = << >>,
         \A c \in Coroutines : /\ Polls(c)' <=> Polls(c)
                               /\ pc'[c] = "cond" <=> pc[c] = "cond"
                               /\ Polls(c) => (c \in Shared' <=> c \in Shared)
  PROVE  IInv'
<1>1. /\ OtherTypes /\ Wheel /\ Lists /\ Places /\ Signalled /\ WokenForAReason /\ Polled
  BY InvParts
<1>2. /\ llStartIdx' = llStartIdx /\ pItems' = pItems /\ pstActiveList' = pstActiveList
      /\ due' = due /\ cond' = cond /\ fds' = fds /\ arr' = arr /\ revents' = revents
      /\ epoll' = epoll /\ spoilt' = spoilt
  BY DEF pollVars
<1>3. Slotted' = Slotted /\ Active' = Active /\ Slots' = Slots /\ Active \subseteq Coroutines
  BY <1>2, InvParts, ListTypes DEF Slotted, Active, Slots
<1>4. OtherTypes'
  BY <1>1, <1>2 DEF OtherTypes, Slots
<1>5. Wheel' /\ Lists'
  BY <1>1, <1>2, <1>3 DEF Wheel, Lists
<1>6. Places'
  BY <1>1, <1>2, <1>3 DEF Places, Polls
<1>7. Signalled'
  <2>1. pstActiveList = << >> => Active = {}
    BY EmptyList DEF Active
  <2>2. QED
    BY <1>1, <1>2, <1>3, <2>1 DEF Signalled
<1>8. WokenForAReason'
  BY <1>1, <1>2, <1>3 DEF WokenForAReason
<1>9. Polled'
  <2>1. \A c \in Coroutines : /\ fds[c] # {} => Polls(c)'
                              /\ arr[c] => Polls(c)' /\ c \notin Shared'
    BY <1>1 DEF Polled
  <2>2. QED
    BY <1>1, <1>2, <2>1 DEF Polled
<1>10. QED
  BY <1>4, <1>5, <1>6, <1>7, <1>8, <1>9, InvParts

\* co_create, co_resume by hand, co_yield_ct and the end of a coroutine.
LEMMA HandInv ==
  ASSUME IInv, NEW co \in Coroutines \cup {Main}, NEW other \in Coroutines,
         \/ Create(co, other) \/ Resume(co, other)
         \/ co \in Coroutines /\ (Leave(co, "yield") \/ Leave(co, "end"))
  PROVE  IInv'
<1>1. SwapInv /\ OtherTypes /\ DOMAIN pc = Coroutines
      /\ pc \in [Coroutines -> {"none", "new", "run", "yield", "poll", "cond", "end"}]
  BY InvParts DEF SwapInv, SwapTypeOK
<1>2. ASSUME UNCHANGED <<loop, wheelVars, cond, pollVars, corrupt>>, SwapInv',
             NEW c \in Coroutines, NEW how \in {"new", "run", "yield", "end"},
             pc[c] \notin {"poll", "cond"}, pc' = [pc EXCEPT ![c] = how],
             \A d \in Coroutines : d # c => stack_mem'[d] = stack_mem[d]
      PROVE  IInv'
  <2>1. \A d \in Coroutines : /\ Polls(d)' <=> Polls(d)
                              /\ pc'[d] = "cond" <=> pc[d] = "cond"
                              /\ Polls(d) => (d \in Shared' <=> d \in Shared)
    <3> TAKE d \in Coroutines
    <3>1. CASE d = c
      BY <1>1, <1>2, <3>1 DEF Polls
    <3>2. CASE d # c
      BY <1>1, <1>2, <3>2 DEF Polls, Shared
    <3>3. QED
      BY <3>1, <3>2
  <2>2. QED
    BY <1>1, <1>2, <2>1, QuietInv DEF OtherTypes, wheelVars
<1>3. CASE Create(co, other)
  <2>1. PICK share_stack \in BOOLEAN : co_create(other, share_stack)
    BY <1>3 DEF Create
  <2>2. SwapInv'
    BY <1>1, <2>1, SwapCreate
  <2>3. pc[other] = "none" /\ pc' = [pc EXCEPT ![other] = "new"]
        /\ \A d \in Coroutines : d # other => stack_mem'[d] = stack_mem[d]
    BY <1>1, <2>1 DEF co_create, SwapInv, SwapTypeOK
  <2>4. QED
    BY <1>2, <1>3, <2>2, <2>3 DEF Create
<1>4. CASE Resume(co, other)
  <2>1. /\ pc[other] \in {"new", "yield"} /\ pc' = [pc EXCEPT ![other] = "run"]
        /\ co_resume(other) /\ UNCHANGED <<loop, wheelVars, cond, pollVars, corrupt>>
    BY <1>4 DEF Resume
  <2>2. SwapInv' /\ stack_mem' = stack_mem
    BY <1>1, <2>1, SwapResume DEF co_resume
  <2>3. QED
    BY <1>2, <2>1, <2>2
<1>5. ASSUME co \in Coroutines, NEW how \in {"yield", "end"}, Leave(co, how)
      PROVE  IInv'
  <2>1. /\ Current = co /\ pc' = [pc EXCEPT ![co] = how]
        /\ co_yield /\ UNCHANGED <<loop, wheelVars, cond, pollVars, corrupt>>
    BY <1>5 DEF Leave, Runs
  <2>2. SwapInv' /\ stack_mem' = stack_mem
    BY <1>1, <1>5, <2>1, SwapYield DEF co_yield
  <2>3. pc[co] = "run"
    BY <1>1, <1>5, <2>1, CurrentFacts
  <2>4. QED
    BY <1>2, <1>5, <2>1, <2>2, <2>3
<1>6. QED
  BY <1>3, <1>4, <1>5

\* Steps of the loop and the clock that leave the stacks alone.
LEMMA ClockInv ==
  ASSUME IInv, EventloopDangling \/ EventloopPfn \/ Tick \/ ClockSet \/ UNCHANGED vars
  PROVE  IInv'
<1>1. SwapInv /\ OtherTypes /\ MaxLag \in Nat /\ MaxBack \in Nat
  BY InvParts, PollAssumption
<1>2. /\ UNCHANGED <<pc, swapVars>>
      /\ UNCHANGED <<llStartIdx, pItems, pstActiveList, due, cond, pollVars>>
      /\ loop' \in {"user", "active"} /\ corrupt' \in BOOLEAN
      /\ loop' = "user" => loop = "user" \/ pstActiveList = << >>
  BY <1>1 DEF EventloopDangling, EventloopPfn, Tick, ClockSet, vars, wheelVars, OtherTypes
<1>3. lag' \in -MaxBack .. MaxLag
  <2>1. CASE lag' = lag
    BY <1>1, <2>1 DEF OtherTypes
  <2>2. CASE Tick
    BY <1>1, <2>2 DEF OtherTypes, Tick
  <2>3. CASE ClockSet
    BY <1>1, <2>3 DEF OtherTypes, ClockSet
  <2>4. QED
    BY <2>1, <2>2, <2>3 DEF EventloopDangling, EventloopPfn, vars, wheelVars
<1>4. SwapInv' /\ pc' = pc /\ stack_mem' = stack_mem
  BY <1>1, <1>2, SwapSame DEF swapVars
<1>5. \A c \in Coroutines : /\ Polls(c)' <=> Polls(c)
                            /\ pc'[c] = "cond" <=> pc[c] = "cond"
                            /\ Polls(c) => (c \in Shared' <=> c \in Shared)
  BY <1>4 DEF Polls, Shared
<1>6. QED
  BY <1>2, <1>3, <1>4, <1>5, QuietInv

\* co_poll_inner, when the item is added.
LEMMA PollInv ==
  ASSUME IInv, NEW co \in Coroutines, NEW F \in SUBSET Fds, NEW t \in Int,
         co_poll_inner(co, F, t),
         AddTimeoutOK(IF t > eMaxTimeout THEN eMaxTimeout ELSE t)
  PROVE  IInv'
<1> DEFINE timeout == IF t > eMaxTimeout THEN eMaxTimeout ELSE t
           added   == {fd \in F : epoll[fd] = NoCo}
<1>1. /\ Current = co
      /\ epoll' = [fd \in Fds |-> IF fd \in added THEN co ELSE epoll[fd]]
      /\ spoilt' = spoilt \cup (F \ added)
      /\ fds' = [fds EXCEPT ![co] = F]
      /\ arr' = [arr EXCEPT ![co] = OnStack(co, F)]
      /\ AddTimeout(co, timeout)
      /\ pc' = [pc EXCEPT ![co] = "poll"]
      /\ co_yield
      /\ UNCHANGED <<loop, lag, llStartIdx, pstActiveList, cond, revents, corrupt>>
  BY DEF co_poll_inner, Runs
<1>2. timeout \in Int /\ AddTimeoutOK(timeout)
  BY PollAssumption
<1> HIDE DEF timeout
<1>3. /\ TypeOK /\ OtherTypes /\ SwapInv /\ Wheel /\ Lists /\ Places /\ Signalled
      /\ WokenForAReason /\ Polled
  BY InvParts
<1>4. /\ pc[co] = "run"
      /\ co \notin Slotted /\ co \notin Active /\ co \notin Range(cond)
      /\ fds[co] = {} /\ ~ arr[co] /\ \A fd \in Fds : epoll[fd] # co
  BY <1>1, RunnerFree
<1>5. SwapInv' /\ Shared' = Shared
  BY <1>1, <1>3, SwapYield DEF co_yield, Shared
<1>6. /\ due' \in [Coroutines -> Int] /\ \A c \in Coroutines : c # co => due'[c] = due[c]
      /\ pItems' \in [Slots -> Seq(Coroutines)]
      /\ Wheel' /\ Slotted' = Slotted \cup {co}
  BY <1>1, <1>2, <1>3, <1>4, AddEffect
<1>7. \A c \in Coroutines : pc'[c] = IF c = co THEN "poll" ELSE pc[c]
  BY <1>1, <1>3 DEF SwapInv, SwapTypeOK
<1>8. Active' = Active /\ cond' = cond /\ Active \subseteq Coroutines
  BY <1>1, <1>3, ListTypes DEF Active
<1>9. Lists' /\ Places' /\ Signalled' /\ WokenForAReason'
  <2>1. Lists'
    BY <1>1, <1>3, <1>4, <1>6, <1>8 DEF Lists
  <2>2. Places'
    BY <1>3, <1>4, <1>6, <1>7, <1>8 DEF Places, Polls
  <2>3. Signalled'
    BY <1>1, <1>3, <1>4, <1>7, <1>8 DEF Signalled
  <2>4. WokenForAReason'
    BY <1>1, <1>3, <1>4, <1>6, <1>7, <1>8 DEF WokenForAReason, Polls
  <2>5. QED
    BY <2>1, <2>2, <2>3, <2>4
<1>10. OnStack(co, F) \in BOOLEAN /\ (OnStack(co, F) => co \notin Shared)
  BY DEF OnStack
<1>11. /\ \A c \in Coroutines : /\ fds'[c] = IF c = co THEN F ELSE fds[c]
                                /\ arr'[c] = IF c = co THEN OnStack(co, F) ELSE arr[c]
       /\ \A fd \in Fds : epoll'[fd] = IF fd \in added THEN co ELSE epoll[fd]
  BY <1>1, <1>3 DEF OtherTypes
<1>12. OtherTypes'
  <2>1. /\ loop' \in {"user", "active"} /\ lag' \in -MaxBack .. MaxLag /\ (llStartIdx \in Slots)'
        /\ (pItems \in [Slots -> Seq(Coroutines)])' /\ pstActiveList' \in Seq(Coroutines)
        /\ due' \in [Coroutines -> Int] /\ cond' \in Seq(Coroutines)
    BY <1>1, <1>3, <1>6 DEF OtherTypes, Slots
  <2>2. fds' \in [Coroutines -> SUBSET Fds] /\ revents' \in [Coroutines -> SUBSET Fds]
    BY <1>1, <1>3 DEF OtherTypes
  <2>3. arr' \in [Coroutines -> BOOLEAN]
    BY <1>1, <1>3, <1>10 DEF OtherTypes
  <2>4. epoll' \in [Fds -> Coroutines \cup {NoCo, Dangling}]
    BY <1>1, <1>3 DEF OtherTypes
  <2>5. spoilt' \subseteq Fds /\ corrupt' \in BOOLEAN
    BY <1>1, <1>3 DEF OtherTypes
  <2>6. QED
    BY <2>1, <2>2, <2>3, <2>4, <2>5 DEF OtherTypes
<1>13. Polled'
  <2>1. \A c \in Coroutines : Polls(c)' <=> Polls(c) \/ c = co
    BY <1>7 DEF Polls
  <2>2. ASSUME NEW c \in Coroutines
        PROVE  /\ fds'[c] # {} => Polls(c)'
               /\ arr'[c] => Polls(c)' /\ c \notin Shared'
    BY <1>3, <1>5, <1>10, <1>11, <2>1 DEF Polled
  <2>3. ASSUME NEW fd \in Fds, NEW c \in Coroutines, epoll'[fd] = c
        PROVE  fd \in fds'[c]
    BY <1>3, <1>4, <1>11, <2>3 DEF Polled
  <2>4. ASSUME NEW fd \in Fds \ spoilt'
        PROVE  epoll'[fd] # Dangling /\ \A c \in Coroutines : fd \in fds'[c] => epoll'[fd] = c
    <3>1. fd \in Fds \ spoilt /\ (fd \in F => fd \in added)
      BY <1>1, <2>4
    <3>2. epoll'[fd] # Dangling
      BY <1>3, <1>11, <3>1, PollAssumption DEF Polled
    <3>3. ASSUME NEW c \in Coroutines, fd \in fds'[c]
          PROVE  epoll'[fd] = c
      <4>1. CASE c = co
        BY <1>11, <3>1, <3>3, <4>1
      <4>2. CASE c # co
        BY <1>3, <1>11, <3>1, <3>3, <4>2, SwapAssumption DEF Polled
      <4>3. QED
        BY <4>1, <4>2
    <3>4. QED
      BY <3>2, <3>3
  <2>5. QED
    BY <2>2, <2>3, <2>4 DEF Polled
<1>14. QED
  BY <1>5, <1>6, <1>9, <1>12, <1>13, InvParts

\* co_poll_inner, when AddTimeout fails: its descriptors are left to Dangling.
LEMMA PollFailsInv ==
  ASSUME IInv, NEW co \in Coroutines, NEW F \in SUBSET Fds, NEW t \in Int,
         co_poll_inner(co, F, t),
         ~ AddTimeoutOK(IF t > eMaxTimeout THEN eMaxTimeout ELSE t)
  PROVE  IInv'
<1> DEFINE added == {fd \in F : epoll[fd] = NoCo}
<1>1. /\ epoll' = [fd \in Fds |-> IF fd \in added THEN Dangling ELSE epoll[fd]]
      /\ spoilt' = spoilt \cup F
      /\ UNCHANGED <<fds, arr, due, pItems, pc, swapVars>>
      /\ UNCHANGED <<loop, lag, llStartIdx, pstActiveList, cond, revents, corrupt>>
  BY DEF co_poll_inner
<1>2. /\ OtherTypes /\ SwapInv /\ Wheel /\ Lists /\ Places /\ Signalled
      /\ WokenForAReason /\ Polled
  BY InvParts
<1>3. SwapInv' /\ Shared' = Shared
  BY <1>1, <1>2, SwapSame DEF swapVars, Shared
<1>4. OtherTypes'
  BY <1>1, <1>2 DEF OtherTypes, Slots
<1>5. Slotted' = Slotted /\ Active' = Active /\ Slots' = Slots
  BY <1>1 DEF Slotted, Active, Slots
<1>6. Wheel' /\ Lists' /\ Places' /\ Signalled' /\ WokenForAReason'
  BY <1>1, <1>2, <1>5 DEF Wheel, Lists, Places, Signalled, WokenForAReason, Polls
<1>7. Polled'
  <2>1. \A fd \in Fds : epoll'[fd] = IF fd \in added THEN Dangling ELSE epoll[fd]
    BY <1>1
  <2>2. ASSUME NEW fd \in Fds, NEW c \in Coroutines, epoll'[fd] = c
        PROVE  fd \in fds[c]
    BY <1>2, <2>1, <2>2, PollAssumption DEF Polled
  <2>3. ASSUME NEW fd \in Fds \ spoilt'
        PROVE  epoll'[fd] # Dangling /\ \A c \in Coroutines : fd \in fds[c] => epoll'[fd] = c
    BY <1>1, <1>2, <2>1 DEF Polled
  <2>4. QED
    BY <1>1, <1>2, <1>3, <2>2, <2>3 DEF Polled, Polls
<1>8. QED
  BY <1>3, <1>4, <1>6, <1>7, InvParts

\* co_cond_timedwait, with or without an item in the wheel.
LEMMA TimedwaitInv ==
  ASSUME IInv, NEW co \in Coroutines, NEW ms \in Int, co_cond_timedwait(co, ms)
  PROVE  IInv'
<1>1. /\ Current = co
      /\ ms > 0 => AddTimeoutOK(ms) /\ AddTimeout(co, ms)
      /\ ~ (ms > 0) => UNCHANGED <<due, pItems>>
      /\ cond' = Append(cond, co)
      /\ pc' = [pc EXCEPT ![co] = "cond"]
      /\ co_yield
      /\ UNCHANGED <<loop, lag, llStartIdx, pstActiveList, pollVars, corrupt>>
  BY DEF co_cond_timedwait, Runs
<1>2. /\ TypeOK /\ OtherTypes /\ SwapInv /\ Wheel /\ Lists /\ Places /\ Signalled
      /\ WokenForAReason /\ Polled
  BY InvParts
<1>3. /\ pc[co] = "run"
      /\ co \notin Slotted /\ co \notin Active /\ co \notin Range(cond)
      /\ fds[co] = {} /\ ~ arr[co] /\ \A fd \in Fds : epoll[fd] # co
  BY <1>1, RunnerFree
<1>4. SwapInv' /\ Shared' = Shared
  BY <1>1, <1>2, SwapYield DEF co_yield, Shared
<1>5. /\ due' \in [Coroutines -> Int] /\ \A c \in Coroutines : c # co => due'[c] = due[c]
      /\ pItems' \in [Slots -> Seq(Coroutines)]
      /\ Wheel' /\ Slotted' \in {Slotted, Slotted \cup {co}}
  <2>1. CASE ms > 0
    BY <1>1, <1>2, <1>3, <2>1, AddEffect
  <2>2. CASE ~ (ms > 0)
    <3>1. due' = due /\ pItems' = pItems /\ llStartIdx' = llStartIdx
      BY <1>1, <2>2
    <3>2. Wheel' /\ Slotted' = Slotted
      BY <1>2, <3>1 DEF Wheel, Slotted, Slots
    <3>3. QED
      BY <1>2, <3>1, <3>2 DEF OtherTypes
  <2>3. QED
    BY <2>1, <2>2
<1>6. /\ cond' \in Seq(Coroutines) /\ Range(cond') = Range(cond) \cup {co} /\ IsInjective(cond')
  BY <1>1, <1>2, <1>3, AppendList DEF OtherTypes, Lists
<1>7. \A c \in Coroutines : pc'[c] = IF c = co THEN "cond" ELSE pc[c]
  BY <1>1, <1>2 DEF SwapInv, SwapTypeOK
<1>8. Active' = Active /\ pstActiveList' = pstActiveList /\ Active \subseteq Coroutines
  BY <1>1, <1>2, ListTypes DEF Active
<1>9. /\ fds' = fds /\ arr' = arr /\ revents' = revents /\ epoll' = epoll /\ spoilt' = spoilt
  BY <1>1 DEF pollVars
<1>10. Lists'
  BY <1>2, <1>3, <1>5, <1>6, <1>8 DEF Lists
<1>11. Places'
  BY <1>2, <1>3, <1>5, <1>6, <1>7, <1>8 DEF Places, Polls
<1>12. Signalled'
  BY <1>1, <1>2, <1>3, <1>6, <1>7, <1>8 DEF Signalled
<1>13. WokenForAReason'
  BY <1>2, <1>3, <1>5, <1>6, <1>7, <1>8, <1>9 DEF WokenForAReason, Polls
<1>14. OtherTypes'
  BY <1>1, <1>2, <1>5, <1>6, <1>9 DEF OtherTypes, Slots
<1>15. Polled'
  <2>1. \A c \in Coroutines : fds[c] # {} \/ arr[c] => Polls(c)'
    BY <1>2, <1>3, <1>7 DEF Polled, Polls
  <2>2. QED
    BY <1>2, <1>4, <1>9, <2>1 DEF Polled
<1>16. QED
  BY <1>4, <1>5, <1>10, <1>11, <1>12, <1>13, <1>14, <1>15, InvParts

\* co_cond_signal and co_cond_broadcast.
LEMMA SignalInv ==
  ASSUME IInv, NEW co, co_cond_signal(co) \/ co_cond_broadcast(co)
  PROVE  IInv'
<1>1. /\ TypeOK /\ OtherTypes /\ SwapInv /\ Wheel /\ Lists /\ Places /\ Signalled
      /\ WokenForAReason /\ Polled
  BY InvParts
<1>2. /\ UNCHANGED <<pc, swapVars>>
      /\ UNCHANGED <<loop, lag, llStartIdx, due, pollVars, corrupt>>
  BY DEF co_cond_signal, co_cond_broadcast
<1>3. PICK W \in Seq(Coroutines) : IsInjective(W) /\ Range(W) \subseteq Range(cond) /\ Activate(W)
  <2>1. cond \in Seq(Coroutines) /\ IsInjective(cond)
    BY <1>1 DEF OtherTypes, Lists
  <2>2. CASE co_cond_signal(co)
    <3>1. cond # << >> /\ Activate(<<Head(cond)>>)
      BY <2>2 DEF co_cond_signal
    <3>2. Head(cond) \in Coroutines /\ Head(cond) \in Range(cond)
      BY <2>1, <3>1, TailList
    <3>3. PICK h \in Coroutines : h = Head(cond)
      BY <3>2
    <3>4. <<h>> \in Seq(Coroutines) /\ IsInjective(<<h>>) /\ Range(<<h>>) = {h}
      BY DEF IsInjective, Range
    <3>5. QED
      BY <3>1, <3>2, <3>3, <3>4
  <2>3. CASE co_cond_broadcast(co)
    BY <2>1, <2>3 DEF co_cond_broadcast
  <2>4. QED
    BY <2>2, <2>3
<1>4. /\ pItems' \in [Slots -> Seq(Coroutines)] /\ pstActiveList' \in Seq(Coroutines)
      /\ cond' \in Seq(Coroutines)
      /\ Wheel' /\ Lists'
      /\ Slotted' = Slotted \ Range(W) /\ Active' = Active \cup Range(W)
      /\ Range(cond') = Range(cond) \ Range(W)
  BY <1>1, <1>2, <1>3, ActivateEffect
<1>5. SwapInv' /\ pc' = pc /\ Shared' = Shared
  BY <1>1, <1>2, SwapSame DEF swapVars, Shared
<1>6. \A c \in Range(W) : c \in Coroutines /\ c \in Range(cond) /\ pc[c] = "cond"
  BY <1>1, <1>3, ListTypes DEF Places
<1>7. /\ loop' = loop /\ due' = due
      /\ fds' = fds /\ arr' = arr /\ revents' = revents /\ epoll' = epoll /\ spoilt' = spoilt
  BY <1>2 DEF pollVars
<1>8. Places'
  BY <1>1, <1>4, <1>5, <1>6 DEF Places, Polls
<1>9. Signalled'
  BY <1>1, <1>4, <1>5, <1>6, <1>7 DEF Signalled
<1>10. WokenForAReason'
  BY <1>1, <1>4, <1>5, <1>6, <1>7 DEF WokenForAReason, Polls
<1>11. Polled'
  BY <1>1, <1>5, <1>7 DEF Polled, Polls
<1>12. OtherTypes'
  BY <1>1, <1>2, <1>4, <1>7 DEF OtherTypes, Slots
<1>13. QED
  BY <1>4, <1>5, <1>8, <1>9, <1>10, <1>11, <1>12, InvParts

\* A round of co_eventloop begins.
LEMMA WaitInv ==
  ASSUME IInv, NEW events \in SUBSET Fds, EventloopWait(events)
  PROVE  IInv'
<1> DEFINE raised == {epoll[fd] : fd \in events}
<1>1. /\ TypeOK /\ OtherTypes /\ SwapInv /\ Wheel /\ Lists /\ Places /\ Signalled
      /\ WokenForAReason /\ Polled
  BY InvParts
<1>2. /\ loop = "user" /\ loop' = "active"
      /\ raised \subseteq Coroutines
      /\ revents' = [co \in Coroutines |-> {fd \in events : epoll[fd] = co}]
      /\ UNCHANGED <<pc, swapVars>>
      /\ cond' = cond /\ fds' = fds /\ arr' = arr /\ epoll' = epoll /\ spoilt' = spoilt
      /\ corrupt' = corrupt
  BY DEF EventloopWait, Runs, OnPollPreparePfn
<1>3. /\ pItems' \in [Slots -> Seq(Coroutines)] /\ pstActiveList' \in Seq(Coroutines)
      /\ lag' \in -MaxBack .. MaxLag /\ llStartIdx' \in Slots
      /\ due' \in [Coroutines -> Int]
      /\ Wheel' /\ Lists'
      /\ Slotted' \subseteq Slotted \ raised
      /\ Active' = Active \cup raised \cup (Slotted \ Slotted')
      /\ \A co \in Slotted \ (Slotted' \cup raised) : due'[co] <= 0
  BY <1>1, WaitEffect
<1>4. SwapInv' /\ pc' = pc /\ Shared' = Shared
  BY <1>1, <1>2, SwapSame DEF swapVars, Shared
<1>5. \A c \in raised : Polls(c) /\ revents'[c] # {} /\ c \in Coroutines
  <2> TAKE c \in raised
  <2>1. PICK fd \in events : epoll[fd] = c
    OBVIOUS
  <2>2. c \in Coroutines /\ fd \in fds[c]
    BY <1>1, <1>2, <2>1 DEF Polled
  <2>3. fd \in revents'[c]
    BY <1>2, <2>1, <2>2
  <2>4. QED
    BY <1>1, <2>2, <2>3 DEF Polled
<1> HIDE DEF raised
<1>6. Places'
  BY <1>1, <1>2, <1>3, <1>4, <1>5 DEF Places, Polls
<1>7. Signalled'
  BY <1>2 DEF Signalled
<1>8. WokenForAReason'
  <2>1. ASSUME NEW c \in Active'
        PROVE  \/ Polls(c) /\ revents'[c] # {}
               \/ pc[c] = "cond" /\ c \notin Range(cond)
               \/ due'[c] <= 0
    <3>1. CASE c \in raised
      BY <1>5, <3>1
    <3>2. CASE c \in Active
      BY <1>1, <1>2, <3>2 DEF Signalled
    <3>3. CASE c \in Slotted \ (Slotted' \cup raised)
      BY <1>3, <3>3
    <3>4. QED
      BY <1>3, <2>1, <3>1, <3>2, <3>3
  <2>2. QED
    BY <1>2, <1>4, <2>1 DEF WokenForAReason, Polls
<1>9. Polled'
  BY <1>1, <1>2, <1>4 DEF Polled, Polls
<1>10. OtherTypes'
  <2>1. revents' \in [Coroutines -> SUBSET Fds]
    BY <1>2
  <2>2. QED
    BY <1>1, <1>2, <1>3, <2>1 DEF OtherTypes, Slots
<1>11. QED
  BY <1>3, <1>4, <1>6, <1>7, <1>8, <1>9, <1>10, InvParts

\* pfnProcess: the head of the active list continues.
LEMMA LoopResumeInv ==
  ASSUME IInv, EventloopResume
  PROVE  IInv'
<1>1. /\ TypeOK /\ OtherTypes /\ SwapInv /\ Wheel /\ Lists /\ Places /\ Signalled
      /\ WokenForAReason /\ Polled
  BY InvParts
<1>2. PICK co : co = Head(pstActiveList)
  OBVIOUS
<1>3. /\ loop = "active" /\ pstActiveList # << >> /\ pstActiveList' = Tail(pstActiveList)
      /\ co_resume(co) /\ pc' = [pc EXCEPT ![co] = "run"]
      /\ cond' = Without(cond, {co})
      /\ epoll' = [fd \in Fds |-> IF fd \in fds[co] THEN NoCo ELSE epoll[fd]]
      /\ fds' = [fds EXCEPT ![co] = {}]
      /\ arr' = [arr EXCEPT ![co] = FALSE]
      /\ revents' = [revents EXCEPT ![co] = {}]
      /\ due' = [due EXCEPT ![co] = 0]
      /\ UNCHANGED <<loop, lag, llStartIdx, pItems, spoilt, corrupt>>
  BY <1>2 DEF EventloopResume, PollReturns
<1>4. /\ pstActiveList' \in Seq(Coroutines) /\ co \in Coroutines /\ co \in Active
      /\ Active' = Active \ {co} /\ IsInjective(pstActiveList')
  <2>1. pstActiveList \in Seq(Coroutines) /\ IsInjective(pstActiveList)
    BY <1>1 DEF OtherTypes, Lists
  <2>2. /\ pstActiveList' \in Seq(Coroutines) /\ co \in Coroutines
        /\ Range(pstActiveList) = Range(pstActiveList') \cup {co}
        /\ IsInjective(pstActiveList') /\ co \notin Range(pstActiveList')
    BY <1>2, <1>3, <2>1, TailList
  <2>3. QED
    BY <2>2 DEF Active
<1>5. co \notin Slotted /\ pc[co] \in {"poll", "cond"}
  BY <1>1, <1>4 DEF Lists, Places
<1>6. SwapInv' /\ Shared' = Shared
  BY <1>1, <1>3, <1>4, <1>5, SwapResume DEF co_resume, Shared
<1>7. cond' \in Seq(Coroutines) /\ Range(cond') = Range(cond) \ {co} /\ IsInjective(cond')
  BY <1>1, <1>3, WithoutList DEF OtherTypes, Lists
<1>8. \A c \in Coroutines :
        /\ pc'[c] = IF c = co THEN "run" ELSE pc[c]
        /\ fds'[c] = IF c = co THEN {} ELSE fds[c]
        /\ arr'[c] = IF c = co THEN FALSE ELSE arr[c]
        /\ c # co => revents'[c] = revents[c] /\ due'[c] = due[c]
  BY <1>1, <1>3 DEF OtherTypes, SwapInv, SwapTypeOK
<1>9. Slotted' = Slotted /\ Slotted \subseteq Coroutines /\ Active \subseteq Coroutines
  BY <1>1, <1>3, ListTypes DEF Slotted, Slots
<1>10. Wheel'
  <2>1. \A i \in Slots : \A c \in Range(pItems[i]) : c \in Coroutines /\ c # co /\ due'[c] = due[c]
    BY <1>5, <1>8, <1>9 DEF Slotted
  <2>2. QED
    BY <1>1, <1>3, <2>1 DEF Wheel, Slots
<1>11. Lists'
  BY <1>1, <1>4, <1>7, <1>9 DEF Lists
<1>12. Places'
  BY <1>1, <1>4, <1>5, <1>7, <1>8, <1>9 DEF Places, Polls
<1>13. Signalled'
  BY <1>3 DEF Signalled
<1>14. WokenForAReason'
  <2>1. ASSUME NEW c \in Active'
        PROVE  \/ pc'[c] = "poll" /\ revents'[c] # {}
               \/ pc'[c] = "cond" /\ c \notin Range(cond')
               \/ due'[c] <= 0
    <3>1. c \in Active /\ c # co /\ c \in Coroutines
      BY <1>4, <1>9, <2>1
    <3>2. QED
      BY <1>1, <1>7, <1>8, <3>1 DEF WokenForAReason, Polls
  <2>2. QED
    BY <2>1 DEF WokenForAReason, Polls
<1>15. Polled'
  <2>1. \A fd \in Fds : epoll'[fd] = IF fd \in fds[co] THEN NoCo ELSE epoll[fd]
    BY <1>3
  <2>2. \A c \in Coroutines : /\ fds'[c] # {} => Polls(c)'
                              /\ arr'[c] => Polls(c)' /\ c \notin Shared'
    BY <1>1, <1>6, <1>8 DEF Polled, Polls
  <2>3. ASSUME NEW fd \in Fds, NEW c \in Coroutines, epoll'[fd] = c
        PROVE  fd \in fds'[c]
    <3>1. fd \notin fds[co] /\ epoll[fd] = c
      BY <2>1, <2>3, SwapAssumption
    <3>2. fd \in fds[c] /\ c # co
      BY <1>1, <3>1 DEF Polled
    <3>3. QED
      BY <1>8, <3>2
  <2>4. ASSUME NEW fd \in Fds \ spoilt
        PROVE  epoll'[fd] # Dangling /\ \A c \in Coroutines : fd \in fds'[c] => epoll'[fd] = c
    <3>1. epoll'[fd] # Dangling
      BY <1>1, <2>1, PollAssumption DEF Polled
    <3>2. ASSUME NEW c \in Coroutines, fd \in fds'[c]
          PROVE  epoll'[fd] = c
      <4>1. c # co /\ fd \in fds[c]
        BY <1>8, <3>2
      <4>2. epoll[fd] = c /\ fd \notin fds[co]
        BY <1>1, <1>4, <4>1 DEF Polled
      <4>3. QED
        BY <2>1, <4>2
    <3>3. QED
      BY <3>1, <3>2
  <2>5. spoilt' = spoilt
    BY <1>3
  <2>6. QED
    BY <2>2, <2>3, <2>4, <2>5 DEF Polled
<1>16. OtherTypes'
  <2>1. /\ loop' \in {"user", "active"} /\ lag' \in -MaxBack .. MaxLag /\ (llStartIdx \in Slots)'
        /\ (pItems \in [Slots -> Seq(Coroutines)])'
    BY <1>1, <1>3 DEF OtherTypes, Slots
  <2>2. fds' \in [Coroutines -> SUBSET Fds] /\ revents' \in [Coroutines -> SUBSET Fds]
    BY <1>1, <1>3 DEF OtherTypes
  <2>3. arr' \in [Coroutines -> BOOLEAN] /\ corrupt' \in BOOLEAN
    BY <1>1, <1>3 DEF OtherTypes
  <2>4. epoll' \in [Fds -> Coroutines \cup {NoCo, Dangling}] /\ spoilt' \subseteq Fds
    BY <1>1, <1>3 DEF OtherTypes
  <2>5. due' \in [Coroutines -> Int]
    <3>1. due \in [Coroutines -> Int] /\ due' = [due EXCEPT ![co] = 0]
      BY <1>1, <1>3 DEF OtherTypes
    <3>2. QED
      BY <1>4, <3>1
  <2>6. QED
    BY <1>4, <1>7, <2>1, <2>2, <2>3, <2>4, <2>5 DEF OtherTypes
<1>17. QED
  BY <1>6, <1>10, <1>11, <1>12, <1>13, <1>14, <1>15, <1>16, InvParts

\* Every step keeps the invariant.
LEMMA NextInv ==
  IInv /\ [Next]_vars => IInv'
<1>1. SUFFICES ASSUME IInv, [Next]_vars PROVE IInv'
  OBVIOUS
<1>2. ASSUME NEW co \in Coroutines, CoroutineStep(co)
      PROVE  IInv'
  <2>1. CASE Leave(co, "yield") \/ Leave(co, "end")
    BY <1>1, <2>1, HandInv
  <2>2. ASSUME NEW p \in PollArgs, co_poll_inner(co, p[2], p[3])
        PROVE  IInv'
    <3>1. p[2] \in SUBSET Fds /\ p[3] \in Int
      BY PollAssumption
    <3>2. QED
      BY <1>1, <2>2, <3>1, PollInv, PollFailsInv
  <2>3. ASSUME NEW w \in Waits, co_cond_timedwait(co, w[2])
        PROVE  IInv'
    <3>1. w[2] \in Int
      BY PollAssumption
    <3>2. QED
      BY <1>1, <2>3, <3>1, TimedwaitInv
  <2>4. QED
    BY <1>2, <2>1, <2>2, <2>3 DEF CoroutineStep
<1>3. ASSUME NEW co \in Coroutines \cup {Main}, AnyStep(co)
      PROVE  IInv'
  BY <1>1, <1>3, HandInv, SignalInv DEF AnyStep
<1>4. CASE MainStep
  BY <1>1, <1>4, WaitInv, LoopResumeInv, ClockInv DEF MainStep
<1>5. CASE EventloopDangling \/ Tick \/ ClockSet \/ UNCHANGED vars
  BY <1>1, <1>5, ClockInv
<1>6. QED
  BY <1>1, <1>2, <1>3, <1>4, <1>5 DEF Next

-----------------------------------------------------------------------------
(* The theorems *)

\* The invariant holds throughout.
LEMMA Invariant == Spec => []IInv
<1>1. QED
  BY InitInv, NextInv, PTL DEF Spec

\* The lists, tables and stacks keep their types through every sequence of libco
\* calls, events and clock changes.
THEOREM TypeCorrect == Spec => []TypeOK
<1>1. IInv => TypeOK
  BY DEF IInv
<1>2. QED
  BY <1>1, Invariant, PTL

\* co_swap and save_stack_buffer lose no frames: whoever runs on a shared stack
\* finds its own, with any number of coroutines and shared stacks.
THEOREM StackIntactCorrect == Spec => []StackIntact
<1>1. IInv => StackIntact
  BY InvParts, SwapIntact
<1>2. QED
  BY <1>1, Invariant, PTL

\* Every coroutine that waits in co_poll or co_cond_timedwait is in exactly the
\* lists co_eventloop and co_cond_signal will look in.
THEOREM WaitersListedCorrect == Spec => []WaitersListed
<1>1. IInv => WaitersListed
  BY DEF IInv
<1>2. QED
  BY <1>1, Invariant, PTL

\* co_eventloop resumes no coroutine without an event, a signal or a timeout
\* that is over.
THEOREM WokenForAReasonCorrect == Spec => []WokenForAReason
<1>1. IInv => WokenForAReason
  BY DEF IInv
<1>2. QED
  BY <1>1, Invariant, PTL

\* co_poll_inner's registrations are those of waiting polls, and the items they
\* point to can be written.
THEOREM RegisteredCorrect == Spec => []RegisteredWhilePolled
<1>1. IInv => RegisteredWhilePolled
  BY InvParts, PolledMeans
<1>2. QED
  BY <1>1, Invariant, PTL

\* A coroutine leaves co_poll or co_cond_timedwait only when co_eventloop resumes
\* it as the head of the active list, for an event, a signal or a timeout, and
\* then no list, condition variable or registration refers to it: it is not
\* resumed a second time for the same wait, and nothing of the wait outlives it.
Wakes ==
  \A co \in Coroutines : pc[co] \in {"poll", "cond"} /\ pc'[co] # pc[co] =>
    /\ pc'[co] = "run" /\ Current' = co
    /\ loop = "active" /\ pstActiveList # << >> /\ co = Head(pstActiveList)
    /\ \/ Polls(co) /\ revents[co] # {}
       \/ pc[co] = "cond" /\ co \notin Range(cond)
       \/ due[co] <= 0
    /\ co \notin Slotted' \cup Active' \cup Range(cond')
    /\ \A fd \in Fds : epoll'[fd] # co

WaitEnds == [][Wakes]_vars

\* Only the loop wakes a waiter.
LEMMA StepWakes ==
  IInv /\ [Next]_vars => Wakes
<1>1. SUFFICES ASSUME IInv, [Next]_vars PROVE Wakes
  OBVIOUS
<1>2. TypeOK /\ OtherTypes /\ SwapInv /\ Lists /\ Places /\ WokenForAReason
  BY <1>1, InvParts
<1>3. pc \in [Coroutines -> {"none", "new", "run", "yield", "poll", "cond", "end"}]
  BY <1>2 DEF SwapInv, SwapTypeOK
<1>4. CASE UNCHANGED pc
  BY <1>4 DEF Wakes
<1>5. ASSUME NEW co \in Coroutines, NEW how, pc[co] \notin {"poll", "cond"},
             pc' = [pc EXCEPT ![co] = how]
      PROVE  Wakes
  BY <1>3, <1>5 DEF Wakes
<1>6. ASSUME NEW co \in Coroutines, CoroutineStep(co) PROVE Wakes
  <2>1. Current = co
    BY <1>6 DEF CoroutineStep, Leave, co_poll_inner, co_cond_timedwait, Runs
  <2>2. pc[co] = "run"
    BY <1>1, <2>1, RunnerFree
  <2>3. UNCHANGED pc \/ \E how : pc' = [pc EXCEPT ![co] = how]
    BY <1>6 DEF CoroutineStep, Leave, co_poll_inner, co_cond_timedwait
  <2>4. QED
    BY <1>4, <1>5, <2>2, <2>3
<1>7. ASSUME NEW co \in Coroutines \cup {Main}, AnyStep(co) PROVE Wakes
  <2>1. CASE co_cond_signal(co) \/ co_cond_broadcast(co)
    BY <1>4, <2>1 DEF co_cond_signal, co_cond_broadcast
  <2>2. ASSUME NEW other \in Coroutines, Create(co, other) PROVE Wakes
    <3>1. pc[other] = "none" /\ pc' = [pc EXCEPT ![other] = "new"]
      BY <2>2 DEF Create, co_create
    <3>2. QED
      BY <1>5, <3>1
  <2>3. ASSUME NEW other \in Coroutines, Resume(co, other) PROVE Wakes
    <3>1. pc[other] \in {"new", "yield"} /\ pc' = [pc EXCEPT ![other] = "run"]
      BY <2>3 DEF Resume
    <3>2. QED
      BY <1>5, <3>1
  <2>4. QED
    BY <1>7, <2>1, <2>2, <2>3 DEF AnyStep
<1>8. CASE EventloopResume
  <2>1. PICK co : co = Head(pstActiveList)
    OBVIOUS
  <2>2. /\ loop = "active" /\ pstActiveList # << >>
        /\ co_resume(co) /\ pc' = [pc EXCEPT ![co] = "run"]
    BY <1>8, <2>1 DEF EventloopResume
  <2>3. co \in Coroutines /\ co \in Active
    <3>1. pstActiveList \in Seq(Coroutines) /\ IsInjective(pstActiveList)
      BY <1>2 DEF OtherTypes, Lists
    <3>2. co \in Coroutines /\ co \in Range(pstActiveList)
      BY <2>1, <2>2, <3>1, TailList
    <3>3. QED
      BY <3>2 DEF Active
  <2>4. pc[co] \in {"poll", "cond"}
    BY <1>2, <2>3 DEF Places
  <2>5. Current' = co
    BY <1>2, <2>2, <2>3, <2>4, SwapResume
  <2>6. \/ Polls(co) /\ revents[co] # {}
        \/ pc[co] = "cond" /\ co \notin Range(cond)
        \/ due[co] <= 0
    BY <1>2, <2>3 DEF WokenForAReason
  <2>7. pc'[co] = "run" /\ \A c \in Coroutines : c # co => pc'[c] = pc[c]
    BY <1>3, <2>2, <2>3
  <2>8. Places' /\ Polled'
    <3>1. IInv'
      BY <1>1, NextInv
    <3>2. QED
      BY <3>1, WaitersParts DEF IInv
  <2>9. co \notin Slotted' \cup Active' \cup Range(cond')
    BY <2>3, <2>7, <2>8 DEF Places
  <2>10. \A fd \in Fds : epoll'[fd] # co
    <3>1. fds'[co] = {}
      BY <2>3, <2>7, <2>8 DEF Polled, Polls
    <3>2. QED
      BY <2>3, <2>8, <3>1 DEF Polled
  <2>11. QED
    BY <2>1, <2>2, <2>5, <2>6, <2>7, <2>9, <2>10 DEF Wakes
<1>9. CASE EventloopPfn \/ \E events \in SUBSET Fds : EventloopWait(events)
  BY <1>4, <1>9 DEF EventloopPfn, EventloopWait
<1>10. CASE EventloopDangling \/ Tick \/ ClockSet \/ UNCHANGED vars
  BY <1>4, <1>10 DEF EventloopDangling, Tick, ClockSet, vars
<1>11. QED
  BY <1>1, <1>6, <1>7, <1>8, <1>9, <1>10 DEF Next, MainStep

\* A wait ends in co_eventloop only, once, and leaves nothing behind.
THEOREM WaitEndsCorrect == Spec => WaitEnds
<1>1. IInv /\ [Next]_vars => [Wakes]_vars
  BY StepWakes
<1>2. QED
  BY <1>1, Invariant, PTL DEF Spec, WaitEnds

-----------------------------------------------------------------------------
(* The hooked system calls *)

\* What a coroutine's call can be: none, or one with an open descriptor; how
\* much a write has written is less than it was given, a connect polls three
\* times at most, the other calls count nothing.
CallsOn(O) ==
  {NoCall}
  \cup [op : {"read", "sendto"}, fd : O, done : {0}]
  \cup [op : {"write"}, fd : O, done : 0 .. nbyte - 1]
  \cup [op : {"connect"}, fd : O, done : 0 .. 2]

\* The types of the hooks' state.
HookTypeOK ==
  /\ cEnableSysHook \in [Callers -> BOOLEAN]
  /\ table \in [Sockets -> BOOLEAN \cup {None}]
  /\ nonblock \in [Sockets -> BOOLEAN \cup {None}]
  /\ link \in [Sockets -> {"idle", "connecting", "up", "refused"}]
  /\ rcv \in [Sockets -> 0 .. Cap] /\ snd \in [Sockets -> 0 .. Cap]
  /\ call \in [Callers -> CallsOn(Open)]
  /\ blocked \in Callers \cup {None}
  /\ managed \subseteq Sockets
  /\ unreported \in [Sockets -> Nat]

\* A managed descriptor is non-blocking and in the table, so that the next
\* fcntl keeps it so.
ManagedNonblocking ==
  \A fd \in managed : nonblock[fd] = TRUE /\ table[fd] # None

\* The thread blocks in a call that is on a blocking descriptor.
BlockedBlocks ==
  blocked # None => call[blocked] # NoCall /\ nonblock[call[blocked].fd] = FALSE

\* The inductive invariant.
HookInv ==
  /\ HookTypeOK
  /\ ManagedNonblocking
  /\ BlockedBlocks
  /\ WritesAccounted

\* What a call contributes to the count of fd.
Share(c, fd) == IF c.op = "write" /\ c.fd = fd THEN c.done ELSE 0

\* The coroutines that write to fd, and what each has written.
WritersOf(c, fd) == {co \in Callers : c[co].op = "write" /\ c[co].fd = fd}
DoneBy(c) == [co \in Callers |-> c[co].done]

\* What the constants are.
LEMMA HookConstants ==
  /\ IsFiniteSet(Callers) /\ Sockets \subseteq Nat
  /\ Cap \in Nat /\ Cap > 0 /\ nbyte \in Nat /\ nbyte > 0
  /\ None \notin Callers /\ None # TRUE /\ None # FALSE
<1>1. /\ IsFiniteSet(Callers) /\ Sockets \subseteq Nat
      /\ Cap \in Nat /\ Cap > 0 /\ nbyte \in Nat /\ nbyte > 0
  BY HooksAssumption
<1>2. None \notin Callers /\ None \notin BOOLEAN
  BY HooksAssumption, Zenon
<1>3. None # TRUE /\ None # FALSE
  BY <1>2
<1>4. QED
  BY <1>1, <1>2, <1>3

\* The sum WritesAccounted speaks of, with the counts as a function.
LEMMA WrittenTotal ==
  ASSUME NEW c, NEW T \in SUBSET Callers
  PROVE  MapThenSumSet(LAMBDA co : c[co].done, T) = Total(DoneBy(c), T)
<1> DEFINE w == DoneBy(c)
           Steps(f) == f = [s \in SUBSET T |->
                              IF s = {} THEN 0
                              ELSE c[CHOOSE x \in s : TRUE].done
                                   + f[s \ {CHOOSE x \in s : TRUE}]]
           g == CHOOSE f : Steps(f)
<1>1. IsFiniteSet(T)
  BY HookConstants, FS_Subset
<1>2. \A f : SumSteps(f, w, SUBSET T) <=> Steps(f)
  <2>1. \A s \in SUBSET T : s # {} => w[CHOOSE x \in s : TRUE] = c[CHOOSE x \in s : TRUE].done
    BY DEF DoneBy
  <2> HIDE DEF w
  <2>2. QED
    BY <2>1 DEF SumSteps
<1>3. PICK f : Totals(f, w, T)
  BY <1>1, TotalSteps
<1>4. SumSteps(f, w, SUBSET T) /\ Total(w, T) = f[T]
  BY <1>3 DEF Totals
<1>5. Steps(f)
  BY <1>2, <1>4
<1>6. Steps(g)
  BY <1>5
<1>7. SumSteps(g, w, SUBSET T)
  BY <1>2, <1>6
<1>8. AgreeOn(w, w, T)
  BY DEF AgreeOn
<1>9. AgreeOn(g, f, SUBSET T)
  <2> HIDE DEF g, w
  <2>1. QED
    BY <1>1, <1>4, <1>7, <1>8, SumStepsAgree
<1>10. g[T] = f[T]
  BY <1>9 DEF AgreeOn
<1>11. MapThenSumSet(LAMBDA co : c[co].done, T) = g[T]
  BY DEF MapThenSumSet, MapThenFoldSet
<1>12. QED
  BY <1>4, <1>10, <1>11

\* The records of calls.
LEMMA CallRecords ==
  ASSUME NEW O, NEW r \in CallsOn(O)
  PROVE  /\ r.done \in Nat
         /\ r = NoCall <=> r.op = "none"
         /\ r # NoCall => r.fd \in O
         /\ r.op = "write" => r.done \in 0 .. nbyte - 1
         /\ r.op = "connect" => r.done \in 0 .. 2
         /\ r.op # "write" => \A fd : Share(r, fd) = 0
         /\ r.op = "write" => \A fd : Share(r, fd) = IF fd = r.fd THEN r.done ELSE 0
<1>1. nbyte \in Nat
  BY HookConstants
<1>2. r.op # "write" => \A fd : Share(r, fd) = 0
  BY DEF Share
<1>3. r.op = "write" => \A fd : Share(r, fd) = IF fd = r.fd THEN r.done ELSE 0
  BY DEF Share
<1>4. /\ r.done \in Nat
      /\ r = NoCall <=> r.op = "none"
      /\ r # NoCall => r.fd \in O
      /\ r.op = "write" => r.done \in 0 .. nbyte - 1
      /\ r.op = "connect" => r.done \in 0 .. 2
  BY <1>1 DEF CallsOn, NoCall
<1>5. QED
  BY <1>2, <1>3, <1>4

\* The records that the calls enter.
LEMMA MadeCalls ==
  ASSUME NEW O, NEW fd \in O
  PROVE  /\ NoCall \in CallsOn(O) /\ NoCall.op = "none"
         /\ [op |-> "read", fd |-> fd, done |-> 0] \in CallsOn(O)
         /\ [op |-> "sendto", fd |-> fd, done |-> 0] \in CallsOn(O)
         /\ \A n \in 0 .. nbyte - 1 : [op |-> "write", fd |-> fd, done |-> n] \in CallsOn(O)
         /\ \A n \in 0 .. 2 : [op |-> "connect", fd |-> fd, done |-> n] \in CallsOn(O)
  BY DEF CallsOn, NoCall

\* One call begins, goes on or returns.
LEMMA OneCallChanges ==
  ASSUME NEW O, call \in [Callers -> CallsOn(O)], NEW co \in Callers,
         NEW r \in CallsOn(O), call' = [call EXCEPT ![co] = r], NEW fd
  PROVE  /\ Total(DoneBy(call), WritersOf(call, fd)) \in Nat
         /\ Total(DoneBy(call'), WritersOf(call', fd)) \in Nat
         /\ Total(DoneBy(call'), WritersOf(call', fd)) + Share(call[co], fd)
            = Total(DoneBy(call), WritersOf(call, fd)) + Share(r, fd)
<1> DEFINE v == DoneBy(call)  w == DoneBy(call')
           S == WritersOf(call, fd)  T == WritersOf(call', fd)
           R == S \ {co}
<1>0. /\ \A x \in Callers : call[x].done \in Nat
      /\ r.done \in Nat
      /\ \A x \in Callers : call'[x] = IF x = co THEN r ELSE call[x]
  BY CallRecords
<1>1. /\ \A x \in Callers : v[x] = call[x].done /\ v[x] \in Nat
      /\ \A x \in Callers : w[x] = call'[x].done /\ w[x] \in Nat
  BY <1>0 DEF DoneBy
<1>2. /\ S \in SUBSET Callers /\ T \in SUBSET Callers /\ R \in SUBSET Callers
      /\ R = T \ {co}
      /\ IsFiniteSet(Callers) /\ IsFiniteSet(R)
  <2>1. S \in SUBSET Callers /\ T \in SUBSET Callers /\ R \in SUBSET Callers
    BY DEF WritersOf
  <2>2. R = T \ {co}
    BY <1>0 DEF WritersOf
  <2>3. QED
    BY <2>1, <2>2, HookConstants, FS_Subset
<1>3. /\ co \in S <=> call[co].op = "write" /\ call[co].fd = fd
      /\ co \in T <=> r.op = "write" /\ r.fd = fd
      /\ v[co] = call[co].done /\ w[co] = r.done
  BY <1>0, <1>1 DEF WritersOf
<1>4. \A x \in R : v[x] = w[x]
  BY <1>0, <1>1, <1>2
<1> HIDE DEF v, w, S, T, R
<1>5. Total(v, S) \in Nat /\ Total(v, R) \in Nat /\ Total(w, T) \in Nat
  BY <1>1, <1>2, TotalNat
<1>6. Total(v, R) = Total(w, R)
  BY <1>2, <1>4, TotalSame
<1>7. Total(v, S) = Share(call[co], fd) + Total(v, R)
  <2>1. CASE co \in S
    <3>1. Total(v, S) = v[co] + Total(v, R)
      BY <1>1, <1>2, <2>1, TotalTake DEF R
    <3>2. QED
      BY <1>3, <2>1, <3>1 DEF Share
  <2>2. CASE co \notin S
    <3>1. S = R
      BY <2>2 DEF R
    <3>2. Share(call[co], fd) = 0
      BY <1>3, <2>2 DEF Share
    <3>3. QED
      BY <1>5, <3>1, <3>2
  <2>3. QED
    BY <2>1, <2>2
<1>8. Total(w, T) = Share(r, fd) + Total(w, R)
  <2>1. CASE co \in T
    <3>1. Total(w, T) = w[co] + Total(w, R)
      BY <1>1, <1>2, <2>1, TotalTake
    <3>2. QED
      BY <1>3, <2>1, <3>1 DEF Share
  <2>2. CASE co \notin T
    <3>1. T = R
      BY <1>2, <2>2
    <3>2. Share(r, fd) = 0
      BY <1>3, <2>2 DEF Share
    <3>3. QED
      BY <1>5, <3>1, <3>2
  <2>3. QED
    BY <2>1, <2>2
<1>9. Share(call[co], fd) \in Nat /\ Share(r, fd) \in Nat
  BY <1>0 DEF Share
<1>10. QED
  BY <1>5, <1>6, <1>7, <1>8, <1>9 DEF v, w, S, T

\* WritesAccounted, with the counts as a function.
LEMMA AccountedTotal ==
  WritesAccounted <=>
    \A fd \in Sockets : unreported[fd] = Total(DoneBy(call), WritersOf(call, fd))
<1>1. \A fd : WritersOf(call, fd) \in SUBSET Callers
  BY DEF WritersOf
<1>2. \A fd : MapThenSumSet(LAMBDA co : call[co].done, WritersOf(call, fd))
              = Total(DoneBy(call), WritersOf(call, fd))
  BY <1>1, WrittenTotal
<1>3. QED
  BY <1>2 DEF WritesAccounted, WritersOf

\* The same in the next state.
LEMMA AccountedTotalNext ==
  WritesAccounted' <=>
    \A fd \in Sockets : unreported'[fd] = Total(DoneBy(call'), WritersOf(call', fd))
<1>1. (WritesAccounted <=>
        \A fd \in Sockets : unreported[fd] = Total(DoneBy(call), WritersOf(call, fd)))'
  BY AccountedTotal, PTL
<1>2. QED
  BY <1>1

\* A call begins, goes on or returns.
LEMMA CallStep ==
  ASSUME HookInv, NEW co \in Callers, NEW r \in CallsOn(Open),
         call' = [call EXCEPT ![co] = r],
         \/ blocked' = None
         \/ blocked' = co /\ r # NoCall /\ nonblock[r.fd] = FALSE,
         UNCHANGED <<cEnableSysHook, table, nonblock, managed>>,
         link' \in [Sockets -> {"idle", "connecting", "up", "refused"}],
         rcv' \in [Sockets -> 0 .. Cap], snd' \in [Sockets -> 0 .. Cap],
         unreported' = [fd \in Sockets |-> unreported[fd] - Share(call[co], fd) + Share(r, fd)]
  PROVE  HookInv'
<1>1. /\ call \in [Callers -> CallsOn(Open)] /\ Open' = Open
      /\ unreported \in [Sockets -> Nat] /\ HookTypeOK /\ WritesAccounted
  BY DEF HookInv, HookTypeOK, Open
<1>2. /\ call' \in [Callers -> CallsOn(Open)]
      /\ \A x \in Callers : call'[x] = IF x = co THEN r ELSE call[x]
      /\ call'[co] = r
  BY <1>1
<1>3. (\A x \in Callers : call[x].done \in Nat) /\ r.done \in Nat
  BY <1>1, CallRecords
<1>4. ASSUME NEW fd \in Sockets
      PROVE  /\ unreported'[fd] \in Nat
             /\ unreported'[fd] = Total(DoneBy(call'), WritersOf(call', fd))
  <2>1. unreported[fd] = Total(DoneBy(call), WritersOf(call, fd))
    BY <1>1, AccountedTotal
  <2>2. /\ Total(DoneBy(call), WritersOf(call, fd)) \in Nat
        /\ Total(DoneBy(call'), WritersOf(call', fd)) \in Nat
        /\ Total(DoneBy(call'), WritersOf(call', fd)) + Share(call[co], fd)
           = Total(DoneBy(call), WritersOf(call, fd)) + Share(r, fd)
    BY <1>1, OneCallChanges
  <2>3. unreported'[fd] = unreported[fd] - Share(call[co], fd) + Share(r, fd)
    OBVIOUS
  <2>4. Share(call[co], fd) \in Nat /\ Share(r, fd) \in Nat
    BY <1>3 DEF Share
  <2>5. QED
    BY <2>1, <2>2, <2>3, <2>4
<1>5. WritesAccounted'
  BY <1>4, AccountedTotalNext
<1>6. unreported' \in [Sockets -> Nat]
  BY <1>4
<1>7. HookTypeOK'
  <2>1. blocked' \in Callers \cup {None}
    OBVIOUS
  <2>2. /\ cEnableSysHook' \in [Callers -> BOOLEAN]
        /\ table' \in [Sockets -> BOOLEAN \cup {None}]
        /\ nonblock' \in [Sockets -> BOOLEAN \cup {None}]
        /\ managed' \subseteq Sockets
    BY <1>1 DEF HookTypeOK
  <2>3. call' \in [Callers -> CallsOn(Open')]
    BY <1>1, <1>2
  <2>4. QED
    BY <1>6, <2>1, <2>2, <2>3 DEF HookTypeOK, CallsOn, NoCall
<1>8. ManagedNonblocking'
  BY DEF HookInv, ManagedNonblocking
<1>9. BlockedBlocks'
  <2>1. CASE blocked' = None
    BY <2>1 DEF BlockedBlocks
  <2>2. CASE blocked' = co /\ r # NoCall /\ nonblock[r.fd] = FALSE
    <3>1. call'[blocked'] = r /\ nonblock' = nonblock
      BY <1>2, <2>2
    <3>2. QED
      BY <2>2, <3>1 DEF BlockedBlocks, NoCall
  <2>3. QED
    BY <2>1, <2>2
<1>10. QED
  BY <1>5, <1>7, <1>8, <1>9 DEF HookInv

\* The calls stay as they are: the tables, the flags and the buffers change.
LEMMA QuietStep ==
  ASSUME HookInv, UNCHANGED <<call, blocked, unreported>>,
         cEnableSysHook' \in [Callers -> BOOLEAN],
         table' \in [Sockets -> BOOLEAN \cup {None}],
         nonblock' \in [Sockets -> BOOLEAN \cup {None}],
         link' \in [Sockets -> {"idle", "connecting", "up", "refused"}],
         rcv' \in [Sockets -> 0 .. Cap], snd' \in [Sockets -> 0 .. Cap],
         managed' \subseteq Sockets,
         \A fd \in managed' : nonblock'[fd] = TRUE /\ table'[fd] # None,
         blocked # None => nonblock' = nonblock,
         \A co \in Callers : call[co] # NoCall => call[co].fd \in Open'
  PROVE  HookInv'
<1>1. call \in [Callers -> CallsOn(Open)] /\ HookTypeOK
  BY DEF HookInv, HookTypeOK
<1>2. \A co \in Callers : call[co] \in CallsOn(Open')
  <2> TAKE co \in Callers
  <2>1. call[co] \in CallsOn(Open)
    BY <1>1
  <2>2. call[co] # NoCall => call[co].fd \in Open'
    OBVIOUS
  <2> HIDE DEF Open
  <2>3. QED
    BY <2>1, <2>2 DEF CallsOn
<1>3. call' \in [Callers -> CallsOn(Open')]
  BY <1>1, <1>2
<1>4. HookTypeOK'
  <2>1. /\ blocked' \in Callers \cup {None} /\ unreported' \in [Sockets -> Nat]
    BY <1>1 DEF HookTypeOK
  <2>2. QED
    BY <1>3, <2>1 DEF HookTypeOK, CallsOn, NoCall
<1>5. ManagedNonblocking'
  BY DEF ManagedNonblocking
<1>6. BlockedBlocks'
  BY DEF HookInv, BlockedBlocks, NoCall
<1>7. WritesAccounted'
  BY AccountedTotal, AccountedTotalNext DEF HookInv
<1>8. QED
  BY <1>4, <1>5, <1>6, <1>7 DEF HookInv

\* At the start no descriptor is open and no call is under way.
LEMMA HookInitInv ==
  HookInit => HookInv
<1> SUFFICES ASSUME HookInit PROVE HookInv
  OBVIOUS
<1> USE DEF HookInit
<1>1. Cap \in Nat /\ nbyte \in Nat
  BY HookConstants
<1>2. call \in [Callers -> CallsOn(Open)]
  BY DEF CallsOn
<1>3. HookTypeOK
  BY <1>1, <1>2 DEF HookTypeOK
<1>4. ManagedNonblocking /\ BlockedBlocks
  BY DEF ManagedNonblocking, BlockedBlocks
<1>5. WritesAccounted
  <2>1. ASSUME NEW fd \in Sockets
        PROVE  unreported[fd] = Total(DoneBy(call), WritersOf(call, fd))
    <3>1. WritersOf(call, fd) = {}
      BY DEF WritersOf, NoCall
    <3>2. IsFiniteSet({}) /\ \A x \in {} : DoneBy(call)[x] \in Nat
      BY FS_EmptySet
    <3>3. Total(DoneBy(call), {}) = 0
      BY <3>2, TotalTake
    <3>4. QED
      BY <3>1, <3>3
  <2>2. QED
    BY <2>1, AccountedTotal
<1>6. QED
  BY <1>3, <1>4, <1>5 DEF HookInv

\* What the invariant says of the calls that are under way.
LEMMA CallsMean ==
  ASSUME HookInv, NEW co \in Callers
  PROVE  /\ call[co] \in CallsOn(Open)
         /\ call[co] = NoCall <=> call[co].op = "none"
         /\ call[co] # NoCall => call[co].fd \in Open
         /\ call[co].op = "write" => call[co].done \in 0 .. nbyte - 1
         /\ call[co].op = "connect" => call[co].done \in 0 .. 2
         /\ call[co].op # "write" => \A fd : Share(call[co], fd) = 0
         /\ call[co].op = "write" =>
              \A fd : Share(call[co], fd) = IF fd = call[co].fd THEN call[co].done ELSE 0
<1>1. call[co] \in CallsOn(Open)
  BY DEF HookInv, HookTypeOK
<1>2. QED
  BY <1>1, CallRecords

\* A call that writes nothing: the count of unreported units stays.
LEMMA OtherCallStep ==
  ASSUME HookInv, NEW co \in Callers, NEW r \in CallsOn(Open),
         call' = [call EXCEPT ![co] = r],
         call[co].op # "write", r.op # "write",
         \/ blocked' = None
         \/ blocked' = co /\ r # NoCall /\ nonblock[r.fd] = FALSE,
         UNCHANGED <<cEnableSysHook, table, nonblock, managed, unreported>>,
         link' \in [Sockets -> {"idle", "connecting", "up", "refused"}],
         rcv' \in [Sockets -> 0 .. Cap], snd' \in [Sockets -> 0 .. Cap]
  PROVE  HookInv'
<1>1. \A fd : Share(call[co], fd) = 0 /\ Share(r, fd) = 0
  BY CallsMean, CallRecords
<1>2. unreported \in [Sockets -> Nat]
  BY DEF HookInv, HookTypeOK
<1>3. unreported' = [fd \in Sockets |-> unreported[fd] - Share(call[co], fd) + Share(r, fd)]
  BY <1>1, <1>2
<1>4. QED
  BY <1>3, CallStep

\* The descriptors' connections and buffers.
LEMMA BufferTypes ==
  ASSUME HookInv
  PROVE  /\ link \in [Sockets -> {"idle", "connecting", "up", "refused"}]
         /\ rcv \in [Sockets -> 0 .. Cap] /\ snd \in [Sockets -> 0 .. Cap]
         /\ Cap \in Nat
  BY HookConstants DEF HookInv, HookTypeOK

\* The flag of an open descriptor.
LEMMA OpenFlag ==
  ASSUME HookInv, NEW fd \in Open
  PROVE  fd \in Sockets /\ nonblock[fd] \in BOOLEAN
  BY DEF HookInv, HookTypeOK, Open

\* The system's read, of a new call, of one that polled, of one that blocked.
LEMMA RawReadInv ==
  ASSUME HookInv, NEW co \in Callers, NEW fd \in Open, call[co].op # "write",
         RawRead(co, fd),
         UNCHANGED <<cEnableSysHook, table, nonblock, link, snd, managed, unreported>>
  PROVE  HookInv'
<1>1. fd \in Sockets /\ nonblock[fd] \in BOOLEAN
  BY OpenFlag
<1>2. /\ link' \in [Sockets -> {"idle", "connecting", "up", "refused"}]
      /\ rcv' \in [Sockets -> 0 .. Cap] /\ snd' \in [Sockets -> 0 .. Cap]
  BY <1>1, BufferTypes DEF RawRead
<1>3. CASE Return(co) /\ blocked' = None
  <2>1. NoCall \in CallsOn(Open) /\ NoCall.op # "write"
    BY MadeCalls
  <2>2. call' = [call EXCEPT ![co] = NoCall]
    BY <1>3 DEF Return
  <2>3. QED
    BY <1>2, <1>3, <2>1, <2>2, OtherCallStep
<1>4. CASE ~ nonblock[fd] /\ Enter(co, "read", fd, 0) /\ blocked' = co
  <2> DEFINE r == [op |-> "read", fd |-> fd, done |-> 0]
  <2>1. r \in CallsOn(Open)
    BY MadeCalls
  <2>2. call' = [call EXCEPT ![co] = r]
    BY <1>4 DEF Enter
  <2>3. r # NoCall /\ r.op # "write" /\ r.fd = fd
    BY DEF NoCall
  <2>4. nonblock[r.fd] = FALSE
    BY <1>1, <1>4, <2>3
  <2> HIDE DEF r
  <2>5. QED
    BY <1>2, <1>4, <2>1, <2>2, <2>3, <2>4, OtherCallStep
<1>5. QED
  BY <1>3, <1>4 DEF RawRead

\* The system's sendto, likewise.
LEMMA RawSendtoInv ==
  ASSUME HookInv, NEW co \in Callers, NEW fd \in Open, call[co].op # "write",
         RawSendto(co, fd),
         UNCHANGED <<cEnableSysHook, table, nonblock, link, rcv, managed, unreported>>
  PROVE  HookInv'
<1>1. fd \in Sockets /\ nonblock[fd] \in BOOLEAN
  BY OpenFlag
<1>2. /\ link' \in [Sockets -> {"idle", "connecting", "up", "refused"}]
      /\ rcv' \in [Sockets -> 0 .. Cap] /\ snd' \in [Sockets -> 0 .. Cap]
  BY <1>1, BufferTypes DEF RawSendto
<1>3. CASE Return(co) /\ blocked' = None
  <2>1. NoCall \in CallsOn(Open) /\ NoCall.op # "write"
    BY MadeCalls
  <2>2. call' = [call EXCEPT ![co] = NoCall]
    BY <1>3 DEF Return
  <2>3. QED
    BY <1>2, <1>3, <2>1, <2>2, OtherCallStep
<1>4. CASE ~ nonblock[fd] /\ Enter(co, "sendto", fd, 0) /\ blocked' = co
  <2> DEFINE r == [op |-> "sendto", fd |-> fd, done |-> 0]
  <2>1. r \in CallsOn(Open)
    BY MadeCalls
  <2>2. call' = [call EXCEPT ![co] = r]
    BY <1>4 DEF Enter
  <2>3. r # NoCall /\ r.op # "write" /\ r.fd = fd
    BY DEF NoCall
  <2>4. nonblock[r.fd] = FALSE
    BY <1>1, <1>4, <2>3
  <2> HIDE DEF r
  <2>5. QED
    BY <1>2, <1>4, <2>1, <2>2, <2>3, <2>4, OtherCallStep
<1>5. QED
  BY <1>3, <1>4 DEF RawSendto

\* The kernel takes no more than there is room for and than there is to write.
LEMMA TakesBounds ==
  ASSUME NEW fd, snd[fd] \in Nat, NEW done \in 0 .. nbyte - 1
  PROVE  /\ Takes(fd, done) \in Nat
         /\ Takes(fd, done) <= snd[fd] /\ done + Takes(fd, done) <= nbyte
<1>1. PICK a, b : a = snd[fd] /\ b = nbyte - done /\ a \in Nat /\ b \in Nat
  BY HookConstants
<1>2. \E m \in {a, b} : \A n \in {a, b} : m <= n
  BY <1>1
<1>3. PICK m : m = CHOOSE x \in {a, b} : \A y \in {a, b} : x <= y
  OBVIOUS
<1>4. m \in {a, b} /\ \A n \in {a, b} : m <= n
  BY <1>2, <1>3
<1>5. Takes(fd, done) = m
  BY <1>1, <1>3 DEF Takes, Min
<1>6. QED
  BY <1>1, <1>4, <1>5, HookConstants

\* A write that is where call says, or begins with done = 0.
LEMMA RawWriteInv ==
  ASSUME HookInv, NEW co \in Callers, NEW fd \in Open, NEW done \in 0 .. nbyte - 1, NEW R,
         \A x \in Sockets : Share(call[co], x) = IF x = fd THEN done ELSE 0,
         RawWrite(co, fd, done, R),
         UNCHANGED <<cEnableSysHook, table, nonblock, link, rcv, managed>>
  PROVE  HookInv'
<1>1. fd \in Sockets /\ nonblock[fd] \in BOOLEAN /\ snd[fd] \in Nat /\ snd[fd] <= Cap
  BY OpenFlag, BufferTypes
<1>2. unreported \in [Sockets -> Nat] /\ nbyte \in Nat /\ nbyte > 0
  BY HookConstants DEF HookInv, HookTypeOK
<1> DEFINE stuck(n) == ~ nonblock[fd] /\ n > 0 /\ done + n < nbyte
<1>3. PICK n \in {0, Takes(fd, done)}, more \in BOOLEAN :
        /\ snd' = [snd EXCEPT ![fd] = @ - n]
        /\ more => /\ Enter(co, "write", fd, done + n) /\ done + n < nbyte
                   /\ unreported' = [unreported EXCEPT ![fd] = @ + n]
        /\ ~ more => /\ Return(co) /\ ~ stuck(n)
                     /\ unreported' = [unreported EXCEPT ![fd] = @ + n - Returned(done, n)]
        /\ blocked' = IF stuck(n) THEN co ELSE None
  <2>1. PICK ret \in {-1, 0, Takes(fd, done)} :
          LET n == IF ret < 0 THEN 0 ELSE ret
          IN  /\ snd' = [snd EXCEPT ![fd] = @ - n]
              /\ IF stuck(n) \/ (done + n < nbyte /\ ret \in R)
                 THEN /\ Enter(co, "write", fd, done + n)
                      /\ unreported' = [unreported EXCEPT ![fd] = @ + n]
                 ELSE /\ Return(co)
                      /\ unreported' = [unreported EXCEPT ![fd] = @ + n - Returned(done, n)]
              /\ blocked' = IF stuck(n) THEN co ELSE None
    BY DEF RawWrite
  <2>2. PICK n : n = IF ret < 0 THEN 0 ELSE ret
    OBVIOUS
  <2>3. n \in {0, Takes(fd, done)}
    BY <2>2
  <2>4. PICK more \in BOOLEAN : more <=> stuck(n) \/ (done + n < nbyte /\ ret \in R)
    OBVIOUS
  <2>5. more => done + n < nbyte
    BY <2>4
  <2>6. QED
    BY <2>1, <2>2, <2>3, <2>4, <2>5
<1>4. n \in Nat /\ n <= snd[fd] /\ done + n <= nbyte /\ done \in Nat
  BY <1>1, <1>2, TakesBounds
<1>5. /\ link' \in [Sockets -> {"idle", "connecting", "up", "refused"}]
      /\ rcv' \in [Sockets -> 0 .. Cap] /\ snd' \in [Sockets -> 0 .. Cap]
  BY <1>1, <1>3, <1>4, BufferTypes
<1>6. CASE more
  <2> DEFINE r == [op |-> "write", fd |-> fd, done |-> done + n]
  <2>1. done + n \in 0 .. nbyte - 1
    <3>1. done + n < nbyte
      BY <1>3, <1>6
    <3>2. QED
      BY <1>2, <1>4, <3>1
  <2>2. r \in CallsOn(Open)
    BY <2>1, MadeCalls
  <2>3. call' = [call EXCEPT ![co] = r]
    BY <1>3, <1>6 DEF Enter
  <2>4. r # NoCall /\ r.fd = fd /\ \A x : Share(r, x) = IF x = fd THEN done + n ELSE 0
    BY DEF NoCall, Share
  <2>5. stuck(n) => nonblock[r.fd] = FALSE
    BY <1>1, <2>4
  <2>6. unreported' = [unreported EXCEPT ![fd] = @ + n]
    BY <1>3, <1>6
  <2>7. blocked' = None \/ (blocked' = co /\ nonblock[r.fd] = FALSE)
    BY <1>3, <2>5
  <2> HIDE DEF r, stuck
  <2>8. unreported' = [x \in Sockets |-> unreported[x] - Share(call[co], x) + Share(r, x)]
    <3>1. \A x \in Sockets : unreported'[x] = unreported[x] - Share(call[co], x) + Share(r, x)
      BY <1>1, <1>2, <1>4, <2>4, <2>6
    <3>2. QED
      BY <1>2, <2>6, <3>1
  <2>9. QED
    BY <1>5, <2>2, <2>3, <2>4, <2>7, <2>8, CallStep
<1>7. CASE ~ more
  <2>1. NoCall \in CallsOn(Open) /\ NoCall.op # "write"
    BY MadeCalls
  <2>2. call' = [call EXCEPT ![co] = NoCall]
    BY <1>3, <1>7 DEF Return
  <2>3. blocked' = None
    BY <1>3, <1>7
  <2>4. \A x : Share(NoCall, x) = 0
    BY <2>1 DEF Share
  <2>5. unreported' = [unreported EXCEPT ![fd] = @ + n - (done + n)]
    BY <1>3, <1>7 DEF Returned
  <2> HIDE DEF stuck
  <2>6. unreported' = [x \in Sockets |-> unreported[x] - Share(call[co], x) + Share(NoCall, x)]
    <3>1. \A x \in Sockets :
            unreported'[x] = unreported[x] - Share(call[co], x) + Share(NoCall, x)
      BY <1>1, <1>2, <1>4, <2>4, <2>5
    <3>2. QED
      BY <1>2, <2>5, <3>1
  <2>7. QED
    BY <1>5, <2>1, <2>2, <2>3, <2>6, CallStep
<1>8. QED
  BY <1>6, <1>7

\* The system's write blocks before it has written anything.
LEMMA WriteBlocksInv ==
  ASSUME HookInv, NEW co \in Callers, NEW fd \in Open, NEW done \in 0 .. nbyte - 1,
         \A x \in Sockets : Share(call[co], x) = IF x = fd THEN done ELSE 0,
         WriteBlocks(co, fd, done),
         UNCHANGED <<cEnableSysHook, table, nonblock, link, rcv, managed>>
  PROVE  HookInv'
<1>1. fd \in Sockets /\ nonblock[fd] \in BOOLEAN
  BY OpenFlag
<1>2. unreported \in [Sockets -> Nat] /\ done \in Nat
  BY HookConstants DEF HookInv, HookTypeOK
<1> DEFINE r == [op |-> "write", fd |-> fd, done |-> done]
<1>3. r \in CallsOn(Open)
  BY MadeCalls
<1>4. call' = [call EXCEPT ![co] = r] /\ blocked' = co /\ UNCHANGED <<snd, unreported>>
  BY DEF WriteBlocks, Enter
<1>5. r # NoCall /\ r.fd = fd /\ \A x : Share(r, x) = IF x = fd THEN done ELSE 0
  BY DEF NoCall, Share
<1>6. nonblock[r.fd] = FALSE
  BY <1>1, <1>5 DEF WriteBlocks
<1> HIDE DEF r
<1>7. \A x \in Sockets : unreported[x] = unreported[x] - Share(call[co], x) + Share(r, x)
  BY <1>2, <1>5
<1>8. unreported' = [x \in Sockets |-> unreported[x] - Share(call[co], x) + Share(r, x)]
  BY <1>2, <1>4, <1>7
<1>9. /\ link' \in [Sockets -> {"idle", "connecting", "up", "refused"}]
      /\ rcv' \in [Sockets -> 0 .. Cap] /\ snd' \in [Sockets -> 0 .. Cap]
  BY <1>4, BufferTypes
<1>10. QED
  BY <1>3, <1>4, <1>5, <1>6, <1>8, <1>9, CallStep

-----------------------------------------------------------------------------
(* The steps *)

\* A coroutine that is in no call.
LEMMA ReadyMeans ==
  ASSUME HookInv, NEW co \in Callers, Ready(co)
  PROVE  /\ blocked = None /\ call[co] = NoCall /\ call[co].op = "none"
         /\ \A fd : Share(call[co], fd) = 0
<1>1. blocked = None /\ call[co] = NoCall /\ NoCall.op = "none"
  BY DEF Ready, NoCall
<1>2. call[co].op # "write"
  BY <1>1
<1>3. QED
  BY <1>1, <1>2, CallsMean

\* The hook is switched on or off, or nothing happens.
LEMMA SetHookInv ==
  ASSUME HookInv, (\E co \in Callers : SetHook(co)) \/ UNCHANGED hookVars
  PROVE  HookInv'
<1>1. /\ cEnableSysHook' \in [Callers -> BOOLEAN]
      /\ UNCHANGED <<table, nonblock, link, rcv, snd, call, blocked, managed, unreported>>
      /\ Open' = Open
  BY DEF SetHook, hookVars, kernelVars, HookInv, HookTypeOK, Open
<1>2. /\ table' \in [Sockets -> BOOLEAN \cup {None}]
      /\ nonblock' \in [Sockets -> BOOLEAN \cup {None}]
      /\ managed' \subseteq Sockets
      /\ \A n \in managed' : nonblock'[n] = TRUE /\ table'[n] # None
  BY <1>1 DEF HookInv, HookTypeOK, ManagedNonblocking
<1>3. \A x \in Callers : call[x] # NoCall => call[x].fd \in Open'
  BY <1>1, CallsMean
<1>4. QED
  BY <1>1, <1>2, <1>3, BufferTypes, QuietStep

\* A descriptor is made, changed and closed.
LEMMA DescriptorInv ==
  ASSUME HookInv, NEW co \in Callers, NEW fd \in Sockets,
         \/ socket(co, fd) \/ co_accept(co, fd) \/ close(co, fd)
         \/ \E param \in BOOLEAN : fcntl(co, fd, param)
  PROVE  HookInv'
<1>1. /\ cEnableSysHook \in [Callers -> BOOLEAN]
      /\ table \in [Sockets -> BOOLEAN \cup {None}]
      /\ nonblock \in [Sockets -> BOOLEAN \cup {None}]
      /\ managed \subseteq Sockets
      /\ \A n \in managed : nonblock[n] = TRUE /\ table[n] # None
  BY DEF HookInv, HookTypeOK, ManagedNonblocking
<1>2. /\ link \in [Sockets -> {"idle", "connecting", "up", "refused"}]
      /\ rcv \in [Sockets -> 0 .. Cap] /\ snd \in [Sockets -> 0 .. Cap]
      /\ 0 \in 0 .. Cap /\ Cap \in 0 .. Cap
  BY BufferTypes
<1>3. None # TRUE /\ None # FALSE
  BY HookConstants
<1>4. \A x \in Callers : call[x] # NoCall => call[x].fd \in Open
  BY CallsMean
<1>6. CASE socket(co, fd)
  <2>1. blocked = None /\ fd \notin Open /\ UNCHANGED <<cEnableSysHook, call, blocked, unreported>>
    BY <1>6 DEF socket, Ready, Opens
  <2>2. /\ link' \in [Sockets -> {"idle", "connecting", "up", "refused"}]
        /\ rcv' \in [Sockets -> 0 .. Cap] /\ snd' \in [Sockets -> 0 .. Cap]
    BY <1>2, <1>6 DEF socket, Opens
  <2>3. CASE cEnableSysHook[co]
    <3>1. /\ table' = [table EXCEPT ![fd] = FALSE]
          /\ nonblock' = [nonblock EXCEPT ![fd] = TRUE]
          /\ managed' = managed \cup {fd}
      BY <1>3, <1>6, <2>3 DEF socket, FlagsOnSetFL
    <3>2. Open \subseteq Open'
      BY <1>1, <1>3, <2>1, <3>1 DEF Open
    <3>3. \A n \in managed' : nonblock'[n] = TRUE /\ table'[n] # None
      BY <1>1, <1>3, <3>1
    <3>4. QED
      BY <1>1, <1>4, <2>1, <2>2, <3>1, <3>2, <3>3, QuietStep
  <2>4. CASE ~ cEnableSysHook[co]
    <3>1. /\ nonblock' = [nonblock EXCEPT ![fd] = FALSE]
          /\ UNCHANGED <<table, managed>>
      BY <1>6, <2>4 DEF socket
    <3>2. Open \subseteq Open'
      BY <1>1, <1>3, <2>1, <3>1 DEF Open
    <3>3. \A n \in managed : n # fd
      BY <1>1, <1>3, <2>1 DEF Open
    <3>4. \A n \in managed' : nonblock'[n] = TRUE /\ table'[n] # None
      BY <1>1, <3>1, <3>3
    <3>5. QED
      BY <1>1, <1>4, <2>1, <2>2, <3>1, <3>2, <3>4, QuietStep
  <2>5. QED
    BY <2>3, <2>4
<1>7. CASE co_accept(co, fd)
  <2>1. /\ blocked = None /\ fd \notin Open
        /\ UNCHANGED <<cEnableSysHook, call, blocked, managed, unreported>>
        /\ table' = [table EXCEPT ![fd] = FALSE]
        /\ nonblock' = [nonblock EXCEPT ![fd] = FALSE]
    BY <1>7 DEF co_accept, Ready, Opens
  <2>2. /\ link' \in [Sockets -> {"idle", "connecting", "up", "refused"}]
        /\ rcv' \in [Sockets -> 0 .. Cap] /\ snd' \in [Sockets -> 0 .. Cap]
    BY <1>2, <1>7 DEF co_accept, Opens
  <2>3. Open \subseteq Open'
    BY <1>1, <1>3, <2>1 DEF Open
  <2>4. \A n \in managed : n # fd
    BY <1>1, <1>3, <2>1 DEF Open
  <2>5. \A n \in managed' : nonblock'[n] = TRUE /\ table'[n] # None
    BY <1>1, <2>1, <2>4
  <2>6. QED
    BY <1>1, <1>4, <2>1, <2>2, <2>3, <2>5, QuietStep
<1>8. CASE close(co, fd)
  <2>1. /\ blocked = None /\ UNCHANGED <<cEnableSysHook, link, rcv, snd, call, blocked, unreported>>
        /\ table' \in [Sockets -> BOOLEAN \cup {None}]
        /\ \A n \in Sockets : n # fd => table'[n] = table[n]
        /\ nonblock' = [nonblock EXCEPT ![fd] = None]
        /\ managed' = managed \ {fd}
        /\ \A other \in Callers : call[other].fd # fd
    BY <1>1, <1>8 DEF close, Ready
  <2>2. \A n \in Open : n # fd => n \in Open'
    BY <1>1, <2>1 DEF Open
  <2>3. \A n \in managed' : nonblock'[n] = TRUE /\ table'[n] # None
    BY <1>1, <2>1
  <2>4. nonblock' \in [Sockets -> BOOLEAN \cup {None}]
    BY <1>1, <2>1
  <2>5. \A x \in Callers : call[x] # NoCall => call[x].fd \in Open'
    BY <1>4, <2>1, <2>2
  <2>6. QED
    BY <1>1, <1>2, <2>1, <2>3, <2>4, <2>5, QuietStep
<1>9. ASSUME NEW param \in BOOLEAN, fcntl(co, fd, param)
      PROVE  HookInv'
  <2> DEFINE flag == FlagsOnSetFL(cEnableSysHook[co], table[fd], param)
  <2>1. /\ blocked = None /\ fd \in Open
        /\ UNCHANGED <<cEnableSysHook, link, rcv, snd, call, blocked, unreported>>
        /\ nonblock' = [nonblock EXCEPT ![fd] = flag]
        /\ table' = IF table[fd] # None THEN [table EXCEPT ![fd] = param] ELSE table
        /\ managed' = IF cEnableSysHook[co] \/ param THEN managed ELSE managed \ {fd}
    BY <1>9 DEF fcntl, Ready
  <2>2. flag \in BOOLEAN
    BY DEF FlagsOnSetFL
  <2>3. fd \in managed' => flag = TRUE
    BY <1>1, <2>1 DEF FlagsOnSetFL
  <2> HIDE DEF flag
  <2>4. nonblock' \in [Sockets -> BOOLEAN \cup {None}] /\ managed' \subseteq managed
    BY <1>1, <2>1, <2>2
  <2>5. table' \in [Sockets -> BOOLEAN \cup {None}]
    BY <1>1, <2>1
  <2>6. flag # None /\ param # None
    BY <1>3, <2>2
  <2>7. Open \subseteq Open'
    BY <1>1, <2>1, <2>6 DEF Open
  <2>8. \A n \in managed' : nonblock'[n] = TRUE /\ table'[n] # None
    BY <1>1, <2>1, <2>3, <2>4, <2>6
  <2>9. QED
    BY <1>1, <1>2, <1>4, <2>1, <2>4, <2>5, <2>7, <2>8, QuietStep
<1>10. QED
  BY <1>6, <1>7, <1>8, <1>9

\* The peer answers, sends and reads.
LEMMA PeerInv ==
  ASSUME HookInv, NEW fd \in Sockets, Peer(fd)
  PROVE  HookInv'
<1>1. /\ link' \in [Sockets -> {"idle", "connecting", "up", "refused"}]
      /\ rcv' \in [Sockets -> 0 .. Cap] /\ snd' \in [Sockets -> 0 .. Cap]
  BY BufferTypes DEF Peer
<1>2. /\ UNCHANGED <<cEnableSysHook, table, nonblock, call, blocked, managed, unreported>>
      /\ Open' = Open
  BY DEF Peer, Open
<1>3. /\ cEnableSysHook' \in [Callers -> BOOLEAN]
      /\ table' \in [Sockets -> BOOLEAN \cup {None}]
      /\ nonblock' \in [Sockets -> BOOLEAN \cup {None}]
      /\ managed' \subseteq Sockets
      /\ \A n \in managed' : nonblock'[n] = TRUE /\ table'[n] # None
  BY <1>2 DEF HookInv, HookTypeOK, ManagedNonblocking
<1>4. \A x \in Callers : call[x] # NoCall => call[x].fd \in Open'
  BY <1>2, CallsMean
<1>5. QED
  BY <1>1, <1>2, <1>3, <1>4, QuietStep

\* read, recvfrom and recv.
LEMMA ReceiveInv ==
  ASSUME HookInv, NEW co \in Callers, NEW fd \in Sockets, Receive(co, fd)
  PROVE  HookInv'
<1>1. /\ blocked = None /\ call[co].op # "write" /\ fd \in Open
      /\ UNCHANGED <<cEnableSysHook, table, nonblock, link, snd, managed, unreported>>
  BY ReadyMeans DEF Receive
<1>2. CASE StandsIn(co, fd)
  <2> DEFINE r == [op |-> "read", fd |-> fd, done |-> 0]
  <2>1. call' = [call EXCEPT ![co] = r] /\ UNCHANGED <<rcv, blocked>>
    BY <1>2 DEF Receive, Enter
  <2>2. r \in CallsOn(Open) /\ r.op # "write"
    BY <1>1, MadeCalls
  <2> HIDE DEF r
  <2>3. QED
    BY <1>1, <2>1, <2>2, BufferTypes, OtherCallStep
<1>3. CASE ~ StandsIn(co, fd)
  <2>1. RawRead(co, fd)
    BY <1>3 DEF Receive
  <2>2. QED
    BY <1>1, <2>1, RawReadInv
<1>4. QED
  BY <1>2, <1>3

\* write and send.
LEMMA TransmitInv ==
  ASSUME HookInv, NEW co \in Callers, NEW fd \in Sockets, Transmit(co, fd)
  PROVE  HookInv'
<1>1. /\ blocked = None /\ fd \in Open
      /\ UNCHANGED <<cEnableSysHook, table, nonblock, link, rcv, managed>>
      /\ \A x \in Sockets : Share(call[co], x) = IF x = fd THEN 0 ELSE 0
  BY ReadyMeans DEF Transmit
<1>2. 0 \in 0 .. nbyte - 1
  BY HookConstants
<1>3. (\E R : RawWrite(co, fd, 0, R)) \/ WriteBlocks(co, fd, 0)
  BY DEF Transmit
<1>4. QED
  BY <1>1, <1>2, <1>3, RawWriteInv, WriteBlocksInv

\* sendto.
LEMMA sendtoInv ==
  ASSUME HookInv, NEW co \in Callers, NEW fd \in Sockets, sendto(co, fd)
  PROVE  HookInv'
<1>1. /\ blocked = None /\ call[co].op # "write" /\ fd \in Open
      /\ UNCHANGED <<cEnableSysHook, table, nonblock, link, rcv, managed, unreported>>
  BY ReadyMeans DEF sendto
<1>2. CASE Enter(co, "sendto", fd, 0) /\ UNCHANGED <<snd, blocked>>
  <2> DEFINE r == [op |-> "sendto", fd |-> fd, done |-> 0]
  <2>1. call' = [call EXCEPT ![co] = r]
    BY <1>2 DEF Enter
  <2>2. r \in CallsOn(Open) /\ r.op # "write"
    BY <1>1, MadeCalls
  <2> HIDE DEF r
  <2>3. QED
    BY <1>1, <1>2, <2>1, <2>2, BufferTypes, OtherCallStep
<1>3. CASE RawSendto(co, fd)
  BY <1>1, <1>3, RawSendtoInv
<1>4. QED
  BY <1>2, <1>3 DEF sendto

\* connect.
LEMMA connectInv ==
  ASSUME HookInv, NEW co \in Callers, NEW fd \in Sockets, connect(co, fd)
  PROVE  HookInv'
<1>1. /\ blocked = None /\ call[co] = NoCall /\ call[co].op # "write" /\ fd \in Open
      /\ UNCHANGED <<cEnableSysHook, table, nonblock, rcv, snd, managed, unreported>>
      /\ \E state \in {"connecting", "up", "refused"} : link' = [link EXCEPT ![fd] = state]
  BY ReadyMeans DEF connect
<1>2. nonblock[fd] \in BOOLEAN
  BY <1>1, OpenFlag
<1>3. /\ link' \in [Sockets -> {"idle", "connecting", "up", "refused"}]
      /\ rcv' \in [Sockets -> 0 .. Cap] /\ snd' \in [Sockets -> 0 .. Cap]
  BY <1>1, BufferTypes
<1>4. CASE blocked' = None /\ UNCHANGED call
  <2>1. call \in [Callers -> CallsOn(Open)]
    BY DEF HookInv, HookTypeOK
  <2>2. call' = [call EXCEPT ![co] = NoCall]
    BY <1>1, <1>4, <2>1
  <2>3. NoCall \in CallsOn(Open) /\ NoCall.op # "write"
    BY <1>1, MadeCalls
  <2>4. blocked' = None
    BY <1>1, <1>4
  <2>5. QED
    BY <1>1, <1>3, <2>2, <2>3, <2>4, OtherCallStep
<1>5. CASE Enter(co, "connect", fd, 0) /\ blocked' = IF nonblock[fd] THEN None ELSE co
  <2> DEFINE r == [op |-> "connect", fd |-> fd, done |-> 0]
  <2>1. call' = [call EXCEPT ![co] = r]
    BY <1>5 DEF Enter
  <2>2. r \in CallsOn(Open) /\ r.op # "write" /\ r # NoCall /\ r.fd = fd
    <3>1. r \in CallsOn(Open)
      <4>1. 0 \in 0 .. 2
        OBVIOUS
      <4>2. QED
        BY <1>1, <4>1, MadeCalls
    <3>2. QED
      BY <3>1 DEF NoCall
  <2>3. blocked' = None \/ (blocked' = co /\ nonblock[r.fd] = FALSE)
    BY <1>2, <1>5, <2>2
  <2> HIDE DEF r
  <2>4. QED
    BY <1>1, <1>3, <2>1, <2>2, <2>3, OtherCallStep
<1>6. QED
  BY <1>1, <1>2, <1>4, <1>5 DEF connect

\* A call comes back from poll().
LEMMA ResumesInv ==
  ASSUME HookInv, NEW co \in Callers, Resumes(co)
  PROVE  HookInv'
<1>1. /\ call[co].op # "none" => call[co].fd \in Open
      /\ call[co].op = "write" => call[co].done \in 0 .. nbyte - 1
      /\ call[co].op = "connect" => call[co].done \in 0 .. 2
      /\ call[co].op = "write" =>
           \A x : Share(call[co], x) = IF x = call[co].fd THEN call[co].done ELSE 0
  BY CallsMean
<1>2. CASE ReadResumes(co)
  <2>1. /\ call[co].op = "read" /\ RawRead(co, call[co].fd)
        /\ UNCHANGED <<cEnableSysHook, table, nonblock, link, snd, managed, unreported>>
    BY <1>2 DEF ReadResumes
  <2>2. QED
    BY <1>1, <2>1, RawReadInv
<1>3. CASE WriteResumes(co)
  <2>1. /\ call[co].op = "write"
        /\ (\E R : RawWrite(co, call[co].fd, call[co].done, R))
           \/ WriteBlocks(co, call[co].fd, call[co].done)
        /\ UNCHANGED <<cEnableSysHook, table, nonblock, link, rcv, managed>>
    BY <1>3 DEF WriteResumes
  <2>2. QED
    BY <1>1, <2>1, RawWriteInv, WriteBlocksInv
<1>4. CASE SendtoResumes(co)
  <2>1. /\ call[co].op = "sendto" /\ RawSendto(co, call[co].fd)
        /\ UNCHANGED <<cEnableSysHook, table, nonblock, link, rcv, managed, unreported>>
    BY <1>4 DEF SendtoResumes
  <2>2. QED
    BY <1>1, <2>1, RawSendtoInv
<1>5. CASE ConnectResumes(co)
  <2>1. /\ call[co].op = "connect" /\ call[co].done \in 0 .. 2 /\ call[co].fd \in Open
        /\ blocked' = None
        /\ UNCHANGED <<cEnableSysHook, table, nonblock, link, rcv, snd, managed, unreported>>
        /\ \/ call' = [call EXCEPT ![co] = NoCall]
           \/ /\ call[co].done < 2
              /\ call' = [call EXCEPT ![co] = [op |-> "connect", fd |-> call[co].fd,
                                               done |-> call[co].done + 1]]
    BY <1>1, <1>5 DEF ConnectResumes, Return, Enter, kernelVars
  <2>2. PICK r \in CallsOn(Open) : r.op # "write" /\ call' = [call EXCEPT ![co] = r]
    <3>1. CASE call' = [call EXCEPT ![co] = NoCall]
      <4>1. NoCall \in CallsOn(Open) /\ NoCall.op # "write"
        BY <2>1, MadeCalls
      <4>2. QED
        BY <3>1, <4>1
    <3>2. CASE /\ call[co].done < 2
               /\ call' = [call EXCEPT ![co] = [op |-> "connect", fd |-> call[co].fd,
                                                done |-> call[co].done + 1]]
      <4>1. call[co].done + 1 \in 0 .. 2
        BY <2>1, <3>2
      <4>2. [op |-> "connect", fd |-> call[co].fd, done |-> call[co].done + 1] \in CallsOn(Open)
        BY <2>1, <4>1, MadeCalls
      <4>3. QED
        BY <3>2, <4>2
    <3>3. QED
      BY <2>1, <3>1, <3>2
  <2>3. call[co].op # "write"
    BY <2>1
  <2>4. QED
    BY <2>1, <2>2, <2>3, BufferTypes, OtherCallStep
<1>6. QED
  BY <1>2, <1>3, <1>4, <1>5 DEF Resumes

\* The system call that blocked the thread goes on.
LEMMA UnblockInv ==
  ASSUME HookInv, Unblock
  PROVE  HookInv'
<1>1. PICK co : co = blocked
  OBVIOUS
<1>2. co \in Callers /\ call[co] # NoCall
  BY <1>1 DEF Unblock, HookInv, HookTypeOK, BlockedBlocks
<1>3. /\ call[co].fd \in Open
      /\ call[co].op = "write" => call[co].done \in 0 .. nbyte - 1
      /\ call[co].op = "write" =>
           \A x : Share(call[co], x) = IF x = call[co].fd THEN call[co].done ELSE 0
  BY <1>2, CallsMean
<1>4. UNCHANGED <<cEnableSysHook, table, nonblock, link, managed>>
  BY DEF Unblock
<1>5. CASE /\ call[co].op = "read" /\ RawRead(co, call[co].fd)
           /\ UNCHANGED <<snd, unreported>>
  <2>1. call[co].op # "write"
    BY <1>5
  <2>2. QED
    BY <1>2, <1>3, <1>4, <1>5, <2>1, RawReadInv
<1>6. CASE /\ call[co].op = "write" /\ RawWrite(co, call[co].fd, call[co].done, {})
           /\ UNCHANGED rcv
  BY <1>2, <1>3, <1>4, <1>6, RawWriteInv
<1>7. CASE /\ call[co].op = "sendto" /\ RawSendto(co, call[co].fd)
           /\ UNCHANGED <<rcv, unreported>>
  <2>1. call[co].op # "write"
    BY <1>7
  <2>2. QED
    BY <1>2, <1>3, <1>4, <1>7, <2>1, RawSendtoInv
<1>8. CASE /\ call[co].op = "connect" /\ Return(co) /\ blocked' = None
           /\ UNCHANGED <<rcv, snd, unreported>>
  <2>1. call' = [call EXCEPT ![co] = NoCall]
    BY <1>8 DEF Return
  <2>2. NoCall \in CallsOn(Open) /\ NoCall.op # "write"
    BY <1>3, MadeCalls
  <2>3. call[co].op # "write"
    BY <1>8
  <2>4. QED
    BY <1>2, <1>4, <1>8, <2>1, <2>2, <2>3, BufferTypes, OtherCallStep
<1>9. QED
  BY <1>1, <1>5, <1>6, <1>7, <1>8 DEF Unblock

\* Every step keeps the invariant.
LEMMA HookNextInv ==
  HookInv /\ [HookNext]_hookVars => HookInv'
<1> SUFFICES ASSUME HookInv, [HookNext]_hookVars PROVE HookInv'
  OBVIOUS
<1>1. ASSUME NEW co \in Callers, NEW fd \in Sockets, Calls(co, fd) PROVE HookInv'
  BY <1>1, DescriptorInv, ReceiveInv, TransmitInv, sendtoInv, connectInv
     DEF Calls, read, recvfrom, recv, write, send
<1>2. QED
  BY <1>1, SetHookInv, ResumesInv, PeerInv, UnblockInv DEF HookNext

\* The invariant of the hooks.
LEMMA HookInvariant == HookSpec => []HookInv
<1>1. QED
  BY HookInitInv, HookNextInv, PTL DEF HookSpec

\* The table of the hooks, the descriptors and the calls keep their types: a
\* call is on an open descriptor, a write that waits has something left to
\* write, connect polls three times at most.
THEOREM HookTypeCorrect == HookSpec => []HookTypeOK
<1>1. HookInv => HookTypeOK
  BY DEF HookInv
<1>2. QED
  BY <1>1, HookInvariant, PTL

\* No hooked call blocks the thread on a descriptor that socket() made
\* non-blocking behind the user's back.
THEOREM NeverBlocksManagedCorrect == HookSpec => []NeverBlocksManaged
<1>1. HookInv => NeverBlocksManaged
  BY DEF HookInv, BlockedBlocks, ManagedNonblocking, NeverBlocksManaged
<1>2. QED
  BY <1>1, HookInvariant, PTL

\* Every unit the kernel took is in the count that some write returned or
\* will return.
THEOREM WritesAccountedCorrect == HookSpec => []WritesAccounted
<1>1. HookInv => WritesAccounted
  BY DEF HookInv
<1>2. QED
  BY <1>1, HookInvariant, PTL

\* With no write under way on a descriptor, the results of its writes add up to
\* what the kernel took.
AllReported ==
  \A fd \in Sockets :
    (\A co \in Callers : call[co].op = "write" => call[co].fd # fd) => unreported[fd] = 0

\* write and send have told their callers of everything they wrote once they
\* have returned.
THEOREM AllReportedCorrect == HookSpec => []AllReported
<1>1. HookInv => AllReported
  <2> SUFFICES ASSUME HookInv, NEW fd \in Sockets,
                      \A co \in Callers : call[co].op = "write" => call[co].fd # fd
               PROVE  unreported[fd] = 0
    BY DEF AllReported
  <2>1. WritersOf(call, fd) = {}
    BY DEF WritersOf
  <2>2. IsFiniteSet({}) /\ \A x \in {} : DoneBy(call)[x] \in Nat
    BY FS_EmptySet
  <2>3. Total(DoneBy(call), {}) = 0
    BY <2>2, TotalTake
  <2>4. unreported[fd] = Total(DoneBy(call), WritersOf(call, fd))
    BY AccountedTotal DEF HookInv
  <2>5. QED
    BY <2>1, <2>3, <2>4
<1>2. QED
  BY <1>1, HookInvariant, PTL

=============================================================================

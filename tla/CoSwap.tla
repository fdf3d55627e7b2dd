------------------------------- MODULE CoSwap -------------------------------
(***************************************************************************)
(* libco's coroutines and the switch between them (libco/co_routine.cpp):  *)
(* co_create, co_resume, co_yield_env and co_swap, with coroutines that    *)
(* share a stack.  A shared stack holds the frames of one coroutine at a   *)
(* time; co_swap copies them out and in.                                   *)
(*                                                                         *)
(* One thread, that is one stCoRoutineEnv_t.  The operators below are the  *)
(* steps CoPoll's actions are made of.                                     *)
(***************************************************************************)
EXTENDS Integers, Sequences, FiniteSets, SequencesExt

CONSTANTS
  Coroutines,   \* the coroutines the thread creates
  Main,         \* the thread's own stack, cIsMain
  Attrs,        \* the <<coroutine, attr.share_stack>> co_create is called with
  count,        \* stShareStack_t::count
  NoCo          \* NULL

ASSUME SwapAssumption ==
  /\ IsFiniteSet(Coroutines) /\ Attrs \subseteq Coroutines \X BOOLEAN
  /\ Main \notin Coroutines /\ NoCo \notin Coroutines \cup {Main}
  /\ count \in Nat \ {0}

VARIABLES
  pc,            \* where each coroutine's function is
  pCallStack,    \* stCoRoutineEnv_t::pCallStack
  alloc_idx,     \* stShareStack_t::alloc_idx
  stack_mem,     \* the shared stack each coroutine was given; 0: its own
  occupy_co,     \* stStackMem_t::occupy_co of each shared stack
  memory,        \* whose frames, in which state, each shared stack holds
  save_buffer    \* the copy of its frames a coroutine keeps; Unsaved: NULL

swapVars == <<pCallStack, alloc_idx, stack_mem, occupy_co, memory, save_buffer>>

Stacks == 1 .. count
Unsaved == <<NoCo, "old">>
\* A copy of a coroutine's frames: as they are now, or as they were before the
\* coroutine ran again.
Images == (Coroutines \X {"now", "old"}) \cup {Unsaved}

\* The coroutines with cIsShareStack.
Shared == {co \in Coroutines : stack_mem[co] # 0}

\* GetCurrCo.
Current == Last(pCallStack)

SwapTypeOK ==
  /\ pc \in [Coroutines -> {"none", "new", "run", "yield", "poll", "cond", "end"}]
  /\ pCallStack \in Seq(Coroutines \cup {Main})
  /\ alloc_idx \in Nat
  /\ stack_mem \in [Coroutines -> 0 .. count]
  /\ occupy_co \in [Stacks -> Coroutines \cup {NoCo}]
  /\ memory \in [Stacks -> Images]
  /\ save_buffer \in [Coroutines -> Images]

\* co_init_curr_thread_env, co_alloc_sharestack.
SwapInit ==
  /\ pc = [co \in Coroutines |-> "none"]
  /\ pCallStack = <<Main>>
  /\ alloc_idx = 0
  /\ stack_mem = [co \in Coroutines |-> 0]
  /\ occupy_co = [s \in Stacks |-> NoCo]
  /\ memory = [s \in Stacks |-> Unsaved]
  /\ save_buffer = [co \in Coroutines |-> Unsaved]

co_get_stackmem_NoWrap == alloc_idx + 1
\* The shared stacks are handed out in turn: alloc_idx only counts, and is reduced
\* when it is used.
co_get_stackmem == (alloc_idx % count) + 1

\* co_create_env, with or without attr->share_stack.
co_create(co, share_stack) ==
  /\ <<co, share_stack>> \in Attrs
  /\ pc[co] = "none"
  /\ pc' = [pc EXCEPT ![co] = "new"]
  /\ IF share_stack
     THEN /\ stack_mem' = [stack_mem EXCEPT ![co] = co_get_stackmem]
          /\ alloc_idx' = alloc_idx + 1
     ELSE UNCHANGED <<stack_mem, alloc_idx>>
  /\ UNCHANGED <<pCallStack, occupy_co, memory, save_buffer>>

\* The memory of the shared stacks at the moment curr calls co_swap.
MemoryAtSwap(curr) ==
  IF curr \in Shared
  THEN [memory EXCEPT ![stack_mem[curr]] = <<curr, "now">>]
  ELSE memory

\* The copies: by then curr's own, if it has one, is out of date.
BuffersAtSwap(curr) ==
  IF curr \in Shared /\ save_buffer[curr] # Unsaved
  THEN [save_buffer EXCEPT ![curr] = <<curr, "old">>]
  ELSE save_buffer

save_stack_buffer_Once(buf, occ, image) ==
  IF buf[occ] = Unsaved THEN [buf EXCEPT ![occ] = image] ELSE buf
\* The frames on a stack become occ's copy; an older copy is freed.
save_stack_buffer(buf, occ, image) == [buf EXCEPT ![occ] = image]

\* co_swap: the frames of the coroutine that last ran on pending's stack are
\* saved (save_stack_buffer).  A coroutine that starts lays its first frames;
\* one that comes back from coctx_swap restores its frames if another
\* coroutine had the stack.
co_swap(curr, pending) ==
  LET s    == IF pending \in Shared THEN stack_mem[pending] ELSE 0
      occ  == IF pending \in Shared THEN occupy_co[s] ELSE NoCo
      mem  == MemoryAtSwap(curr)
      buf  == BuffersAtSwap(curr)
      gone == occ \notin {NoCo, pending}
  IN  /\ occupy_co' = IF pending \in Shared THEN [occupy_co EXCEPT ![s] = pending]
                                            ELSE occupy_co
      /\ save_buffer' = IF gone THEN save_stack_buffer(buf, occ, mem[s]) ELSE buf
      /\ memory' = CASE pending \in Shared /\ pc[pending] = "new" ->
                          [mem EXCEPT ![s] = <<pending, "now">>]
                     [] gone /\ pc[pending] # "new" /\ buf[pending] # Unsaved ->
                          [mem EXCEPT ![s] = buf[pending]]
                     [] OTHER -> mem

\* co_resume: co is pushed on the call stack and runs.
co_resume(co) ==
  /\ pCallStack' = Append(pCallStack, co)
  /\ co_swap(Current, co)
  /\ UNCHANGED <<alloc_idx, stack_mem>>

\* co_yield_env: the coroutine that resumed the current one runs.
co_yield ==
  /\ pCallStack' = Front(pCallStack)
  /\ co_swap(Current, Last(Front(pCallStack)))
  /\ UNCHANGED <<alloc_idx, stack_mem>>

-----------------------------------------------------------------------------

\* The coroutine that runs on a shared stack finds its own frames there, in
\* the state it was suspended in, whoever used the stack meanwhile: the copying
\* of co_swap loses nothing through nested co_resume, early ends and stacks
\* taken over before they were ever left.
StackIntact ==
  Current \in Shared => memory[stack_mem[Current]] = <<Current, "now">>

=============================================================================

--------------------------- MODULE TimeRoundLock ----------------------------
(***************************************************************************)
(* Who holds TimeRound's Mutex: TimeRound::fun in the timer thread against *)
(* AddTimeRoundItemNode in the event loop threads, with Lock_Guard as      *)
(* TimeRound.cpp writes it: its destructor unlocks whether or not unlock() *)
(* has been called.  Mutex is a default pthread mutex, whose unlock frees  *)
(* it whoever calls.                                                       *)
(***************************************************************************)
EXTENDS Naturals, FiniteSets

CONSTANTS
  Loops,      \* event loop threads
  Timer,      \* TRThread
  NoThread    \* owner of a free Mutex

VARIABLES
  pc,         \* "out", "wheel" (between lock and unlock), "handle" (fun only)
  Mutex       \* the thread that locked Mutex last, if it is locked

vars == <<pc, Mutex>>

Init ==
  /\ pc = [t \in Loops \cup {Timer} |-> "out"]
  /\ Mutex = NoThread

\* Lock_Guard's constructor, in fun and in AddTimeRoundItemNode.
Lock_Guard(t) ==
  /\ pc[t] = "out"
  /\ Mutex = NoThread
  /\ Mutex' = t
  /\ pc' = [pc EXCEPT ![t] = "wheel"]

\* lock.unlock() in fun; HandleTimeOutList follows.
unlock ==
  /\ pc[Timer] = "wheel"
  /\ Mutex' = NoThread
  /\ pc' = [pc EXCEPT ![Timer] = "handle"]

\* ~Lock_Guard, at the end of AddTimeRoundItemNode or of fun's if block.
Lock_Guard_destructor(t) ==
  /\ pc[t] = IF t = Timer THEN "handle" ELSE "wheel"
  /\ Mutex' = NoThread
  /\ pc' = [pc EXCEPT ![t] = "out"]

Next ==
  \/ unlock
  \/ \E t \in Loops \cup {Timer} : Lock_Guard(t) \/ Lock_Guard_destructor(t)

Spec == Init /\ [][Next]_vars

\* TimeRound.h:246 says the wheel's lists must be operated on under Mutex: two
\* threads are never both between their lock and their unlock.
OneThreadOperates ==
  Cardinality({t \in Loops \cup {Timer} : pc[t] = "wheel"}) <= 1

=============================================================================

---------------------------- MODULE FifoChannel -----------------------------
(***************************************************************************)
(* What a double-buffered queue promises: whatever the producers and the   *)
(* consumers do with the two buffers, the elements come out in the order   *)
(* in which they went in, each one once.                                   *)
(***************************************************************************)
EXTENDS Sequences

CONSTANT Elements

VARIABLES
  queue,      \* elements put and not yet taken
  taken       \* elements taken, in order

vars == <<queue, taken>>

TypeOK == queue \in Seq(Elements) /\ taken \in Seq(Elements)

Init == queue = << >> /\ taken = << >>

Put(e) ==
  /\ queue' = Append(queue, e)
  /\ UNCHANGED taken

Take ==
  /\ queue # << >>
  /\ queue' = Tail(queue)
  /\ taken' = Append(taken, Head(queue))

Next == Take \/ \E e \in Elements : Put(e)

Spec == Init /\ [][Next]_vars

=============================================================================

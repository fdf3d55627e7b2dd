----------------------------- MODULE EventBatch -----------------------------
(***************************************************************************)
(* What one event loop thread promises, whatever it uses to run handlers:  *)
(* epoll delivers a batch of channels, every channel of the batch has its  *)
(* handle_event() called once, and the next batch is asked for only when   *)
(* every handler of this one has returned.                                 *)
(***************************************************************************)
CONSTANT Channels

VARIABLE status     \* what the loop still owes each channel

vars == status

TypeOK == status \in [Channels -> {"idle", "queued", "handling"}]

Init == status = [ch \in Channels |-> "idle"]

\* epoll reports a batch; nothing of the previous one may be left.
Deliver(batch) ==
  /\ \A ch \in Channels : status[ch] = "idle"
  /\ status' = [ch \in Channels |-> IF ch \in batch THEN "queued" ELSE "idle"]

\* handle_event() of ch is called ...
Begin(ch) ==
  /\ status[ch] = "queued"
  /\ status' = [status EXCEPT ![ch] = "handling"]

\* ... and returns.
Finish(ch) ==
  /\ status[ch] = "handling"
  /\ status' = [status EXCEPT ![ch] = "idle"]

Next ==
  \/ \E batch \in SUBSET Channels : Deliver(batch)
  \/ \E ch \in Channels : Begin(ch) \/ Finish(ch)

Spec == Init /\ [][Next]_vars

=============================================================================

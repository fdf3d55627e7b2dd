---------------------------- MODULE MCTimeRound -----------------------------
(* Instances of TimeRound for TLC. *)
EXTENDS TimeRound

\* The clock is set back by less, or forward by more, than the wheel is long.
MCJumps == {-2, 4}
=============================================================================

----------------------------- MODULE MCIbexTimer -----------------------------
(***************************************************************************)
(* Instances of IbexTimer with halves of R values, so that the clock runs  *)
(* through the overflow of its low half.                                   *)
(***************************************************************************)
EXTENDS IbexTimer

(* A tick, and the least time base with a high half. *)
MCTimeBases == {1, R}

(* Times with the same low half as, or a lower one than, an earlier time. *)
MCNewTimes == {R - 1, R}

==============================================================================

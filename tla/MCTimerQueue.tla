---------------------------- MODULE MCTimerQueue ----------------------------
(* TimerQueue on a small wheel. *)
EXTENDS TimerQueue

\* <<period, repeat_count>>: once, twice each tick, twice each turn of the
\* wheel, and the call Schedule refuses.
OnceAndTwice == {<<0, 1>>, <<1, 2>>, <<BUCKET_COUNT, 2>>, <<0, 2>>}
=============================================================================

---------------------------- MODULE MCCandleStore ----------------------------
(* Instances of CandleStore for TLC. *)
EXTENDS CandleStore

CONSTANT ema9

\* 10 to 16 is far, 16 back to 10 is not: whether bar 2 is kept depends on the first bar
\* of its batch.
Spike == <<10, 16, 10, 10>>
=============================================================================

---------------------------- MODULE MCChartBoard ----------------------------
(***************************************************************************)
(* Two symbols: one trades always, the other one in a session from 2 to 7  *)
(* of a day of 8 units.  The run starts shortly before the session of the  *)
(* second day and ends in it.  Bars take two units: the opens of a session *)
(* are opens of both, and its last bar is a short one.                     *)
(***************************************************************************)
EXTENDS ChartBoard, TLC

CONSTANTS btc, nifty

MCSymbols == {btc, nifty}
MCNse == {nifty}
MCTape == (btc :> [t \in 0..Horizon |-> IF t = Horizon THEN 2 ELSE 1])
            @@ (nifty :> [t \in 0..Horizon |-> IF t = Horizon THEN 6 ELSE 5])
MCWeekend == {}
\* The rows of nifty lack those of the end of the day before, those of btc have never been loaded.
MCStored == (btc :> -1) @@ (nifty :> 3)

=============================================================================

--------------------------- MODULE MCOrderExecution ---------------------------
(* Finite instances of OrderExecution. *)
EXTENDS OrderExecution

CONSTANTS r1, r2, r3

MCRequests == {r1, r2, r3}

Env(live, enabled, kills, conf) ==
    [live |-> live, liveEnabled |-> enabled, kill |-> kills, configured |-> conf]

\* Paper, live, live without the second opt-in, live without credentials, and
\* live with TRADING_KILL_SWITCH set.
MCAllSettings ==
    {Env(FALSE, FALSE, FALSE, FALSE), Env(TRUE, TRUE, FALSE, TRUE),
     Env(TRUE, FALSE, FALSE, TRUE), Env(TRUE, TRUE, FALSE, FALSE),
     Env(TRUE, TRUE, TRUE, TRUE)}

\* A legal quantity and one above TRADING_MAX_QTY.
MCQuantities == {1, 3}
=============================================================================

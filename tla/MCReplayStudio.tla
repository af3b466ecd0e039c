---------------------------- MODULE MCReplayStudio ----------------------------
(* Two sessions of two bars, an event and a setup on the second: after four clicks the    *)
(* setup has been chosen, the chart has gone back, and a review of it can be saved.       *)
EXTENDS ReplayStudio

CONSTANTS s1

MCBarOf == s1 :> 1
=============================================================================

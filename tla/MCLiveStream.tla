----------------------------- MODULE MCLiveStream -----------------------------
(* Instances of LiveStream for TLC. *)
EXTENDS LiveStream

CONSTANTS nifty, btc
MCSymbols == {nifty, btc}
MCPolled == {nifty}
=============================================================================

-------------------------------- MODULE Listing --------------------------------
(* The ids of symbols, which every part of the terminal shares: the URL, the   *)
(* panes, the lists, the streams and the candles are all about one of them, or *)
(* about none.                                                                 *)

CONSTANTS Symbols, NoSymbol

ASSUME SymbolsAssumption == NoSymbol \notin Symbols

=============================================================================

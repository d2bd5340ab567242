--------------------------- MODULE MC_ChanControl ---------------------------
(* ChanControl with two hop channels, two CONFIGURE commands and the code's *)
(* tolerance of 10, so that runs of 10 and 11 failed hops are reachable.   *)
EXTENDS ChanControl

CONSTANTS c1, c2

MCChans == {c1, c2}
=============================================================================

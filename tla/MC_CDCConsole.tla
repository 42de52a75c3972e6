--------------------------- MODULE MC_CDCConsole ---------------------------
(* Instance of CDCConsole for TLC: two registers, two data words, and      *)
(* enough commands for a timed-out read, a write and a read after it.      *)
EXTENDS CDCConsole

CONSTANTS a1, a2

MCAddrs == {a1, a2}

MCVals == {0, 1}

=============================================================================

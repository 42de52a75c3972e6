---------------------------- MODULE MC_TestRun ----------------------------
(* Small instance of TestRun for TLC: tests at layers 2 and 4 with short  *)
(* timeouts, and one at layer 7 that run_quick leaves out.                 *)
EXTENDS TestRun

MCTestList ==
  << [layer |-> 2, quick |-> TRUE],
     [layer |-> 4, quick |-> TRUE],
     [layer |-> 7, quick |-> FALSE] >>

(* DevLoop, and test_hardware.py --layer 3.                                *)
MCPrograms ==
  { [caller |-> "dev", minLayer |-> 0], [caller |-> "hw", minLayer |-> 3] }

(* DevLoop alone.                                                          *)
MCDevOnly == { [caller |-> "dev", minLayer |-> 0] }

=============================================================================

------------------------------ MODULE TestRun ------------------------------
(***************************************************************************)
(* The test runner of the development loop: TestRunner.run_all and         *)
(* run_quick (src/tools/devloop/fluxripper_dev.py lines 439-508), the      *)
(* verdict DevLoop.run_tests draws from them (lines 695-705), and the exit *)
(* status of the hardware test script (tests/test_hardware.py 468-471).    *)
(*                                                                         *)
(* A registered test is its required layer and whether its timeout is     *)
(* under 5 s.  The target is either responsive, reporting its bring-up    *)
(* layer, or hung, so that get_layer() returns -1 and every test that runs *)
(* returns FAIL or raises.  A test that runs on a responsive target may    *)
(* pass, fail or raise.  The target may hang at any time.                  *)
(***************************************************************************)
EXTENDS Naturals, Integers, Sequences

CONSTANTS
  TestList,   \* the registered tests, in registration order: [layer, quick]
  MaxLayer,   \* the largest bring-up layer the target reports
  Programs,   \* the programs that may own the TestRunner: [caller, minLayer]
  MaxRuns     \* bound on the number of runs on one TestRunner

(* A program is "dev", DevLoop.run_tests, whose run_all has min_layer 0,  *)
(* or "hw", test_hardware.py main, whose min_layer is its --layer.        *)
ASSUME TestConstantsAssumption ==
  /\ MaxLayer \in Nat
  /\ TestList \in Seq([layer : 0..MaxLayer, quick : BOOLEAN])
  /\ Programs \subseteq [caller : {"dev", "hw"}, minLayer : Nat]
  /\ \A p \in Programs : p.caller = "dev" => p.minLayer = 0
  /\ MaxRuns \in Nat

VARIABLES
  alive,      \* the target answers on the console
  tlayer,     \* the target's bring-up layer
  mode,       \* "idle", or the run in progress: "all" or "quick"
  i,          \* index of the next test of the run
  snap,       \* run_all's current_layer, queried once at its start
  results,    \* TestRunner.results: test index -> outcome, "NONE" if absent
  runs,       \* number of runs started
  verdict,    \* what the last finished run reported: "none", "pass", "fail"
  runOut,     \* history: outcomes of the tests invoked in the current run
  answered,   \* history: the target answered a query of the current run
  prog        \* the program that owns the TestRunner, fixed for a behaviour

vars == <<alive, tlayer, mode, i, snap, results, runs, verdict, runOut, answered, prog>>

Caller == prog.caller

MinLayer == prog.minLayer

(* test_hardware.py main makes one run_all and exits; DevLoop makes runs  *)
(* as long as the operator asks.                                           *)
RunBound == IF Caller = "hw" THEN 1 ELSE MaxRuns

N == Len(TestList)

Outcome == {"PASS", "FAIL", "ERROR", "SKIP"}

(* run_quick's list: the tests whose timeout is under 5 s.                 *)
QuickTests == SelectSeq(TestList, LAMBDA t : t.quick)

(* CDCConsole.get_layer: the low 4 bits of the status word, -1 when the    *)
(* read fails.                                                             *)
GetLayer == IF alive THEN tlayer ELSE -1

(* What a test function can end in: a hung target makes every register    *)
(* access fail, so the test returns FAIL or raises.                        *)
Ends == IF alive THEN {"PASS", "FAIL", "RAISE"} ELSE {"FAIL", "RAISE"}

Init ==
  /\ alive \in BOOLEAN
  /\ tlayer \in 0..MaxLayer
  /\ mode = "idle"
  /\ i = 1
  /\ snap = 0
  /\ results = [k \in 1..N |-> "NONE"]
  /\ runs = 0
  /\ verdict = "none"
  /\ runOut = {}
  /\ answered = FALSE
  /\ prog \in Programs

(* The target stops answering (a crash, a hung USB link).                  *)
Hang ==
  /\ alive
  /\ alive' = FALSE
  /\ UNCHANGED <<tlayer, mode, i, snap, results, runs, verdict, runOut, answered, prog>>

-----------------------------------------------------------------------------
(* run_all: query the layer once, then walk the tests.                     *)
BeginAll ==
  /\ mode = "idle"
  /\ runs < RunBound
  /\ mode' = "all"
  /\ runs' = runs + 1
  /\ i' = 1
  /\ snap' = GetLayer
  /\ verdict' = "none"
  /\ runOut' = {}
  /\ answered' = alive
  /\ UNCHANGED <<alive, tlayer, results, prog>>

(* Mutant: a skipped test whose entry in results is not overwritten.      *)
AllSkipKeepsResult ==
  /\ mode = "all"
  /\ i <= N
  /\ TestList[i].layer > snap
  /\ i' = i + 1
  /\ UNCHANGED <<alive, tlayer, mode, snap, results, runs, verdict, runOut, answered, prog>>

(* A test above the current layer is recorded as SKIP.                     *)
AllSkip ==
  /\ mode = "all"
  /\ i <= N
  /\ TestList[i].layer > snap
  /\ results' = [results EXCEPT ![i] = "SKIP"]
  /\ i' = i + 1
  /\ UNCHANGED <<alive, tlayer, mode, snap, runs, verdict, runOut, answered, prog>>

(* A test below min_layer is passed over; its entry in results stays.      *)
AllBelowMin ==
  /\ mode = "all"
  /\ i <= N
  /\ TestList[i].layer <= snap
  /\ TestList[i].layer < MinLayer
  /\ i' = i + 1
  /\ UNCHANGED <<alive, tlayer, mode, snap, results, runs, verdict, runOut, answered, prog>>

(* Mutant: an exception that escapes the except clause into results.      *)
AllRunUncaught ==
  /\ mode = "all"
  /\ i <= N
  /\ TestList[i].layer <= snap
  /\ TestList[i].layer >= MinLayer
  /\ \E e \in Ends :
       /\ results' = [results EXCEPT ![i] = e]
       /\ runOut' = runOut \cup {e}
  /\ i' = i + 1
  /\ answered' = (answered \/ alive)
  /\ UNCHANGED <<alive, tlayer, mode, snap, runs, verdict, prog>>

(* The test function runs; an exception is recorded as ERROR.              *)
AllRun ==
  /\ mode = "all"
  /\ i <= N
  /\ TestList[i].layer <= snap
  /\ TestList[i].layer >= MinLayer
  /\ \E e \in Ends :
       LET r == IF e = "RAISE" THEN "ERROR" ELSE e
       IN  /\ results' = [results EXCEPT ![i] = r]
           /\ runOut' = runOut \cup {r}
  /\ i' = i + 1
  /\ answered' = (answered \/ alive)
  /\ UNCHANGED <<alive, tlayer, mode, snap, runs, verdict, prog>>

(* The verdict the caller draws from results.values(): run_tests fails on *)
(* anything but PASS and SKIP; test_hardware.py counts the FAILs only.    *)
Passed(rs) ==
  IF Caller = "dev" THEN rs \subseteq {"PASS", "SKIP"} ELSE "FAIL" \notin rs

AllEnd ==
  /\ mode = "all"
  /\ i > N
  /\ mode' = "idle"
  /\ verdict' = IF Passed({results[k] : k \in 1..N} \ {"NONE"}) THEN "pass" ELSE "fail"
  /\ UNCHANGED <<alive, tlayer, i, snap, results, runs, runOut, answered, prog>>

-----------------------------------------------------------------------------
(* run_quick (DevLoop.run_tests(quick=True) only).                         *)
BeginQuick ==
  /\ mode = "idle"
  /\ Caller = "dev"
  /\ runs < RunBound
  /\ mode' = "quick"
  /\ runs' = runs + 1
  /\ i' = 1
  /\ verdict' = "none"
  /\ runOut' = {}
  /\ answered' = FALSE
  /\ UNCHANGED <<alive, tlayer, snap, results, prog>>

(* The layer is queried afresh for every quick test; a test above it is   *)
(* passed over.                                                            *)
QuickGated ==
  /\ mode = "quick"
  /\ i <= Len(QuickTests)
  /\ QuickTests[i].layer > GetLayer
  /\ i' = i + 1
  /\ answered' = (answered \/ alive)
  /\ UNCHANGED <<alive, tlayer, mode, snap, results, runs, verdict, runOut, prog>>

(* The test runs; anything but PASS ends the run with False.               *)
QuickRun ==
  /\ mode = "quick"
  /\ i <= Len(QuickTests)
  /\ QuickTests[i].layer <= GetLayer
  /\ answered' = TRUE
  /\ \E e \in Ends :
       \/ /\ e = "PASS"
          /\ runOut' = runOut \cup {"PASS"}
          /\ i' = i + 1
          /\ UNCHANGED <<mode, verdict>>
       \/ /\ e # "PASS"
          /\ runOut' = runOut \cup {IF e = "RAISE" THEN "ERROR" ELSE e}
          /\ mode' = "idle"
          /\ verdict' = "fail"
          /\ UNCHANGED i
  /\ UNCHANGED <<alive, tlayer, snap, results, runs, prog>>

QuickEnd ==
  /\ mode = "quick"
  /\ i > Len(QuickTests)
  /\ mode' = "idle"
  /\ verdict' = "pass"
  /\ UNCHANGED <<alive, tlayer, i, snap, results, runs, runOut, answered, prog>>

Next ==
  \/ Hang
  \/ BeginAll \/ AllSkip \/ AllBelowMin \/ AllRun \/ AllEnd
  \/ BeginQuick \/ QuickGated \/ QuickRun \/ QuickEnd

Spec == Init /\ [][Next]_vars

-----------------------------------------------------------------------------
(* Each variable has its type; each loop index stays within the list its *)
(* loop walks (run_all the registered tests, run_quick the quick ones),    *)
(* and no program makes more runs than it may.                             *)
TestTypeOK ==
  /\ alive \in BOOLEAN
  /\ tlayer \in 0..MaxLayer
  /\ mode \in {"idle", "all", "quick"}
  /\ i \in Nat \ {0}
  /\ mode = "all" => i <= N + 1
  /\ mode = "quick" => i <= Len(QuickTests) + 1
  /\ snap \in -1..MaxLayer
  /\ results \in [1..N -> Outcome \cup {"NONE"}]
  /\ runs \in 0..RunBound
  /\ verdict \in {"none", "pass", "fail"}
  /\ runOut \subseteq Outcome
  /\ answered \in BOOLEAN
  /\ prog \in Programs

(* The verdict DevLoop.run_tests draws from a finished run is about that  *)
(* run: it reports success exactly when no test invoked in it failed or   *)
(* raised, whatever earlier runs on the same TestRunner (the interactive  *)
(* "test" command) left in results.  Spec 4.5: aggregate success = no     *)
(* outcome is FAIL or ERROR.                                               *)
VerdictMatchesRun ==
  (Caller = "dev" /\ mode = "idle" /\ verdict # "none")
    => (verdict = "pass" <=> runOut \cap {"FAIL", "ERROR"} = {})

(* A run that reports success has heard from the target: spec 7 says      *)
(* transport errors are surfaced as failed test outcomes, never as a pass. *)
NoPassWithoutTarget ==
  (mode = "idle" /\ verdict = "pass") => answered

=============================================================================

--------------------------- MODULE TestRunProofs ---------------------------
(***************************************************************************)
(* Proof that DevLoop.run_tests reports on the run it made: for every test *)
(* list and every number of runs on one TestRunner, a finished run reports *)
(* success exactly when no test invoked in it returned FAIL or raised,     *)
(* although TestRunner.results keeps the entries of earlier runs.          *)
(***************************************************************************)
EXTENDS TestRun, SequenceTheorems, TLAPS

Bad == {"FAIL", "ERROR"}

(* The outcomes run_all has written so far in this run.                   *)
Written == {results[k] : k \in 1..i - 1}

(* The strengthening: while run_all walks the tests, every test before i  *)
(* has an entry written in this run, and the entries other than SKIP are   *)
(* exactly the outcomes of this run; a quick run in progress has seen only *)
(* PASS.                                                                   *)
(* VerdictMatchesRun for a run of the dev loop.                           *)
RunVerdict ==
  (mode = "idle" /\ verdict # "none")
    => (verdict = "pass" <=> runOut \cap {"FAIL", "ERROR"} = {})

RunInv ==
  /\ prog \in Programs
  /\ results \in [1..N -> Outcome \cup {"NONE"}]
  /\ i \in Nat \ {0}
  /\ mode \in {"idle", "all", "quick"}
  /\ verdict \in {"none", "pass", "fail"}
  /\ runOut \subseteq {"PASS", "FAIL", "ERROR"}
  /\ mode = "all" => /\ i <= N + 1
                     /\ \A k \in 1..i - 1 : results[k] # "NONE"
                     /\ Written \ {"SKIP"} = runOut
                     /\ verdict = "none"
  /\ mode = "quick" => runOut \subseteq {"PASS"} /\ verdict = "none"
  /\ RunVerdict

LEMMA NType == N \in Nat
BY TestConstantsAssumption DEF N

LEMMA LayerNat == \A k \in 1..N : TestList[k].layer \in Nat
<1> SUFFICES ASSUME NEW k \in 1..N PROVE TestList[k].layer \in Nat
  OBVIOUS
<1>1. TestList[k] \in [layer : 0..MaxLayer, quick : BOOLEAN]
  BY TestConstantsAssumption, ElementOfSeq DEF N
<1>2. QED
  BY <1>1, TestConstantsAssumption

LEMMA RunInit == Init => RunInv
BY NType DEF Init, RunInv, RunVerdict, Outcome

LEMMA RunStep ==
  ASSUME Caller = "dev", RunInv, [Next]_vars
  PROVE  RunInv'
<1>0. prog' = prog
  BY DEF Next, vars, Hang, BeginAll, AllSkip, AllBelowMin, AllRun, AllEnd,
         BeginQuick, QuickGated, QuickRun, QuickEnd
<1>1. CASE Hang
  BY <1>1 DEF Hang, RunInv, RunVerdict, Written
<1>2. CASE BeginAll
  <2>1. mode' = "all" /\ i' = 1 /\ runOut' = {} /\ verdict' = "none" /\ UNCHANGED results
    BY <1>2 DEF BeginAll
  <2>2. Written' = {}
    BY <2>1 DEF Written
  <2>3. QED
    BY <1>0, <2>1, <2>2, NType DEF RunInv, RunVerdict
<1>3. CASE AllSkip
  <2>1. i \in 1..N /\ results' = [results EXCEPT ![i] = "SKIP"] /\ i' = i + 1
    BY <1>3 DEF AllSkip, RunInv
  <2>2. Written' = Written \cup {"SKIP"}
    BY <2>1 DEF RunInv, Written
  <2>3. \A k \in 1..i'- 1 : results'[k] # "NONE"
    BY <1>3, <2>1 DEF AllSkip, RunInv
  <2>4. results' \in [1..N -> Outcome \cup {"NONE"}]
    BY <2>1 DEF RunInv, Outcome
  <2>6. UNCHANGED <<mode, verdict, runOut>> /\ mode = "all"
    BY <1>3 DEF AllSkip
  <2>5. Written' \ {"SKIP"} = runOut'
    BY <2>2, <2>6 DEF RunInv
  <2>7. i' \in Nat \ {0} /\ i' <= N + 1
    BY <2>1, NType
  <2>8. QED
    BY <1>0, <2>3, <2>4, <2>5, <2>6, <2>7 DEF RunInv, RunVerdict
<1>4. CASE AllBelowMin
  <2>1. i \in 1..N /\ TestList[i].layer < MinLayer
    BY <1>4 DEF AllBelowMin, RunInv
  <2>2. MinLayer = 0
    BY TestConstantsAssumption DEF RunInv, Caller, MinLayer
  <2>3. FALSE
    BY <2>1, <2>2, LayerNat
  <2>4. QED
    BY <2>3
<1>5. CASE AllRun
  <2>1. i \in 1..N /\ i' = i + 1 /\ mode = "all"
    BY <1>5 DEF AllRun, RunInv
  <2>2. PICK e \in Ends :
          LET r == IF e = "RAISE" THEN "ERROR" ELSE e
          IN  /\ results' = [results EXCEPT ![i] = r]
              /\ runOut' = runOut \cup {r}
    BY <1>5 DEF AllRun
  <2> DEFINE r == IF e = "RAISE" THEN "ERROR" ELSE e
  <2>3. r \in {"PASS", "FAIL", "ERROR"}
    BY DEF Ends
  <2>4. results' = [results EXCEPT ![i] = r] /\ runOut' = runOut \cup {r}
    BY <2>2
  <2>5. Written' = Written \cup {r}
    BY <2>1, <2>4 DEF RunInv, Written
  <2>6. Written' \ {"SKIP"} = runOut'
    BY <2>1, <2>3, <2>4, <2>5 DEF RunInv
  <2>7. \A k \in 1..i'- 1 : results'[k] # "NONE"
    BY <2>1, <2>3, <2>4 DEF RunInv
  <2>8. results' \in [1..N -> Outcome \cup {"NONE"}]
    BY <2>1, <2>3, <2>4 DEF RunInv, Outcome
  <2>9. UNCHANGED <<mode, verdict>>
    BY <1>5 DEF AllRun
  <2>10. i' \in Nat \ {0} /\ i' <= N + 1
    BY <2>1, NType
  <2>11. runOut' \subseteq {"PASS", "FAIL", "ERROR"}
    BY <2>3, <2>4 DEF RunInv
  <2>12. QED
    BY <1>0, <2>1, <2>6, <2>7, <2>8, <2>9, <2>10, <2>11 DEF RunInv, RunVerdict
<1>6. CASE AllEnd
  <2>1. i = N + 1 /\ mode = "all"
    BY <1>6, NType DEF AllEnd, RunInv
  <2>2. {results[k] : k \in 1..N} \ {"NONE"} = Written
    <3>1. Written = {results[k] : k \in 1..N}
      <4>1. 1..i - 1 = 1..N
        BY <2>1, NType
      <4>2. QED
        BY <4>1 DEF Written
    <3>2. "NONE" \notin Written
      BY <2>1 DEF RunInv, Written
    <3>3. QED
      BY <3>1, <3>2
  <2>3. verdict' = IF Written \subseteq {"PASS", "SKIP"} THEN "pass" ELSE "fail"
    BY <1>6, <2>2 DEF AllEnd, Passed
  <2>4. Written \subseteq {"PASS", "SKIP"} <=> runOut \cap Bad = {}
    BY <2>1 DEF RunInv, Bad
  <2>5. QED
    BY <1>6, <2>3, <2>4 DEF AllEnd, RunInv, RunVerdict, Bad
<1>7. CASE BeginQuick
  BY <1>7 DEF BeginQuick, RunInv, RunVerdict
<1>8. CASE QuickGated
  BY <1>8 DEF QuickGated, RunInv, RunVerdict
<1>9. CASE QuickRun
  <2>1. PICK e \in Ends :
          \/ /\ e = "PASS"
             /\ runOut' = runOut \cup {"PASS"}
             /\ i' = i + 1
             /\ UNCHANGED <<mode, verdict>>
          \/ /\ e # "PASS"
             /\ runOut' = runOut \cup {IF e = "RAISE" THEN "ERROR" ELSE e}
             /\ mode' = "idle"
             /\ verdict' = "fail"
             /\ UNCHANGED i
    BY <1>9 DEF QuickRun
  <2>2. e \in {"PASS", "FAIL", "RAISE"}
    BY DEF Ends
  <2>3. mode = "quick" /\ UNCHANGED results
    BY <1>9 DEF QuickRun
  <2>4. CASE e = "PASS"
    <3>1. runOut' = runOut \cup {"PASS"} /\ i' = i + 1 /\ UNCHANGED <<mode, verdict>>
      BY <2>1, <2>4
    <3>2. QED
      BY <1>0, <2>3, <3>1 DEF RunInv, RunVerdict
  <2>5. CASE e # "PASS"
    <3>1. runOut' = runOut \cup {IF e = "RAISE" THEN "ERROR" ELSE e}
          /\ mode' = "idle" /\ verdict' = "fail" /\ UNCHANGED i
      BY <2>1, <2>5
    <3>2. (IF e = "RAISE" THEN "ERROR" ELSE e) \in Bad
      BY <2>2, <2>5 DEF Bad
    <3>3. QED
      BY <1>0, <2>3, <3>1, <3>2 DEF RunInv, RunVerdict, Bad
  <2>6. QED
    BY <2>4, <2>5
<1>10. CASE QuickEnd
  BY <1>10 DEF QuickEnd, RunInv, RunVerdict
<1>11. CASE UNCHANGED vars
  BY <1>11 DEF vars, RunInv, RunVerdict, Written
<1>12. QED
  BY <1>1, <1>2, <1>3, <1>4, <1>5, <1>6, <1>7, <1>8, <1>9, <1>10, <1>11 DEF Next

-----------------------------------------------------------------------------
(* Type correctness.                                                       *)

LEMMA RunBoundNat == prog \in Programs => RunBound \in Nat
BY TestConstantsAssumption DEF RunBound, Caller

LEMMA TypeInit == Init => TestTypeOK
<1> SUFFICES ASSUME Init PROVE TestTypeOK
  OBVIOUS
<1>1. RunBound \in Nat
  BY RunBoundNat DEF Init
<1>2. runs \in 0..RunBound /\ snap \in -1..MaxLayer
  BY <1>1, TestConstantsAssumption DEF Init
<1>3. results \in [1..N -> Outcome \cup {"NONE"}]
  BY DEF Init, Outcome
<1>4. /\ alive \in BOOLEAN /\ tlayer \in 0..MaxLayer /\ mode = "idle" /\ i = 1
      /\ verdict \in {"none", "pass", "fail"} /\ runOut \subseteq Outcome
      /\ answered \in BOOLEAN /\ prog \in Programs
  BY DEF Init
<1>5. QED
  BY <1>2, <1>3, <1>4 DEF TestTypeOK

LEMMA TypeStep == TestTypeOK /\ [Next]_vars => TestTypeOK'
<1> SUFFICES ASSUME TestTypeOK, [Next]_vars PROVE TestTypeOK'
  OBVIOUS
<1>0. prog' = prog /\ RunBound' = RunBound
  BY DEF Next, vars, RunBound, Caller, Hang, BeginAll, AllSkip, AllBelowMin,
         AllRun, AllEnd, BeginQuick, QuickGated, QuickRun, QuickEnd
<1>1. RunBound \in Nat
  BY RunBoundNat DEF TestTypeOK
<1>2. CASE Hang
  BY <1>0, <1>2 DEF Hang, TestTypeOK
<1>3. CASE BeginAll
  <2>1. snap' \in -1..MaxLayer
    BY <1>3, TestConstantsAssumption DEF BeginAll, TestTypeOK, GetLayer
  <2>2. runs' \in 0..RunBound'
    BY <1>0, <1>1, <1>3 DEF BeginAll, TestTypeOK
  <2>3. QED
    BY <1>3, <2>1, <2>2, NType DEF BeginAll, TestTypeOK
<1>4. CASE AllSkip
  BY <1>0, <1>4, NType DEF AllSkip, TestTypeOK, Outcome
<1>5. CASE AllBelowMin
  BY <1>0, <1>5, NType DEF AllBelowMin, TestTypeOK
<1>6. CASE AllRun
  <2>1. PICK e \in Ends :
          results' = [results EXCEPT ![i] = IF e = "RAISE" THEN "ERROR" ELSE e]
    BY <1>6 DEF AllRun
  <2>2. (IF e = "RAISE" THEN "ERROR" ELSE e) \in Outcome
    BY DEF Ends, Outcome
  <2>3. QED
    BY <1>0, <1>6, <2>1, <2>2, NType DEF AllRun, TestTypeOK
<1>7. CASE AllEnd
  BY <1>0, <1>7 DEF AllEnd, TestTypeOK
<1>8. CASE BeginQuick
  <2>1. runs' \in 0..RunBound'
    BY <1>0, <1>1, <1>8 DEF BeginQuick, TestTypeOK
  <2>2. Len(QuickTests) \in Nat
    OBVIOUS
  <2>3. /\ mode' = "quick" /\ i' = 1 /\ verdict' = "none" /\ runOut' = {}
        /\ answered' = FALSE /\ UNCHANGED <<alive, tlayer, snap, results, prog>>
    BY <1>8 DEF BeginQuick
  <2>4. i' \in Nat \ {0} /\ i' <= Len(QuickTests) + 1
    BY <2>2, <2>3
  <2>5. QED
    BY <2>1, <2>3, <2>4 DEF TestTypeOK
<1>9. CASE QuickGated
  BY <1>0, <1>9 DEF QuickGated, TestTypeOK
<1>10. CASE QuickRun
  <2>1. UNCHANGED <<results, runs, snap, tlayer, alive, prog>> /\ mode = "quick"
    BY <1>10 DEF QuickRun
  <2>2. i <= Len(QuickTests) /\ Len(QuickTests) \in Nat
    BY <1>10 DEF QuickRun
  <2>3. (mode' = "quick" /\ i' = i + 1) \/ (mode' = "idle" /\ i' = i)
    BY <1>10 DEF QuickRun
  <2>4. verdict' \in {"none", "pass", "fail"} /\ runOut' \subseteq Outcome
        /\ answered' \in BOOLEAN
    BY <1>10 DEF QuickRun, Ends, Outcome, TestTypeOK
  <2>5. QED
    BY <1>0, <2>1, <2>2, <2>3, <2>4 DEF TestTypeOK
<1>11. CASE QuickEnd
  BY <1>0, <1>11 DEF QuickEnd, TestTypeOK
<1>12. CASE UNCHANGED vars
  BY <1>0, <1>12 DEF vars, TestTypeOK
<1>13. QED
  BY <1>2, <1>3, <1>4, <1>5, <1>6, <1>7, <1>8, <1>9, <1>10, <1>11, <1>12
     DEF Next

(* The test runner is well typed for every test list, program and bound:  *)
(* run_all and run_quick never index past the list they walk, results     *)
(* holds only outcomes, and test_hardware.py makes a single run.          *)
THEOREM TestTypeCorrect == Spec => []TestTypeOK
BY TypeInit, TypeStep, PTL DEF Spec

-----------------------------------------------------------------------------
(* Outside the dev loop's behaviours the invariant says nothing.         *)
DevInv == Caller = "dev" => RunInv

LEMMA DevInit == Init => DevInv
BY RunInit DEF DevInv

LEMMA DevStep == DevInv /\ [Next]_vars => DevInv'
<1> SUFFICES ASSUME DevInv, [Next]_vars PROVE DevInv'
  OBVIOUS
<1>1. Caller' = Caller
  BY DEF Next, vars, Caller, Hang, BeginAll, AllSkip, AllBelowMin, AllRun,
         AllEnd, BeginQuick, QuickGated, QuickRun, QuickEnd
<1>2. CASE Caller = "dev"
  BY <1>1, <1>2, RunStep DEF DevInv
<1>3. CASE Caller # "dev"
  BY <1>1, <1>3 DEF DevInv
<1>4. QED
  BY <1>2, <1>3

(* run_tests reports on the run it made (spec 4.5): a finished run of the *)
(* dev loop reports success exactly when none of its tests failed or      *)
(* raised, for every test list, target, number of runs and program.       *)
THEOREM DevVerdictMatchesRun == Spec => []VerdictMatchesRun
<1>1. Init => DevInv
  BY DevInit
<1>2. DevInv /\ [Next]_vars => DevInv'
  BY DevStep
<1>3. DevInv => VerdictMatchesRun
  BY DEF DevInv, RunInv, RunVerdict, VerdictMatchesRun
<1>4. QED
  BY <1>1, <1>2, <1>3, PTL DEF Spec

=============================================================================

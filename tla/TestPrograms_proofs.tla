-------------------------- MODULE TestPrograms_proofs --------------------------
(***************************************************************************)
(* What the two test programs report of their fixed lists of test          *)
(* functions, whatever the file system under test does: for any volume,    *)
(* any lengths, any number of cycles and runs.                             *)
(***************************************************************************)
EXTENDS TestPrograms, TLAPS

-----------------------------------------------------------------------------
(* The inductive invariant. *)

FixtureTests == {"PowerStressTest", "deleteTest", "fillupTest", "randomWriteLengths"}
MainTests == FixtureTests \cup {"PowerFailOnWriteTest"}

\* The places of Unity's runner, outside the test functions.
Setup == {"TEST_SETUP", "TEST_FAIL"}
Teardown == {"TEST_TEAR_DOWN", "UnityConclude"}
Between == {"UnityEnd", "UnityMain"}
Runner == Setup \cup Teardown \cup Between

\* A failure is counted in UnityConclude, and noted in CurrentTestFailed until
\* then; before the teardown there is none.
FixtureInv ==
  /\ fn \in FixtureTests
  /\ Unity \in [NumberOfTests : Nat, TestFailures : Nat, CurrentTestFailed : BOOLEAN]
  /\ pc \notin Between \cup {"exit"} => Unity.TestFailures = 0
  /\ pc \notin Between \cup Teardown \cup {"exit"} =>
       wrong = {} /\ ~Unity.CurrentTestFailed
  /\ pc \in Teardown => (Unity.CurrentTestFailed <=> wrong # {})
  /\ pc \in Between => (Unity.TestFailures = 0 <=> wrong = {})
  /\ pc \in Between \cup {"UnityConclude", "exit"} => buffers = "freed"

\* The first failure ends the program.
MainInv ==
  /\ fn \in MainTests
  /\ pc \notin Runner
  /\ pc # "exit" => wrong = {}
  /\ buffers = "freed"

BenchInv ==
  /\ prog \in {"fixture", "main"}
  /\ prog = "fixture" => FixtureInv
  /\ prog = "main" => MainInv
  /\ ExitTellsTruth

-----------------------------------------------------------------------------
(* The test functions. *)

\* The places a test function goes through: none of the runner's, nor the exit.
Inside(p) == p \notin Runner /\ p # "exit"

\* What a step of a test function leaves alone.
Within == Inside(pc') /\ pc # "exit" /\ Inside(pc) /\ UNCHANGED <<prog, fn>>

USE DEF Within, Inside, Runner, Setup, Teardown, Between

LEMMA StressWithin == PowerStressTest => Within
<1>1. StressSetUp => Within
  BY DEF StressSetUp, Step, WriteAll
<1>2. Rearm \/ CycleMount \/ CycleEnd => Within
  BY DEF Rearm, CycleMount, CycleEnd, Step
<1>3. ValidateCheck => Within
  BY DEF ValidateCheck, Step, ReadAll
<1>4. CountCheck => Within
  BY DEF CountCheck, Step, ReadAll, WriteAll
<1>5. Stuff \/ StressEnd => Within
  BY DEF Stuff, StressEnd, Step, WriteAll
<1> QED
  BY <1>1, <1>2, <1>3, <1>4, <1>5 DEF PowerStressTest

LEMMA DeleteWithin == deleteTest => Within
  BY DEF deleteTest, Step, WriteAll

LEMMA FillupWithin == fillupTest => Within
  BY DEF fillupTest, Step, WriteAll

LEMMA ReadBackWithin ==
  ASSUME NEW closed, Inside(closed), RandomReadBack(closed)
  PROVE  Within
  BY DEF RandomReadBack, Step, ReadAll

LEMMA RandomWithin == randomWriteLengths \/ mainRandomWriteLengths => Within
<1>1. ASSUME NEW opened, Inside(opened), RandomWrites(opened)
      PROVE  Within
  BY <1>1 DEF RandomWrites, Step, WriteAll
<1>2. randomWriteLengths => Within
  BY <1>1, ReadBackWithin DEF randomWriteLengths, Step, TEST_ASSERT_EQUAL
<1>3. mainRandomWriteLengths => Within
  BY <1>1, ReadBackWithin DEF mainRandomWriteLengths, Step
<1> QED
  BY <1>2, <1>3

LEMMA PowerFailWithin == PowerFailOnWriteTest => Within
  BY DEF PowerFailOnWriteTest, Step, WriteAll, ReadAll

LEMMA MainWithin == main /\ fn \in MainTests => Within
  BY DEF main, Step, MainTests, FixtureTests

-----------------------------------------------------------------------------
(* The steps. *)

\* A step of a test function is no matter to the runner.
LEMMA WithinKeeps ==
  ASSUME BenchInv, Within, UNCHANGED <<unity, code, wrong>>
  PROVE  BenchInv'
<1>1. FixtureInv => FixtureInv'
  BY DEF FixtureInv, unity
<1>2. MainInv => MainInv'
  BY DEF MainInv, unity
<1> QED
  BY <1>1, <1>2 DEF BenchInv, ExitTellsTruth

LEMMA FixtureStep ==
  ASSUME BenchInv, Fixture
  PROVE  BenchInv'
<1>1. CASE UnityBegin
  <2>1. prog = "fixture" /\ prog' = prog /\ pc' = "TEST_SETUP"
    BY <1>1 DEF UnityBegin, BenchInv, MainInv
  <2>2. FixtureInv'
    BY <1>1, <2>1 DEF UnityBegin, BenchInv, FixtureInv
  <2> QED
    BY <2>1, <2>2 DEF BenchInv, ExitTellsTruth
<1>2. CASE UnityMainReturns
  <2>1. prog = "fixture" /\ prog' = prog /\ pc' = "exit"
    BY <1>2 DEF UnityMainReturns, BenchInv, MainInv
  <2>2. FixtureInv'
    BY <1>2, <2>1 DEF UnityMainReturns, BenchInv, FixtureInv, unity
  <2>3. code' = 0 <=> wrong' = {}
    BY <1>2, <2>1 DEF UnityMainReturns, BenchInv, FixtureInv
  <2> QED
    BY <2>1, <2>2, <2>3 DEF BenchInv, ExitTellsTruth
<1>3. CASE TEST_SETUP
  <2>1. prog = "fixture" /\ prog' = prog /\ pc' \in {"PowerStressTest", "TEST_FAIL"}
    BY <1>3 DEF TEST_SETUP, BenchInv, MainInv
  <2>2. Unity' = [Unity EXCEPT !.NumberOfTests = @ + 1] /\ wrong' = wrong
        /\ fn' \in FixtureTests
    BY <1>3 DEF TEST_SETUP, FixtureTests
  <2>3. FixtureInv'
    BY <1>3, <2>1, <2>2 DEF TEST_SETUP, BenchInv, FixtureInv
  <2> QED
    BY <2>1, <2>3 DEF BenchInv, ExitTellsTruth
<1>4. CASE UnityFail
  <2>1. prog = "fixture" /\ prog' = prog /\ pc' = "TEST_TEAR_DOWN"
    BY <1>4 DEF UnityFail
  <2>2. FixtureInv'
    BY <1>4, <2>1 DEF UnityFail, BenchInv, FixtureInv
  <2> QED
    BY <2>1, <2>2 DEF BenchInv, ExitTellsTruth
<1>5. CASE getRandFails
  <2>1. prog = "fixture" /\ prog' = prog /\ pc' = "TEST_FAIL" /\ pc \notin Runner \cup {"exit"}
    BY <1>5 DEF getRandFails, Draws
  <2>2. FixtureInv'
    BY <1>5, <2>1 DEF getRandFails, BenchInv, FixtureInv, unity
  <2> QED
    BY <2>1, <2>2 DEF BenchInv, ExitTellsTruth
<1>6. CASE TestPowerStress
  <2>1. prog = "fixture" /\ prog' = prog /\ pc = "passed"
        /\ UNCHANGED <<Unity, run, buffers, code, wrong>>
    BY <1>6 DEF TestPowerStress, unity
  <2>2. pc' \in FixtureTests \cup {"TEST_TEAR_DOWN"} /\ fn' \in FixtureTests
    BY <1>6, <2>1 DEF TestPowerStress, BenchInv, FixtureInv, FixtureTests
  <2>3. FixtureInv'
    BY <2>1, <2>2 DEF BenchInv, FixtureInv, FixtureTests
  <2> QED
    BY <2>1, <2>2, <2>3 DEF BenchInv, ExitTellsTruth, FixtureTests
<1>7. CASE TEST_TEAR_DOWN
  <2>1. prog = "fixture" /\ prog' = prog /\ pc' = "UnityConclude"
    BY <1>7 DEF TEST_TEAR_DOWN, BenchInv, MainInv
  <2>2. FixtureInv'
    BY <1>7, <2>1 DEF TEST_TEAR_DOWN, BenchInv, FixtureInv
  <2> QED
    BY <2>1, <2>2 DEF BenchInv, ExitTellsTruth
<1>8. CASE UnityConcludeFixtureTest
  <2>1. prog = "fixture" /\ prog' = prog /\ pc' = "UnityEnd"
    BY <1>8 DEF UnityConcludeFixtureTest, BenchInv, MainInv
  <2>2. FixtureInv'
    <3>1. FixtureInv /\ pc = "UnityConclude" /\ UNCHANGED <<fn, buffers, wrong>>
      BY <1>8, <2>1 DEF UnityConcludeFixtureTest, BenchInv
    <3>2. /\ Unity.TestFailures = 0 /\ (Unity.CurrentTestFailed <=> wrong # {})
          /\ Unity.CurrentTestFailed \in BOOLEAN
      BY <3>1 DEF FixtureInv
    <3> DEFINE failures == IF Unity.CurrentTestFailed THEN 1 ELSE 0
    <3>3. Unity' = [Unity EXCEPT !.TestFailures = failures, !.CurrentTestFailed = FALSE]
      BY <1>8, <3>2 DEF UnityConcludeFixtureTest
    <3>4. failures \in Nat /\ (failures = 0 <=> wrong = {})
      BY <3>2
    <3> HIDE DEF failures
    <3>5. Unity' \in [NumberOfTests : Nat, TestFailures : Nat, CurrentTestFailed : BOOLEAN]
          /\ Unity'.TestFailures = failures
      BY <3>1, <3>3, <3>4 DEF FixtureInv
    <3> QED
      BY <2>1, <3>1, <3>4, <3>5 DEF FixtureInv
  <2> QED
    BY <2>1, <2>2 DEF BenchInv, ExitTellsTruth
<1>9. CASE UnityEnd
  <2>1. prog = "fixture" /\ prog' = prog /\ pc' = "UnityMain"
    BY <1>9 DEF UnityEnd, BenchInv, MainInv
  <2>2. FixtureInv'
    BY <1>9, <2>1 DEF UnityEnd, BenchInv, FixtureInv, unity
  <2> QED
    BY <2>1, <2>2 DEF BenchInv, ExitTellsTruth
<1> QED
  BY <1>1, <1>2, <1>3, <1>4, <1>5, <1>6, <1>7, <1>8, <1>9, WithinKeeps,
     StressWithin, DeleteWithin, FillupWithin, RandomWithin
  DEF Fixture

LEMMA MainStep ==
  ASSUME BenchInv, Main
  PROVE  BenchInv'
<1>1. fn \in MainTests
  BY DEF BenchInv, FixtureInv, MainInv, MainTests
<1>2. CASE AssertAborts
  <2>1. prog = "main" /\ prog' = prog /\ pc' = "exit" /\ code' = 134 /\ wrong' # {}
    BY <1>2 DEF AssertAborts
  <2>2. MainInv'
    BY <1>1, <1>2, <2>1 DEF AssertAborts, BenchInv, MainInv, unity
  <2> QED
    BY <2>1, <2>2 DEF BenchInv, ExitTellsTruth
<1>3. CASE mainGetRandFails
  <2>1. prog = "main" /\ prog' = prog /\ pc' = "exit" /\ code' = 1 /\ wrong' # {}
    BY <1>3 DEF mainGetRandFails
  <2>2. MainInv'
    BY <1>1, <1>3, <2>1 DEF mainGetRandFails, BenchInv, MainInv, unity
  <2> QED
    BY <2>1, <2>2 DEF BenchInv, ExitTellsTruth
<1>4. CASE runTestSuite
  <2>1. prog = "main" /\ prog' = prog /\ pc \in {"passed", "failed"} /\ buffers' = buffers
        /\ wrong = {}
    BY <1>4 DEF runTestSuite, unity, BenchInv, MainInv
  <2>2. CASE pc = "passed" /\ fn # "PowerFailOnWriteTest"
    <3>1. fn' \in MainTests /\ pc' = fn' /\ wrong' = wrong
      BY <1>1, <1>4, <2>2 DEF runTestSuite, MainTests, FixtureTests
    <3>2. Inside(pc')
      BY <3>1 DEF MainTests, FixtureTests
    <3> QED
      BY <2>1, <3>1, <3>2 DEF BenchInv, MainInv, ExitTellsTruth
  <2>3. CASE ~(pc = "passed" /\ fn # "PowerFailOnWriteTest")
    <3>1. pc' = "exit" /\ fn' = fn
      BY <1>4, <2>3 DEF runTestSuite
    <3>2. code' = 0 <=> wrong' = {}
      BY <1>4, <2>1, <2>3 DEF runTestSuite
    <3> QED
      BY <1>1, <2>1, <3>1, <3>2 DEF BenchInv, MainInv, ExitTellsTruth
  <2> QED
    BY <2>2, <2>3
<1>5. CASE main
  BY <1>1, <1>5, MainWithin, WithinKeeps DEF main
<1>6. CASE NoVolume
  <2>1. prog = "main" /\ prog' = prog /\ pc' = "exit" /\ code' = 139 /\ wrong' # {}
    BY <1>6 DEF NoVolume
  <2>2. MainInv'
    BY <1>1, <1>6, <2>1 DEF NoVolume, BenchInv, MainInv, unity
  <2> QED
    BY <2>1, <2>2 DEF BenchInv, ExitTellsTruth
<1> QED
  BY <1>2, <1>3, <1>4, <1>5, <1>6, WithinKeeps, StressWithin, DeleteWithin, FillupWithin,
     RandomWithin, PowerFailWithin
  DEF Main, mainStressSetUp, mainPowerCycle, mainStuff, mainDeleteTest, mainFillupTest,
      PowerStressTest, main

LEMMA InitBench == BenchInit => BenchInv
  BY DEF BenchInit, BenchInv, FixtureInv, MainInv, ExitTellsTruth, FixtureTests, MainTests

LEMMA StepBench == BenchInv /\ [BenchNext]_allVars => BenchInv'
<1> SUFFICES ASSUME BenchInv, [BenchNext]_allVars
             PROVE  BenchInv'
  OBVIOUS
<1>1. CASE UNCHANGED allVars
  <2>1. UNCHANGED <<prog, pc, fn, Unity, buffers, code, wrong>>
    BY <1>1 DEF allVars, unity
  <2> QED
    BY <2>1 DEF BenchInv, FixtureInv, MainInv, ExitTellsTruth
<1> QED
  BY <1>1, FixtureStep, MainStep DEF BenchNext, Exited

LEMMA BenchAlways == BenchSpec => []BenchInv
  BY InitBench, StepBench, PTL DEF BenchSpec

\* Of the last run the exit code tells the truth: it is zero when and only when all
\* of the program's test functions were reached in that run and none failed, however
\* a failure left its function and whatever the teardown did.  It says nothing of
\* the runs before, whose failures UnityBegin forgets.
THEOREM TruthTold == BenchSpec => []ExitTellsTruth
<1>1. BenchInv => ExitTellsTruth
  BY DEF BenchInv
<1> QED
  BY <1>1, BenchAlways, PTL

\* The buffers of the fixture's TEST_SETUP are freed before the next run of all_tests
\* and before its exit, wherever a failure left the test.  (The functions of main.c
\* free their own on their way out, or do not, and nothing is said of them here.)
THEOREM TornDown == BenchSpec => []TearsDown
<1>1. BenchInv => TearsDown
  BY DEF BenchInv, FixtureInv, MainInv, TearsDown
<1> QED
  BY <1>1, BenchAlways, PTL
=============================================================================

---------------------------- MODULE TestPrograms ----------------------------
(***************************************************************************)
(* The two programs: all_tests, which runs the test functions of           *)
(* testPowerStress.c as one Unity fixture test, and main.c, which has its  *)
(* own copies of them and one more.                                        *)
(***************************************************************************)
EXTENDS PowerStress

CONSTANTS
  HalfUnits,    \* what PowerFailOnWriteTest gets written of the new contents
  RepeatCount   \* UnityFixture.RepeatCount

ASSUME HalfAssumption == HalfUnits \in 1..ValidateUnits - 1
ASSUME RepeatAssumption == RepeatCount \in Nat \ {0}

VARIABLES
  Unity,     \* NumberOfTests, TestFailures and CurrentTestFailed
  run,       \* the run UnityMain is in
  buffers,   \* all_tests: what TEST_SETUP allocated is there, and not yet freed
  code,      \* the exit code; -1 while the program runs
  wrong      \* history: the test functions that failed, or were not reached, in this run

unity == <<Unity, run, buffers>>
allVars == <<fs, dev, prog, pc, fn, local, unity, code, wrong>>

\* Between two test functions the data, the headers and the session numbers are
\* forgotten: the next function begins with ufat_format, after which nothing
\* reads what is not written anew.
Scrub ==
  /\ hdr' = [s \in Sectors |-> Junk]
  /\ data' = [s \in Sectors |-> [u \in Units |-> Junk]]
  /\ session' = 0
  /\ UNCHANGED <<table, fat, mounted, lastError, strm, ret, trap>>

\* The device is cleared.
Clear ==
  /\ table' = Both(Bad)
  /\ hdr' = [s \in Sectors |-> Junk]
  /\ data' = [s \in Sectors |-> [u \in Units |-> Junk]]

-----------------------------------------------------------------------------
(* all_tests: Unity's fixture runner around TestPowerStress. *)

\* UnityMain: every run starts counting anew, and the last one is returned.
UnityBegin ==
  /\ pc = "UnityMain" /\ run < RepeatCount
  /\ Unity' = [NumberOfTests |-> 0, TestFailures |-> 0, CurrentTestFailed |-> FALSE]
  /\ run' = run + 1
  /\ wrong' = {}
  /\ pc' = "TEST_SETUP"
  /\ UNCHANGED <<fs, dev, prog, fn, local, buffers, code>>

UnityMainReturns ==
  /\ pc = "UnityMain" /\ run = RepeatCount
  /\ code' = Unity.TestFailures
  /\ pc' = "exit"
  /\ UNCHANGED <<fs, dev, prog, fn, local, unity, wrong>>

\* UnityTestRunner and the setup it protects.  PowerStressTest begins with
\* TEST_ASSERT on the memory malloc gave, which fails when that is short.
TEST_SETUP ==
  /\ pc = "TEST_SETUP"
  /\ Unity' = [Unity EXCEPT !.NumberOfTests = @ + 1]
  /\ takeDownTest' = 0
  /\ Clear
  /\ fat' = BlankFat /\ session' = 0
  /\ buffers' \in {"held", "short"}
  /\ fn' = "PowerStressTest"
  /\ pc' = IF buffers' = "held" THEN fn' ELSE "TEST_FAIL"
  /\ UNCHANGED <<mounted, lastError, strm, ret, trap, takeDownFlags, takeDownPeriod,
                 prog, local, run, code, wrong>>

\* TEST_FAIL_MESSAGE or TEST_ASSERT, or an assertion on what a call or a test
\* function returned: the failure is noted, and TEST_ABORT leaves the test for the
\* teardown.
UnityFail ==
  /\ prog = "fixture" /\ pc \in {"TEST_FAIL", "failed"}
  /\ Unity' = [Unity EXCEPT !.CurrentTestFailed = TRUE]
  /\ wrong' = wrong \cup {fn}
  /\ pc' = "TEST_TEAR_DOWN"
  /\ UNCHANGED <<fs, dev, prog, fn, local, run, buffers, code>>

\* Where a function draws random numbers, which rand_s may refuse.
Draws == {"PowerStressTest", "rearm", "fillupTest", "randomWriteLengths", "random_write",
          "PowerFailOnWriteTest"}

getRandFails ==
  /\ prog = "fixture" /\ pc \in Draws
  /\ pc' = "TEST_FAIL"
  /\ UNCHANGED <<fs, dev, prog, fn, local, unity, code, wrong>>

\* The functions one after the other, the later ones with takeDownTest cleared,
\* and TEST_PASS.
TestPowerStress ==
  /\ prog = "fixture" /\ pc = "passed"
  /\ IF fn = "randomWriteLengths"
     THEN pc' = "TEST_TEAR_DOWN" /\ UNCHANGED <<fs, fn, takeDownTest>>
     ELSE /\ fn' = [PowerStressTest |-> "deleteTest", deleteTest |-> "fillupTest",
                    fillupTest |-> "randomWriteLengths"][fn]
          /\ pc' = fn'
          /\ takeDownTest' = 0
          /\ Scrub
  /\ UNCHANGED <<takeDownFlags, takeDownPeriod, prog, local, unity, code, wrong>>

\* Mutant of TEST_TEAR_DOWN: it runs only when the test was not left early.
TEST_TEAR_DOWN_Passed ==
  /\ pc = "TEST_TEAR_DOWN"
  /\ buffers' = IF Unity.CurrentTestFailed THEN buffers ELSE "freed"
  /\ pc' = "UnityConclude"
  /\ UNCHANGED <<fs, dev, prog, fn, local, Unity, run, code, wrong>>

\* Protected on its own, so that it runs after a failure too.
TEST_TEAR_DOWN ==
  /\ pc = "TEST_TEAR_DOWN"
  /\ buffers' = "freed"
  /\ pc' = "UnityConclude"
  /\ UNCHANGED <<fs, dev, prog, fn, local, Unity, run, code, wrong>>

\* Mutant of UnityConcludeFixtureTest: the failure is cleared before it counts.
UnityConcludeCleared ==
  /\ pc = "UnityConclude"
  /\ Unity' = [Unity EXCEPT !.CurrentTestFailed = FALSE]
  /\ pc' = "UnityEnd"
  /\ UNCHANGED <<fs, dev, prog, fn, local, run, buffers, code, wrong>>

UnityConcludeFixtureTest ==
  /\ pc = "UnityConclude"
  /\ Unity' = [Unity EXCEPT !.TestFailures = IF Unity.CurrentTestFailed THEN @ + 1 ELSE @,
                            !.CurrentTestFailed = FALSE]
  /\ pc' = "UnityEnd"
  /\ UNCHANGED <<fs, dev, prog, fn, local, run, buffers, code, wrong>>

\* The counters are printed; the number of failures it returns is dropped.
UnityEnd ==
  /\ pc = "UnityEnd"
  /\ pc' = "UnityMain"
  /\ UNCHANGED <<fs, dev, prog, fn, local, unity, code, wrong>>

Fixture ==
  \/ UnityBegin \/ UnityMainReturns \/ TEST_SETUP \/ TestPowerStress
  \/ UnityFail \/ getRandFails
  \/ TEST_TEAR_DOWN \/ UnityConcludeFixtureTest \/ UnityEnd
  \/ /\ prog = "fixture"
     /\ PowerStressTest \/ deleteTest \/ fillupTest \/ randomWriteLengths
     /\ UNCHANGED <<unity, code, wrong>>

-----------------------------------------------------------------------------
(* main.c.  Its copies of the test functions make the same calls; each has   *)
(* its buffers to itself.                                                    *)

\* What malloc returned for fs1.buff and fs1.fat is not checked: without it the
\* first ufat_mount or ufat_format dies of the null pointer, and no test is reached.
NoVolume ==
  /\ prog = "main" /\ pc = "main"
  /\ code' = 139
  /\ wrong' = wrong \cup {fn}
  /\ pc' = "exit"
  /\ UNCHANGED <<fs, dev, prog, fn, local, unity>>

\* assert on what malloc returned to a test function ends the program.
AssertAborts ==
  /\ prog = "main"
  /\ pc = fn /\ fn # "deleteTest"
  /\ code' = 134
  /\ wrong' = wrong \cup {fn}
  /\ pc' = "exit"
  /\ UNCHANGED <<fs, dev, prog, fn, local, unity>>

\* getRand ends the program when rand_s refuses.
mainGetRandFails ==
  /\ prog = "main" /\ pc \in Draws
  /\ code' = 1
  /\ wrong' = wrong \cup {fn}
  /\ pc' = "exit"
  /\ UNCHANGED <<fs, dev, prog, fn, local, unity>>

mainStressSetUp == StressSetUp
mainPowerCycle == Rearm \/ CycleMount \/ ValidateCheck \/ CountCheck
mainStuff == Stuff \/ CycleEnd \/ StressEnd
mainFillupTest == fillupTest
mainDeleteTest == deleteTest

\* Without the assertions: of the results only the last one ends the loop.
mainRandomWriteLengths ==
  /\ \/ Step("randomWriteLengths", Format, "random_mount",
             [Locals EXCEPT !.testCount = TEST_COUNT])
     \/ Step("random_mount", Mount, "random_open", local)
     \/ RandomWrites("random_write")
     \/ Step("random_end", Close,
             IF local.testCount > 0 THEN "random_reopen"
             ELSE IF ret' = "OK" THEN "random_info" ELSE "failed",
             [local EXCEPT !.testCount = @ - 1])
     \/ RandomReadBack(IF ret' = "OK" THEN "random_open" ELSE "failed")
     \/ Step("random_info", Info, "passed", local)
  /\ Still

\* "Power failure here": a new mount in the middle of rewriting validate.bin,
\* after which the old contents are read.
PowerFailOnWriteTest ==
  /\ \/ Step("PowerFailOnWriteTest", Format, "half_start", Locals)
     \/ Step("half_start", Mount, "half_new", local)
     \/ Step("half_new", OpenWriter(Validate), "half_write",
             [local EXCEPT !.want = ValidateUnits])
     \/ WriteAll("half_write", "half_end", "half_end")
     \/ Step("half_end", Close, "half_mount", local)
     \/ Step("half_mount", Mount, IF ret' = "OK" THEN "half_again" ELSE "failed", local)
     \/ Step("half_again", OpenWriter(Validate), "half_rewrite",
             [local EXCEPT !.want = HalfUnits])
     \/ WriteAll("half_rewrite", "half_remount", "half_remount")
     \/ Step("half_remount", Mount, "half_open", local)
     \/ Step("half_open", OpenReader(Validate), IF ret' = "OK" THEN "half_read" ELSE "failed",
             local)
     \/ ReadAll("half_read",
                IF Compares(strm'[F], 1, ValidateUnits) THEN "half_close"
                ELSE IF NothingRead THEN "passed" ELSE "failed", local)
     \/ Step("half_close", Close, IF ret' = "OK" THEN "passed" ELSE "failed", local)
  /\ Still

\* The first failure ends the suite with its result.
runTestSuite ==
  /\ prog = "main" /\ pc \in {"passed", "failed"}
  /\ IF pc = "passed" /\ fn # "PowerFailOnWriteTest"
     THEN /\ fn' = [PowerStressTest |-> "deleteTest", deleteTest |-> "fillupTest",
                    fillupTest |-> "randomWriteLengths",
                    randomWriteLengths |-> "PowerFailOnWriteTest"][fn]
          /\ pc' = fn'
          /\ Scrub
          /\ UNCHANGED <<code, wrong>>
     ELSE /\ pc' = "exit"
          /\ code' = IF pc = "passed" THEN 0 ELSE 1
          /\ wrong' = IF pc = "passed" THEN wrong ELSE wrong \cup {fn}
          /\ UNCHANGED <<fs, fn>>
  /\ UNCHANGED <<dev, prog, local, unity>>

\* The erased volume is formatted.
main ==
  /\ \/ Step("main", Mount, IF ret' = "EMPTY" THEN "main_format" ELSE fn, local)
     \/ Step("main_format", Format, "main_mount", local)
     \/ Step("main_mount", Mount, fn, local)
  /\ Still
  /\ UNCHANGED <<unity, code, wrong>>

Main ==
  \/ main \/ NoVolume \/ AssertAborts \/ mainGetRandFails \/ runTestSuite
  \/ /\ prog = "main"
     /\ \/ mainStressSetUp \/ mainPowerCycle \/ mainStuff \/ mainDeleteTest
        \/ mainFillupTest \/ mainRandomWriteLengths \/ PowerFailOnWriteTest
     /\ UNCHANGED <<unity, code, wrong>>

-----------------------------------------------------------------------------
\* One of the programs is started on an erased device.
BenchInit ==
  /\ Init
  /\ takeDownTest = 0 /\ takeDownFlags = {} /\ takeDownPeriod = 0
  /\ local = Locals
  /\ Unity = [NumberOfTests |-> 0, TestFailures |-> 0, CurrentTestFailed |-> FALSE]
  /\ run = 0 /\ buffers = "freed"
  /\ code = -1 /\ wrong = {}
  /\ fn = "PowerStressTest"
  /\ \/ prog = "fixture" /\ pc = "UnityMain"
     \/ prog = "main" /\ pc = "main"

Exited == pc = "exit" /\ UNCHANGED allVars

BenchNext == Fixture \/ Main \/ Exited

\* The program runs on; and a mount is tried with ever new random periods, so
\* that one gets through in the end.
BenchSpec ==
  /\ BenchInit /\ [][BenchNext]_allVars
  /\ WF_allVars(BenchNext)
  /\ SF_allVars(CycleMount /\ pc' = "check_open" /\ UNCHANGED <<unity, code, wrong>>)

-----------------------------------------------------------------------------
\* Whatever accesses the fake device fails, and whatever lengths are drawn, every
\* test function that gets its memory and its random numbers succeeds, and not
\* before it has done all of its rounds.
TestsPass ==
  /\ pc # "failed"
  /\ pc = "passed" /\ fn = "PowerStressTest" => local.cycles = -1
  /\ pc = "passed" /\ fn = "randomWriteLengths" => local.testCount = -1
  /\ trap = {}

\* The exit code tells of the last run, since each run counts anew: it is zero
\* when and only when all test functions were reached in it and none failed.
ExitTellsTruth == pc = "exit" => (code = 0 <=> wrong = {})

\* In all_tests what TEST_SETUP allocated is freed before the program ends or the
\* next run begins, also when an assertion left the test.
TearsDown == prog = "fixture" /\ pc \in {"UnityMain", "exit"} => buffers = "freed"

\* Both programs end: the cycles are used up, the volume fills, the files are
\* read.
Terminates == <>(pc = "exit")
=============================================================================

---------------------------- MODULE PowerStress ----------------------------
(***************************************************************************)
(* The test functions of testPowerStress.c, call by call.  A place is      *)
(* where a call is made; "passed" and "failed" are a return with zero and  *)
(* with another value, and a TEST_ASSERT that fails is "failed".           *)
(***************************************************************************)
EXTENDS TestBench

CONSTANTS
  StressUnits,   \* lengths of the files PowerStressTest stuffs in
  StressFiles,   \* how many it takes turns with
  FillUnits,     \* lengths fillupTest asks for
  RandomUnits,   \* lengths randomWriteLengths asks for
  RandomFiles,   \* how many it takes turns with
  TEST_COUNT     \* how many it writes before it stops reading them back

ASSUME TestUnitsAssumption ==
  StressUnits \subseteq 0..MaxUnits /\ FillUnits \cup RandomUnits \subseteq 1..MaxUnits
ASSUME TestFilesAssumption ==
  StressFiles \in DOMAIN Tests /\ RandomFiles \in DOMAIN Tests /\ TEST_COUNT \in Nat

Still == UNCHANGED takeDownTest

-----------------------------------------------------------------------------
(* PowerStressTest. *)

\* A new volume with validate.bin and, holding 0, powercycles.txt.
StressSetUp ==
  /\ \/ Step("PowerStressTest", Format, "stress_mount", Locals)
     \/ Step("stress_mount", Mount, IF ret' = "OK" THEN "validate_new" ELSE "failed", local)
     \/ Step("validate_new", OpenWriter(Validate), "validate_write",
             [local EXCEPT !.want = ValidateUnits])
     \/ WriteAll("validate_write", "validate_end", "validate_end")
     \/ Step("validate_end", Close, "count_new", local)
     \/ Step("count_new", OpenWriter(PowerCycles), "count_write", [local EXCEPT !.want = 1])
     \/ WriteAll("count_write", "count_end", "count_end")
     \/ Step("count_end", Close, IF ret' = "OK" THEN "rearm" ELSE "failed", local)
  /\ Still

\* The next power failure is prepared.
Rearm ==
  /\ pc = "rearm"
  /\ takeDownTest' = 1
  /\ takeDownFlags' \in {{"write"}, {"write", "read"}}
  /\ takeDownPeriod' = MaxPeriod
  /\ pc' = "cycle_mount"
  /\ UNCHANGED <<fs, prog, fn, local>>

\* A mount that fails is tried again, with a new period.
CycleMount ==
  /\ Step("cycle_mount", Mount,
          CASE ret' = "IO" -> "rearm" [] ret' = "OK" -> "check_open" [] OTHER -> "failed",
          local)
  /\ takeDownTest' = IF ret' = "OK" THEN 0 ELSE takeDownTest

\* Nothing that was read, without the error bit, leaves the loop with zero.
NothingRead == strm'[F].pos = 0 /\ ~ufat_ferror(F)'

\* With the device working, validate.bin is what it was.
ValidateCheck ==
  \/ /\ \/ Step("check_open", OpenReader(Validate),
                IF ret' = "OK" THEN "check_read"
                ELSE IF ufat_errno' = "IO" THEN "rearm" ELSE "failed", local)
        \/ ReadAll("check_read",
                   IF Compares(strm'[F], 1, ValidateUnits) THEN "check_end"
                   ELSE IF NothingRead THEN "final_mount" ELSE "failed", local)
     /\ Still
  \/ /\ Step("check_end", Close, IF ret' = "OK" THEN "count_open" ELSE "failed", local)
     /\ takeDownTest' = 1

\* The number in powercycles.txt never falls, and is increased.
CountCheck ==
  /\ \/ Step("count_open", OpenReader(PowerCycles),
             IF ret' = "OK" THEN "count_read"
             ELSE IF ufat_errno' = "IO" THEN "cycle_end" ELSE "failed", local)
     \/ ReadAll("count_read", "count_check",
                IF ret' # "OK" THEN local
                ELSE [local EXCEPT !.powerCycleTestResult = local.wrote[strm[F].ver]])
     \/ LET got == local.powerCycleTestResult
        IN  Step("count_check", Close,
                 IF ret' = "OK" /\ local.powerCycleValidate > got THEN "failed"
                                                                  ELSE "count_reopen",
                 [local EXCEPT !.powerCycleTest = got + 1,
                               !.powerCycleValidate = IF ret' = "OK" THEN got ELSE @])
     \/ Step("count_reopen", OpenWriter(PowerCycles),
             CASE ret' = "OK" -> "count_rewrite" [] ret' = "IO" -> "cycle_end"
               [] OTHER -> "failed",
             [local EXCEPT !.want = 1, !.wrote[session'] = local.powerCycleTest])
     \/ WriteAll("count_rewrite", "count_done", "count_done")
     \/ Step("count_done", Close,
             CASE ret' = "OK" -> "stuff_open" [] ret' = "IO" -> "cycle_end"
               [] OTHER -> "failed", local)
  /\ Still

\* "Save and stuff until it dies": files of any length, the empty one included,
\* one after the other under a few names.
Stuff ==
  /\ \/ \E n \in StressUnits :
          Step("stuff_open", OpenWriter(Tests[local.i + 1]),
               IF n = 0 THEN "stuff_end" ELSE "stuff_write",
               [local EXCEPT !.want = n, !.i = (@ + 1) % StressFiles])
     \/ WriteAll("stuff_write", "stuff_end", "stuff_end")
     \/ Step("stuff_end", Close,
             CASE ret' = "OK" -> "stuff_open" [] ret' = "IO" -> "cycle_end"
               [] OTHER -> "failed", local)
  /\ Still

\* Mutant of CycleEnd: the cycles are not counted.
CycleEndEndless ==
  /\ pc = "cycle_end"
  /\ pc' = "rearm"
  /\ UNCHANGED <<fs, dev, prog, fn, local>>

CycleEnd ==
  /\ pc = "cycle_end"
  /\ IF local.cycles = 0
     THEN pc' = "final_mount" /\ takeDownTest' = 0
     ELSE pc' = "rearm" /\ Still
  /\ local' = [local EXCEPT !.cycles = @ - 1]
  /\ UNCHANGED <<fs, takeDownFlags, takeDownPeriod, prog, fn>>

StressEnd ==
  /\ \/ Step("final_mount", Mount, IF ret' = "OK" THEN "final_info" ELSE "failed", local)
     \/ Step("final_info", Info, "passed", local)
  /\ Still

PowerStressTest ==
  \/ StressSetUp \/ Rearm \/ CycleMount \/ ValidateCheck \/ CountCheck
  \/ Stuff \/ CycleEnd \/ StressEnd

-----------------------------------------------------------------------------
(* deleteTest: a file is there after it was closed and gone after ufat_remove. *)

\* The length ufat_exists returns; 0 for no file.
FoundLength(n) == ret' = "FOUND" /\ \A s \in Search(TestFile) : Len(hdr[s]) = n

deleteTest ==
  /\ \/ Step("deleteTest", Format, "delete_mount", Locals)
     \/ Step("delete_mount", Mount, "delete_open", local)
     \/ Step("delete_open", OpenWriter(TestFile), "delete_write", [local EXCEPT !.want = 1])
     \/ WriteAll("delete_write", "delete_end", "delete_give_up")
     \/ \E at \in {"delete_end", "delete_give_up"} :
          Step(at, Close,
               IF at = "delete_end" /\ ret' = "OK" THEN "delete_found" ELSE "failed", local)
     \/ Step("delete_found", Exists(TestFile),
             IF FoundLength(1) THEN "delete_remove" ELSE "failed", local)
     \/ Step("delete_remove", Remove(TestFile),
             IF ret' = "OK" THEN "delete_gone" ELSE "failed", local)
     \/ Step("delete_gone", Exists(TestFile),
             IF ret' = "NOT_FOUND" THEN "passed" ELSE "failed", local)
  /\ Still

-----------------------------------------------------------------------------
\* fillupTest: new files until ufat_fwrite returns UFAT_ERR_FULL.
fillupTest ==
  /\ \/ Step("fillupTest", Format, "fill_mount", Locals)
     \/ Step("fill_mount", Mount, "fill_open", local)
     \/ \E n \in FillUnits :
          Step("fill_open", OpenWriter(Tests[local.i + 1]), "fill_write",
               [local EXCEPT !.want = n, !.i = @ + 1])
     \/ WriteAll("fill_write", "fill_next", IF ret' = "FULL" THEN "fill_full" ELSE "fill_stuck")
     \/ \E at \in {"fill_next", "fill_full", "fill_stuck"} :
          Step(at, Close,
               CASE at = "fill_full" -> "passed"
                 [] at = "fill_next" /\ ret' = "OK" -> "fill_open"
                 [] OTHER -> "failed", local)
  /\ Still

-----------------------------------------------------------------------------
(* randomWriteLengths: files are written, in part over older ones, and read  *)
(* back.                                                                     *)

\* The file that was written last is read and closed.  Nothing read counts as
\* success, as in ValidateCheck.
RandomReadBack(closed) ==
  \/ Step("random_reopen", OpenReader(local.buf),
          IF ret' = "NOT_FOUND" THEN "failed" ELSE "random_read", local)
  \/ ReadAll("random_read",
             IF Compares(strm'[F], session, local.len) THEN "random_next"
             ELSE IF strm'[F].pos = 0 THEN "random_nothing" ELSE "random_give_up", local)
  \/ \E at \in {"random_next", "random_nothing", "random_give_up"} :
       Step(at, Close,
            CASE at = "random_next" -> closed
              [] at = "random_nothing" -> "random_info"
              [] OTHER -> "failed", local)

RandomWrites(opened) ==
  \/ \E n \in RandomUnits :
       Step("random_open", OpenWriter(Tests[local.i + 1]), opened,
            [local EXCEPT !.want = n, !.len = n, !.buf = Tests[local.i + 1],
                          !.i = (@ + 1) % RandomFiles])
  \/ WriteAll("random_write", "random_end", "random_end")

\* UnityAssertEqualNumber: the place of an assertion that expected another value
\* is that of a failed test.
TEST_ASSERT_EQUAL(expected, actual, next) == IF expected = actual THEN next ELSE "failed"

randomWriteLengths ==
  /\ \/ Step("randomWriteLengths", Format, TEST_ASSERT_EQUAL("OK", ret', "random_mount"),
             [Locals EXCEPT !.testCount = TEST_COUNT])
     \/ Step("random_mount", Mount, TEST_ASSERT_EQUAL("OK", ret', "random_open"), local)
     \/ RandomWrites(TEST_ASSERT_EQUAL(<<"OK", FALSE>>, <<ret', ufat_ferror(F)'>>, "random_write"))
     \/ Step("random_end", Close,
             TEST_ASSERT_EQUAL("OK", ret',
               IF local.testCount = 0 THEN "random_info" ELSE "random_reopen"),
             [local EXCEPT !.testCount = @ - 1])
     \/ RandomReadBack(TEST_ASSERT_EQUAL("OK", ret', "random_open"))
     \/ Step("random_info", Info, "passed", local)
  /\ Still
=============================================================================

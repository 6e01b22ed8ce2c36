----------------------------- MODULE TestBench -----------------------------
(***************************************************************************)
(* What the two test programs of the repository, testPowerStress.c and     *)
(* main.c, are built from: the fake device with its takeDown variables and *)
(* the calls they make on their one handle.                                *)
(*                                                                         *)
(* pc names the next call of the test function that runs.  A read or a     *)
(* write that takes several passes stays at its place until it is done.    *)
(***************************************************************************)
EXTENDS MicroFSProps

CONSTANTS
  Validate,           \* "validate.bin"
  PowerCycles,        \* "powercycles.txt"
  TestFile,           \* "testfile.bin"
  Tests,              \* "test0.txt", "test1.txt", ...: Tests[i + 1] has number i
  ValidateUnits,      \* the length of validate.bin
  POWER_CYCLE_COUNT,
  MaxPeriod           \* bound on takeDownPeriod

ASSUME BenchNamesAssumption ==
  {Validate, PowerCycles, TestFile} \subseteq Names /\ Tests \in [1..Cardinality(DOMAIN Tests) -> Names]
ASSUME BenchUnitsAssumption == ValidateUnits \in 1..MaxUnits
ASSUME PeriodAssumption == POWER_CYCLE_COUNT \in Nat /\ MaxPeriod \in Nat

VARIABLES
  prog,            \* the program: "fixture" or "main"
  pc,              \* the next call; "passed" or "failed" when fn has returned
  fn,              \* the test function that runs
  local,           \* its local variables
  takeDownTest, takeDownFlags,
  takeDownPeriod   \* closes that still succeed: the period in larger steps

fs == <<table, hdr, data, fat, mounted, lastError, strm, ret, session, trap>>
dev == <<takeDownTest, takeDownFlags, takeDownPeriod>>

\* len and buf: the length and name of the current file; want: what is left of it
\* to write; wrote: history, the number each session put in powercycles.txt.
Locals == [i |-> 0, len |-> 0, want |-> 0, cycles |-> POWER_CYCLE_COUNT,
           powerCycleTest |-> 0, powerCycleTestResult |-> 0,
           powerCycleValidate |-> 0, testCount |-> 0, buf |-> Validate,
           wrote |-> [v \in Sessions |-> 0]]

F == CHOOSE f \in Streams : TRUE

-----------------------------------------------------------------------------
(* The fake device. *)

\* An access of the call failed.
Failed == lastError # "IO" /\ "IO" \in {ret', lastError'}

\* The device is armed for this kind of access: once the period is used up every
\* such access fails until it is armed anew.
MayFail(kind) == takeDownTest = 1 /\ kind \in takeDownFlags

write_block_page(call) ==
  /\ call
  /\ Failed => MayFail("write")
  /\ UNCHANGED <<takeDownFlags, takeDownPeriod>>

read_block_device(call) ==
  /\ call
  /\ Failed => MayFail("read")
  /\ UNCHANGED <<takeDownFlags, takeDownPeriod>>

-----------------------------------------------------------------------------
(* The calls. *)

Format ==
  /\ ufat_format
  /\ takeDownTest = 0 => ret' = "OK"
  /\ UNCHANGED <<takeDownFlags, takeDownPeriod>>

Mount ==
  /\ \/ mountEmpty
     \/ mountDone /\ (takeDownTest = 0 => table' = Both(fat'))
     \/ MayFail("read") /\ mountReadFails
     \/ MayFail("write") /\ mountCopyFails
  /\ UNCHANGED <<takeDownFlags, takeDownPeriod>>

OpenReader(n) == read_block_device(Latched \/ fopenRead(F, n))
OpenWriter(n) == read_block_device(Latched \/ fopenWrite(F, n))
Exists(n) == read_block_device(ufat_exists(n))
Remove(n) == write_block_page(ufat_remove(n)) /\ (takeDownTest = 0 => UNCHANGED trap)
Info == read_block_device(ufat_fsinfo)

\* A pass takes as much of the request as the sector has room for.
Room(h) == IF h.cur = NoSector THEN SectorUnits - HeaderUnits
           ELSE IF h.off = SectorUnits THEN SectorUnits ELSE SectorUnits - h.off
Pass(n) == IF n < Room(strm[F]) THEN n ELSE Room(strm[F])

\* Of the sectors the random search may find the lowest is taken: with one
\* handle a name has one start sector, so that no order of sectors matters.
FirstFit ==
  \A s \in Sectors : fat[s].available /\ ~fat'[s].available =>
    \A t \in findEmptySector(fat) : s <= t

Write(n) ==
  /\ write_block_page(Latched \/ fwriteFull(F) \/ fwriteOutside(F) \/ fwritePass(F, Pass(n)))
  /\ FirstFit

Read ==
  /\ read_block_device(Latched \/ ufat_fread(F))
  /\ ret' = "OK" => strm'[F].off = SectorUnits \/ AtEnd(strm'[F])

\* Closing a file that was written uses up the period.
Close ==
  /\ Latched \/ ufat_fclose(F)
  /\ LET accesses == takeDownTest = 1 /\ lastError # "IO" /\ strm[F].mode = "w" /\ ~strm[F].err
     IN  /\ ~accesses => (ret' = "IO" => lastError = "IO")
         /\ accesses /\ takeDownPeriod = 0 => ret' = "IO"
         /\ takeDownPeriod' = IF accesses /\ ret' = "OK" THEN takeDownPeriod - 1
                              ELSE takeDownPeriod
  /\ UNCHANGED takeDownFlags

-----------------------------------------------------------------------------
(* Steps of a test function: at a place, a call, the next place, and the     *)
(* local variables after it.                                                 *)

Step(at, call, next, new) ==
  pc = at /\ call /\ pc' = next /\ local' = new /\ UNCHANGED <<prog, fn>>

\* ufat_fwrite of all that is wanted, or until it fails.
WriteAll(at, done, short) ==
  LET left == local.want - (strm'[F].pos - strm[F].pos)
  IN  Step(at, Write(local.want),
           IF left = 0 THEN done ELSE IF ret' = "OK" THEN at ELSE short,
           [local EXCEPT !.want = left])

\* ufat_fread until the end of the file, or until it fails.
ReadAll(at, next, new) ==
  LET more == ret' = "OK" /\ ~AtEnd(strm'[F])
  IN  Step(at, Read, IF more THEN at ELSE next, IF more THEN local ELSE new)

\* memcmp: what was read is all that session v wrote, n units.
Compares(h, v, n) == h.pos = n /\ h.ver = v /\ h.sound
=============================================================================

# microFS in TLA+

microFS (`src/src/microFS.c`, 972 lines of C) is a small file system for FRAM:
an allocation table kept twice on the media and once in RAM, files that are
chains of sectors, and one rule of safety: everything a writer does happens in
free sectors until `ufat_fclose` or `ufat_remove` commits a new table. This
project models that code, checks the models with TLC and proves theorems about
them with TLAPS.

## The system

| Part | State | Operations | What makes it correct |
|---|---|---|---|
| Table store | two copies of the table on the media, each with a CRC; `fs->fat`, `fs->buff` | `ufat_mount` (`validateTable`, `copyTable`, `loadTable`, `scanTable`), `ufat_format`, `commitChanges` | one good copy always exists; the pair acts as one table that changes at one instant; of two good copies the right one is the newer |
| Allocation table | one `ufat_sector_t` per sector: `next`, `sof`, `available`, `written` | `findEmptySector`, the loops that commit and free a chain, `scanTable`, `fileSearch` | every sector is free, or in exactly one chain; chains end |
| File operations | `ufat_FILE` handles, `fs->lastError`, `fs->volumeMounted` | `ufat_fopen`, `ufat_fwrite`, `ufat_fread`, `ufat_fclose`, `ufat_remove`, `ufat_exists` | a file is replaced whole or not at all; what was committed lasts; what was written is read back; after an I/O error nothing is written before the next mount |
| Device driver | the media | `read_block_device`, `write_block_device`: callbacks supplied by the application | external; may fail in any access |
| Geometry | `sectors`, `sectorSize`, `tableSectors`, `addressStart` | address arithmetic, the assertions of mount and format | the table fits its sectors, no address leaves the volume |
| `crc32` | `crc32_table`, built on first use | `init_crc32`, `crc32`, `calcTableCRC` | it is the remainder it claims to be, however the bytes come in; damage within a word, or an erased device, is noticed |
| Report, accessors, macros | none | `ufat_fsinfo`, `ufat_ferror`, `ufat_errno`, `ufat_flength`, `ufat_errstr` | they change nothing |
| Fake device of the tests | `block`, `takeDownTest`, `takeDownFlags`, `takeDownPeriod` | `read_block_device`, `write_block_page` | fails only when armed, and from then on until it is armed anew |
| Test functions | their locals; `takeDownTest`, `block` | `PowerStressTest`, `deleteTest`, `fillupTest`, `randomWriteLengths`, `PowerFailOnWriteTest` | they succeed on a library that keeps its promises, do all their rounds, and end |
| Test programs, Unity | Unity's counters, the allocated buffers | `UnityMain`, `UnityTestRunner`, setup, teardown, `UnityConcludeFixtureTest`; `runTestSuite`, `main` | the exit code tells whether a test of the last run failed; what the fixture allocated is freed |

The trace buffer of `main.c` (`traceHandler`, `writeTraceToFile`) is a ring of bytes
beside all this, which nothing else reads.

The parts interact in three ways. A file operation reads and writes `fs->fat`
in RAM and the data sectors on the media, and hands `fs->fat` to the table
store when it commits. Every access that fails sets `fs->lastError` (almost
every one: `commitChanges`, `ufat_format` and the header write of
`ufat_fclose` do not), and every operation but mount and format returns at once
while it is `UFAT_ERR_IO`. `ufat_mount` clears it and reloads the RAM copy.
The test programs call the library, and the library calls back into their fake
device, which they arm and disarm between calls.

There are no threads: the interleavings that matter are those of several open
handles, and of the calls of a program with the accesses at which the device
fails. What is hard is failure between any two accesses, failure during
recovery, errors that are reported while the program runs on, RAM that is ahead
of the media, headers and links that outlive their files, and callers that use
handles in orders nobody tested. `PROJECT.json` lists each hazard at its line.

## Modules

| Module | What it is |
|---|---|
| `AtomicTable` | what the two-copy store promises: one durable table, updated atomically |
| `TableOutcomes` | what a mount, a commit or a format can leave of the two copies: shared by `TableStore` and `MicroFS` |
| `TableStore` | mount, format and commit, **one device access per step**, tables opaque |
| `TableStore_proofs` | theorems about `TableStore` |
| `Fat` | the allocation table as a value, and the functions that compute on it |
| `AtomicFiles` | what microFS promises: a map from names to the contents of one write session |
| `MicroFS` | the file operations, **one call per step**, with every fault its accesses can meet |
| `MicroFSProps` | the properties of `MicroFS`, and its refinement of `AtomicFiles` |
| `Fat_proofs` | lemmas about chains and the functions of `Fat` |
| `MicroFS_proofs` | theorems about `MicroFS`: types, the latch |
| `Accounting_proofs` | theorems: no sector is lost or shared, RAM agrees with the media |
| `Contents_proofs` | theorems: files are replaced whole, what is committed lasts, readers get what was written |
| `MCMicroFS` | the sets and the symmetry of its TLC instances |
| `TableLoops` | the loops over the table, **one iteration per step**, over tables with any links |
| `TableLoops_proofs` | theorems: the loops compute what `Fat` says |
| `Crc32` | the checksum, **one byte per step**, and the long division it must agree with |
| `Crc32_proofs` | theorems: the checksum is the remainder, damage within a word changes it |
| `MCTableLoops` | the TLC instance of `TableLoops`, `Crc32` and `TraceBuffer`, which share no state |
| `Layout`, `MCLayout` | where the two copies are on the device and in RAM |
| `TestBench` | on top of `MicroFSProps`: the fake device, and the calls the tests make |
| `PowerStress` | on top of `TestBench`: the test functions of `testPowerStress.c`, **one call per step** |
| `TestPrograms`, `MCTestPrograms` | on top of `PowerStress`: the programs `all_tests` (with Unity's fixture) and `main.c` |
| `TestPrograms_proofs` | theorems about the exit code and the teardown |
| `TraceBuffer` | the ring of bytes `main.c` keeps its trace in, **one message per step** |

`MicroFS` has a mount and a commit as single steps, whose outcomes are those of
`TableOutcomes`: the table written to both copies, or to a part of them, and the
result. `TableStore` makes an access at a time, and that no sequence of its steps,
with any fault in any of them, ends a call in another way is a property of it
(`CallsAsAssumed`), and proved. In the same way `TableLoops` shows that the loops over
the table can be taken for the functions of `Fat` that `MicroFS` uses (`FreesChain`,
`CommitsChain`, `FindsEmpty`, `ScansAll`).

### State and code

*TableStore.* `copy` is the media's two copies: a table, or `Bad` when the CRC
does not match. `fat`, `buff`, `mounted`, `lastError` are the fields of
`ufat_fs_t`; `before`, a history variable, is what the copies were when the call in progress
began; `seen` is what `validateTable` found (`t1State`, `t2State` and the
CRCs), `to` the argument of `copyTable`, `pc` the access the program is about to
make. Actions bear the names of the functions. A call that ends in
`commitChanges` starts with `CommitCall`, which leaves any table in `fat`:
what `ufat_fclose` and `ufat_remove` put there is the matter of `MicroFS`.
A half-loaded `fat` is any table.

*MicroFS.* `table` is the same pair of copies, now real tables; `hdr` and `data`
are the data sectors: the `ufat_file_t` at the front of each (or `Junk`), and
units of data, a fraction of a sector each. A unit is named by its write session
and position, a header's CRC and length by the session (`ver`) and the number of
units (`total`) they were computed over. Writing data at the front of a sector
destroys a header there, writing a header destroys data there; starting a file
in a sector leaves the old header where it is, as the code does. `strm` holds
the fields of `ufat_FILE` under short names: `old` is `oldFileSector`, `start`
`startSector`, `cur` `currentSector`, `off` `rwPosInSector`, `pos` `position`,
`err` `error`; `sound` says that all bytes that went into `crcValidate` are
those the CRC was made from. `ret` is the last result. `session` and `trap` are
history.

`ufat_fwrite` and `ufat_fread` are one pass of their loop per step, so that a
power failure can come between two passes; a call that writes more is several
steps. (A step per pass allows other calls of other handles between two passes
of one call, which the code does not: more behaviours, never fewer.)

*TableLoops.* `fat` has all entries of the table, the first two of which are where
`tableCrc` is. `call` is the loop that runs, `current`, `next` and `limit` its
variables; `before` is the table it began with and `visited` the entries it has
been at. The freeing loops of `ufat_fclose` (two) and `ufat_remove` are the same
and modelled once.

*Crc32.* A word or byte is the set of its bits that are 1, so that exclusive or is
the symmetric difference, and a word is at the same time a polynomial. A checksum
begins with `calcTableCRC`, or goes on with `crcOfMore` as `ufat_fwrite` does.

*Layout.* Addresses and sizes are in table entries. What the device holds is
`Zero`, `Free` or a checksum that stands for the entries it was computed over.
Assertions are those of `ufat_format`; where the table is larger than the buffer,
`ufat_mount` reads whatever is behind it.

*TestBench, PowerStress, TestPrograms.* `pc` is the call a test function is about
to make, named after its place; `local` has its variables. Every call is the
action of `MicroFS`, restricted to the failures the fake device can have:
`read_block_device` and `write_block_page` say which, from `takeDownTest` and
`takeDownFlags`. `takeDownPeriod` counts accesses in the code, and closes of
written files here (the period in larger steps): a write may fail in any access
while it is armed, and a close fails at the latest when the period is used up. So
every access the period can end at is there. The functions of `main.c` make the
calls of their twins in `testPowerStress.c`; where they differ
(`randomWriteLengths` without assertions) they are modelled apart. Short memory
ends `main.c` in one of two ways: an `assert` of the function whose buffer it was
(`AssertAborts`), or, since nothing looks at what `malloc` gave for `fs1.buff` and
`fs1.fat` (`main.c:722-725`), a null pointer in the first mount or format
(`NoVolume`). `wrong` has the functions that failed in the present run, or were the
next when the program ended; a new run begins with none, as Unity's counters do.

*TraceBuffer.* `recent` is history: what the ring should hold. An empty `traceBuffer`
is the null pointer, with which nothing is traced.

### Faults and callers

Every access can fail in two ways. `"power"`: the machine dies in it, RAM is
lost, the handles are gone, and the next call is `ufat_mount` (or nothing).
`"transient"`: it reports an error and the program runs on. A table write that
fails leaves the old copy, the new one, or a bad one. A header write that fails
may stop anywhere in the fields of `ufat_file_t` (CRC, timestamp, length, name):
it leaves the old header, the new one, the old one under a broken or the new CRC,
the old name under the new fields, or a name that is a mixture, which is taken to
be no file's. A data write leaves the old units, the new ones or garbage.

`Liberties` says what the caller may do beyond what a careful one does:
`overlap` (open or remove a file while one is being written, replace or remove one
that is being read), `carryOn` (call on after an I/O
error other than by mounting, or write on after `UFAT_ERR_FULL`), `abandon` (open a
handle that was not closed), `reuse` (use a handle after `ufat_fclose` or
`ufat_mount`), `format` (format a volume before it was ever mounted, as
`PowerStressTest` does). A caller with none of these mounts again after `UFAT_ERR_IO`, as the tests do; he
reads with any number of handles and writes with one, where the tests have one
handle at a time. Readers that were open before go on reading beside the writer, be
it of another file or of the new version of theirs, which he commits when they are
done. But no file is opened or removed while one is being written, not even for
reading: `fileSearch` may find the header that a sector had before it was taken for
the file being written (the run `stale_header`). Even that caller may mount in the
middle of a write session, as `PowerFailOnWriteTest` does.

### Abstractions

- The CRC is injective: two tables or contents with the same CRC are equal. A
  collision would make `ufat_mount` take a torn table for a good one.
- The rows of the table's own sectors are left out: format zeroes them, so that
  they are neither available nor a start of file, and no link leads there.
- `lastError` is `OK`, `IO` or `OTHER`: the code compares it with no other value
  but to hand it out.
- A read that fails changes nothing but `fs->buff`, which no later code trusts;
  only `loadTable` reads into live state.
- A write to an address computed from an error code is refused by the device,
  as the tests' device does. What else such a write, or the write to
  `fat->sector[0xFFFF]`, could destroy is not modelled: `trap` records that it
  was tried.
- `UFAT_FLAG_ZERO_COPY` is never set by `ufat_fopen`, so its branch is left out.
- `FileCheck` is `UFAT_FILE_CHECK`, which the repository's builds leave undefined;
  the runs of the file operations define it, since `ReadsBack` then also says that
  the check never fails; `test_programs` leaves it undefined as the builds do.
- `fh.len` has 16 bits, and `LenMod` is the first length that does not fit. The runs
  take it larger than every file: what a longer file does (its length is committed
  modulo 2^16, with `UFAT_OK`) follows from the width alone.
- In the test programs `findEmptySector` takes the lowest available sector
  (`FirstFit`): they have one handle at a time, no property depends on which sector it
  takes, and `files_careful` has them all. Between two test functions what is on the device
  is forgotten (`Scrub`), as the next one begins with `ufat_format`.
- `main.c` compares a buffer it never wrote (`main.c:201`) and stops when it equals
  random data; the model takes them to differ. The text of its trace messages, and the dump
  of the device that goes with the trace file, are left out.

## Runs

| Run | Question | Result |
|---|---|---|
| `store_power` | Power failures at any access of mount, repair, format, commit | types hold; `Recoverable`; refines `AtomicTable` (`AtomicUpdates`); a caller that goes on mounting gets through (`EventuallyMounts`) |
| `store_transient` | Reported errors too: is copy 1 ever ahead of copy 0? Does a call ever end as `MicroFS` does not have it? | no: `SecondFollowsFirst`, `CallsAsAssumed` |
| `store_lost` | Is a formatted volume recoverable when errors are reported, too? | **no** |
| `files_careful` | Both kinds of fault, at every access, careful caller | types, `SectorsAccounted`, `CacheCoherent`, `ReadsBack`, `AckedIsDurable`, `OthersKeepOut`; refines `AtomicFiles` (`AtomicReplace`) |
| `files_wild` | Stale, abandoned and retried handles: does the latch hold? | yes: `LatchedIsInert` |
| `stale_header` | Is a removed file ever found? | **yes** |
| `ghosts` | Does a mount recover unclosed files as format would? | **no** |
| `retry_after_full` | Is the device ever asked beyond its end? | **yes** |
| `remove_after_io` | Is the table ever indexed beyond its end? | **yes** |
| `geometry` | Can a volume that `ufat_format` accepts be mounted? | **no**, not all |
| `table_loops` | Do the loops over the table compute what `Fat` says, for any links, circles included? Does the checksum loop, and does the trace file have the latest bytes? | yes: `FreesChain`, `CommitsChain`, `FindsEmpty`, `ScansAll`, `ChecksumKept`, `LoopsEnd`; `IsRemainder`, `BurstsDetected`, `BlankRefused`; `TraceInOrder` |
| `test_programs` | Do the repository's own test programs pass, count and end as they should, whatever the fake device does? | yes: `TestsPass`, `ExitTellsTruth`, `TearsDown`, `Terminates` |

The properties, in words:

- `Recoverable`: once a format has completed some copy of the table is good.
- `AtomicUpdates`: the table a mount would load (`Durable`: copy 0 if good, else
  copy 1) changes only to the table being committed, at one instant, and has
  changed when the call returns `UFAT_OK`. A format promises this only when it
  returns.
- `SecondFollowsFirst`: copy 1 only ever becomes bad or what copy 0 holds.
- `CallsAsAssumed`: a mount that fails has changed at most the copy that did not count,
  or made it equal to the other; one that succeeds has loaded the table that counted
  and left both copies equal to it, or to what `scanTable` made of it as far as that
  commit got; and a commit or a format that is cut short has torn one copy, the first
  before the second (`MountAsAssumed`, `UpdateAsAssumed`).
- `EventuallyMounts`: a formatted volume that is not mounted gets mounted.
- `SectorsAccounted`: in every good copy every sector is as format leaves it, or
  in the chain of exactly one file; every sector of a chain is committed and not
  available, and every chain ends.
- `CacheCoherent`: with no file being written and no error to handle RAM and both copies
  agree. This is what `fcloseErrored` is for: a stream that ran full must give
  everything back.
- `ReadsBack`: a reader sees exactly the units its file was written with.
- `AckedIsDurable`: `UFAT_OK` from `ufat_remove`, or from `ufat_fclose` of a stream
  whose `error` no `ufat_fwrite` has set, means the media has it. Of a stream that
  ran full it does not: that one is given up, and closed with `fs->lastError`, which
  is `UFAT_OK` unless an earlier call failed (`microFS.c:586`, `fcloseErrored`).
- `OthersKeepOut`: and it stays there: a file's contents change only in
  `ufat_format`, in `ufat_remove` of its name and in the commit of a stream of
  its name. A mount, a write, a failed close, a call for another file never do it,
  whatever fault hits them.
- `AtomicReplace`: each name's contents, as a mount and a search of the media
  would find and read them, are at any time those of one whole write session, or
  none, and change at one instant.
- `LatchedIsInert`: with `UFAT_ERR_IO` latched only mount and format write.
- `FreesChain`, `CommitsChain`: on a table whose links are in order (every `next` is
  a data sector or the end; circles allowed), and on no other, the loops leave exactly what `FreeChain` and `MarkWritten` of `Fat` say.
  Freeing a circle ends without an error, because freed entries read as end of
  file; committing one is reported as corrupt, and nothing else is.
- `FindsEmpty`: `findEmptySector` fails only when no data sector is available,
  whatever its random start. `ScansAll`: `fileSearch` and `scanTable` miss none.
- `ChecksumKept`: whatever the links are that these loops follow, damaged ones into the table's own
  sectors included, the two entries that hold the checksum are not written. (`ufat_fread` follows
  links without looking at them, `microFS.c:809`; it writes no entry and is not one of
  these loops. In `MicroFS` it meets only links that its own file or a writer made.)
- `LoopsEnd`: every loop ends.
- `IsRemainder`: the checksum is the remainder of the bytes, behind the seed, as a
  long division has it. `BurstsDetected`: two byte strings that differ within one
  word have different checksums. `BlankRefused`: zeros do not have checksum zero,
  so that an erased device does not pass for a volume.
- `TestsPass`: every test function that gets its memory and its random numbers
  returns success, after all of its rounds, and the device is never asked for an
  address it does not have. It is a property of the library under the repository's
  own tests, and of the tests: that they do not report success early.
- `ExitTellsTruth`: the exit code is zero exactly when in the last run all test
  functions were reached and none failed; of earlier runs it says nothing.
  `TearsDown`: the buffers of the fixture's `TEST_SETUP` are freed before the next run
  or the exit, also when an assertion left the test by `longjmp`. It is about
  `all_tests` only.
- `TraceInOrder`: the trace file would have the latest bytes, in order, none lost or
  repeated, whichever way messages ended at the end of the ring or wrapped around.
- `Terminates`: both programs end.

Each property of a passing run has a mutant: a definition with a plausible bug
in it that the run finds (`mutants` in `PROJECT.json`).

### What the violated runs show

1. `store_lost`: `commitChanges` does not latch its write error, so a program that
   ignores the result may commit again without a mount. First commit: copy 1 torn,
   error reported. Second commit: power fails in the write of copy 0. Both copies
   are bad. A program that mounts after every error is not safe either when the
   mount has sectors to recover, since `ufat_mount` ignores the result of its own
   commit (`microFS.c:336`).
2. `stale_header`: `ufat_exists` of a removed file is true while its start sector
   is being written anew.
3. `ghosts`: two writers open, one commits, power fails. `scanTable` makes the
   other's sectors available but keeps `sof` and `next`.
4. `retry_after_full`: the first `ufat_fwrite` on a full volume stores
   `UFAT_ERR_FULL` as the current sector, the second computes an address from it.
5. `remove_after_io`: a failed search in `ufat_remove` is taken for a file at
   sector 0xFFFF.
6. `geometry`: the assertion of `ufat_format` on the size of the table compares the
   wrong way round (`microFS.c:358`). With 13 sectors of 4 entries and 3 table
   sectors the table (13 entries) is larger than its place (12): the write of the
   second copy destroys the end of the first, the buffers are too small, and the
   mount that follows answers `UFAT_ERR_EMPTY`. The geometry of the tests, where the
   table fills its sectors exactly, is on the edge. A volume whose table is smaller
   than its place, which would be sound, is refused.

What modelling the tests showed, without a run of its own because no text says
otherwise: `ufat_fclose` of a file that ran full also returns `UFAT_OK`, although
nothing of it is stored (`microFS.c:549-588`), and `randomWriteLengths`, which leaves its
loop at the short write, takes that for success (`testPowerStress.c:531-538`); a read of no bytes without the error bit ends the loop of
`PowerStressTest` with result 0, which counts as passed (`testPowerStress.c:278`),
and likewise in `PowerFailOnWriteTest`; `ufat_ferror` returns the error bit, so that
the comparison with `UFAT_ERR_IO` in the next line is never true; with
repetitions, `UnityMain` returns the failures of the last run only. Since the library
never returns such a read on these paths, `TestsPass` holds nonetheless.

### Bounds

- Store: three tables (the blank one and two others: old and new of one commit,
  and a third for the next), at most two or three faults. Three suffice for a
  commit cut short, the repair cut short, and the repair of that cut short; the
  theorems have no bound.
- Files: three sectors of two units, of which the header takes one; files of up to
  two units, so a file has one or two sectors, one ends exactly at a sector's
  end, and a rewrite of a two-sector file finds the volume full in mid-file. Two
  names and two handles, each interchangeable (`Symmetric`; no property names or
  orders them), two write sessions: a file replaced, a file beside another, a sector
  reused after a removal, a file read while it or another is written. Faults are not
  bounded: every call may fail.
- `files_wild` has one sector, one name and one handle: the caller's freedom
  multiplies states, and a stale handle needs no second sector to do harm. The
  theorem `LatchHolds` has no bound.

- `table_loops`: ten sectors, six of them the table's (three per copy, the least
  `ufat_format` accepts) and four for data; every table over them that the loop
  tells apart, with links to any data sector, into the checksum, into the table,
  beyond the volume and to the end; every start. Words of 8 and bytes of 2 bits (the
  ratio of the code's 32 and 8) and all messages of up to 5 bytes, which is longer
  than a word. The theorems about the loops have no bound. A trace ring of five bytes
  of two kinds, with any first contents, and all messages of one to three bytes: every
  place in the ring, every way around its end and both sides of ending exactly there.
- `geometry`: five volumes around the one whose table fills its sectors.
- `test_programs`: eight data sectors of three units, `POWER_CYCLE_COUNT` 1 (two
  rounds with a cut in each, each with any number of failed mounts), files of 0, 1
  and 3 units in the stress loop, of 1 and 24 in `fillupTest` (24 is more than the
  volume has), of 1 to 6, one to three sectors, in `randomWriteLengths`, which goes around once
  with reading back and once without (`TEST_COUNT` 1); a period of at most two
  closes (`MaxPeriod`), so that a cut comes in the rewrite of `powercycles.txt`, in a
  file of the stress loop, and after one; two runs of the fixture (`RepeatCount`), so
  that a failed run is followed by another. `MaxSessions` 12 is above what any of the
  functions opens.

Deadlock is checked in every run; `ufat_mount` can always be called, a finished loop
stays finished, and a program that has exited stays so.

### Fairness

`WF(Program)`: a call, once made, runs to its end; the code has no blocking step
and its loops are bounded. `SF(~mounted /\ MountCall)`: the caller goes on
mounting; this is the loop of the stress test (`testPowerStress.c:224-251`, a
mount that returns `UFAT_ERR_IO` is tried again). It is strong because power
failures keep interrupting the caller; those are finitely many in the run
(`MaxFaults`), which is the premise "once power failures stop".

`LoopsEnd` assumes `WF` of the next step: the loops do nothing but compute.

`Terminates` assumes `WF(BenchNext)`, the program runs on, and `SF` of a mount in the
stress loop that succeeds: `PowerStressTest` draws a new random period before each
attempt (`testPowerStress.c:224-240`), so that one longer than the accesses of a mount
comes sooner or later. Nothing is assumed of the rest: that the stress loop meets its
power failure follows from the period being used up, that `fillupTest` ends from the
volume filling up.

## Proofs

All theorems are for any constants that satisfy the modules' assumptions.

`TableStore_proofs`:

- `TypeCorrect` (`TypeOK`).
- `OrderCorrect`: `OrderInv`, that between the first and second write of a commit
  or format copy 0 already is `fat`, and that `copyTable` writes what it read
  from the other copy. It is inductive with `TypeOK`, and gives `SecondFollows`
  (`SecondFollowsFirst`) under any faults.
- `PowerCorrect`: `PowerInv`, assuming `OnlyPower` (no reported errors; the run
  `store_lost` shows the assumption is needed). `Recoverable` alone is not
  inductive: a commit may begin only when both copies agree (`Agreement`), and a
  repair may write only the copy that is bad or old, which depends on what the
  mount has seen still being true (`Knowledge`).
- `AlwaysRecoverable` (`Recoverable`) and `StoreIsAtomic` (`AtomicUpdates`) follow;
  the refinement is proved action by action: the first table write is the
  abstract `Apply`, the second the abstract `End`, a power failure during a
  commit an `End` that did or did not apply, everything else changes
  nothing that a mount would see.
- `StoreMeetsAssumptions` (`CallsAsAssumed`), under any faults, from `CallInv`
  (`CallsTracked`): at each step what the copies are now in terms of what they were when
  the call began (the history variable `before`), what the mount has seen of them
  unless an error is latched, and, while it repairs one, that this is the copy that
  does not count. A torn write of a commit is then an outcome by `TornUpdate`, one of
  `copyTable` by `TornRepair`. So the theorems about `MicroFS`, in which these calls are
  one step, leave out nothing that the accesses of the calls could do to the table. (Its
  RAM after a failed `loadTable` is the old table or the new one, where `TableStore`
  has any: no call acts on it, since the error is latched until the next mount.)

`MicroFS_proofs`:

- `TypesCorrect` (`TypeOK`), for any caller and any faults. The strengthening
  (`GoodHandle`) is that an open handle has a name and a reader is at a sector;
  without it `ufat_fclose` could put no name in a header.
- `LatchHolds` (`LatchedIsInert`).

`TableLoops_proofs`, for a volume of any size and any table; the assumption on the
geometry is what the assertions of mount and format give (`sectors` below
`UFAT_MAX_SECTORS` and so apart from `UFAT_EOF`, more than two table sectors, since
otherwise the middle of a tiny volume, where `findEmptySector` starts, would be in
the checksum):

- `LoopsInvariant`: the inductive invariant, one conjunct per loop, of the loop about
  to make its next pass. For a chain: what was visited is part of the chain, has its
  links in what was visited or at the current entry, and has been changed while the
  rest has not; and `limit` and the number of visited entries add up to the number of
  sectors. So when the loop stops at the end of file the visited entries are a closed
  set that holds the start, which the chain, being the least such set (`ChainLeast`),
  is inside; and the limit cannot run out before, since the data sectors are fewer.
  For a search or a scan: no entry before the current one answers.
- `ChainsFreed` (`FreesChain`) and `ChainsCommitted` (`CommitsChain`), both for tables
  whose links are in order, and for any links `EmptyFound`
  (`FindsEmpty`), `AllScanned` (`ScansAll`), `ChecksumUntouched` (`ChecksumKept`) and
  `LoopTypes` (`TypeOK`) follow from it.

`Accounting_proofs`, for volumes and handles of any number and any faults, assuming
`Careful`: the caller takes no liberty, but for `format`. The other four would each
break the invariant: with `overlap` two writers are in RAM at once and the commit of
one commits half of the other, or a reader is left in a chain that is given away, with `carryOn` a table is committed after a failed one,
`abandon` leaves sectors that no handle owns, `reuse` commits a chain twice. (The run
`ghosts` shows the first of these.)

- `SectorsKept` (`SectorsAccounted`) and `CacheAgrees` (`CacheCoherent`), from
  `AccountInv`. Neither is inductive: a commit puts on the media what is in RAM, so
  something must be said of RAM while a writer is at work. `AccountInv` says that,
  when calls are made, both copies are one table, and that RAM is this table but for
  the chain of the one writer (`Unfinished`), whose sectors are free on the media, taken
  and uncommitted in RAM, and end at its current sector. Giving the chain back
  therefore gives the media's table (`GiveBack`), and committing it adds one file
  (`CommitWellFormed`); taking a sector extends it by one (`ExtendUnfinished`); and a
  mount finds nothing to recover in a well-formed copy (`ScanKeeps`).

`Contents_proofs`, also assuming `Careful`:

- `AckedLasts` (`AckedIsDurable`, of streams without error and of removals) and
  `FilesKeptApart` (`OthersKeepOut`), from
  `AccountInv` and `FilesInv`. `FilesInv` says that each good copy is, with the headers
  and the data of the media, a directory: from each start of file the chain has
  all units its header promises, in their places, and no two starts have the same name
  (`Directory`); that a writer's chain has what it was given so far (`Composing`) and
  the only file of its name is the one it replaces (`Replacing`); and that each reader is
  in its file on the media at the unit that its position says (`Reading`). Both copies, not only
  the one a mount would load, must be directories, since a torn write can make the
  other one count. Every step is shown to leave the table a mount would load and the
  headers of its files alone (`VolumeKept`), but for `ufat_format` and the commits, and
  a commit to change the contents of its own name or nothing (`StepFiles`).
- `ReplacesAtomically` (`AtomicReplace`): the refinement of `AtomicFiles`, step by
  step: `ufat_fopen` for writing is `Begin`, a commit that reaches the media `Put` or
  `Delete`, a format that does `Erase`, and all else changes nothing. It assumes
  `Liberties = {}`: whoever formats a volume without mounting it first, after a power
  failure in a commit, can make the older copy count again by failing in the first
  write, and get back the file as it was before. Where the caller did mount, or was
  told `UFAT_ERR_EMPTY` (`EmptyTold`), it cannot.
- `ReadersServed` (`ReadsBack`), assuming also `LengthsFit`, that no file is longer
  than `fh.len` can say. A longer one is reported as damaged. A reader follows the
  links in RAM, which a writer changes; but in RAM the chains of the files are as on
  the media, and keep their data, until the writer commits (`FilesInRam`). A commit
  takes one file out of the table, and leaves the readers of all others at their
  place in their files (`ReaderKept`).

A file is read by following links, so these proofs need what the walk along a chain
(`Walk`, a recursive function) does for every table and every length. The induction
theorems of the library take a predicate and cannot be used here; but well-foundedness
of the order of numbers gives, for any nonempty *set* of numbers, a least one
(`Least`), and from that induction over a set (`Induction`). With it `WalkExists` and
`WalkIs` show that the recursive definition has the value it describes; `WalkInside`
(the walk stays in the chain), `WalkKept`, `WalkExtended` and `EndOnce` are what the
steps need. `Division` and what follows it say in which sector and where in it a unit
is (`PlacesInOrder`, `AdvanceWithin`, `AdvanceBeyond`).

`TestPrograms_proofs`, for the programs' fixed lists of test functions and any number
of runs: `TruthTold` (`ExitTellsTruth`, of the last run) and `TornDown` (`TearsDown`, of
the fixture's buffers), from `BenchInv`, which relates the place
a program is at to the failures noted (`wrong`), to Unity's flag and counter, and to the
buffers. Whatever a test function does stays within its own places and leaves all of
these alone (`Within`).

`Crc32_proofs`, for words and bytes of any number of bits, any generator and any
number of bytes, assuming only that the generator is not divisible by x
(`0 \in CRC32_POLY`, as in `0x04c11db7`) and that a byte is not longer than a word:

- `CrcIsRemainder` (`IsRemainder`), from `CrcInv`: within `crc32`, and after it, the
  table is the one `init_crc32` builds and the register is the remainder of the bytes
  so far behind the seed, also before the first byte. The step from one byte to the
  next (`RemainderAppend`) rests on division being linear (`DivisionXor`), on a
  multiple of the generator leaving nothing (`RemGenerator`), so that a shift may be
  divided before or after (`RemTimes`), and on an entry of the table being the
  remainder of its byte (`EntryIsRemainder`): the register of `init_crc32` is the part
  of the division that can still change, moved down.
- `BurstsAreDetected` (`BurstsDetected`): messages that differ within a word differ by a
  shifted polynomial shorter than the generator (`MessagePatched`), which is its own
  remainder, and a shift never turns a remainder into nothing (`ShiftedNonzero`).
- `BlankHasNoTable` (`BlankRefused`): the message of zeros is the shifted seed.

`TableEntry`, `Remainder` and `CrcOf` are recursive functions. That they have the values
their definitions describe, for every size, is shown with `Recursion` (a function that
takes one value to the next defines a sequence), itself by `Induction`.
The theorems are about `CrcSpec`, the steps of the checksum alone, which `MCTableLoops`
interleaves with loops that share no variable with them.

Out of the prover's reach: `EventuallyMounts`, `LoopsEnd`, `Terminates` (liveness).
Model-checked only: `TraceInOrder`, a small ring that the check exhausts; and `TestsPass`, which is about the lengths, the numbers of rounds and
the size of the volume that the tests use, and false for others (on a volume that is too
small `deleteTest` fails).

## Not modelled

- `ufat_errstr` and `ufat_flength`: they return a string and a field. The text of
  `ufat_fsinfo` (its device accesses are in `MicroFS`).
- Collisions of the checksum beyond what `BurstsDetected` says: `TableStore` and
  `MicroFS` take equal checksums for equal contents.
- Byte addresses of data sectors, and `addressStart` other than 0; timestamps;
  logging and the text of the trace messages.
- Of Unity: the assertions on arrays, strings, bits, pointers and floating point,
  formatted output, ignored tests, pointer restoration, test filters. These tests
  use none of them, or they only print. The memory extension is compiled out
  (`UNITY_FIXTURE_NO_EXTRAS` in the makefile).

## Plan

Done, in this order: `AtomicTable`, `TableStore`, its proofs; `Fat`,
`AtomicFiles`, `MicroFS`, its properties and runs; type correctness and the latch;
the loops over the table and their proofs; the layout; the checksum; the test bench,
the test functions and the two programs; the accounting of sectors, the contents of
files, the exit code and the checksum, as theorems; readers beside a writer; the
outcomes of the store that `MicroFS` assumes; the trace buffer.

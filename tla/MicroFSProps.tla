---------------------------- MODULE MicroFSProps ----------------------------
(***************************************************************************)
(* What microFS promises its callers.                                      *)
(***************************************************************************)
EXTENDS MicroFS, Integers

\* The table a mount would load, before scanTable; no file when there is none.
Volume == IF Loaded = Bad THEN BlankFat ELSE Loaded

\* The sectors of the chain from s, in order, then EOF.
Walk(tab, s) ==
  LET nth[i \in 0..(HeaderUnits + MaxUnits) \div SectorUnits] ==
        IF i = 0 THEN s
        ELSE IF nth[i - 1] = EOF THEN EOF ELSE tab[nth[i - 1]].next
  IN  nth

\* Following the chain from s gives the units the header at s promises.
Intact(tab, s) ==
  LET walk == Walk(tab, s)
      place(p) == HeaderUnits + p - 1
      at(p) == walk[place(p) \div SectorUnits]
  IN  /\ hdr[s].ver # 0
      /\ \A p \in 1..hdr[s].total :
           at(p) # EOF /\ data[at(p)][place(p) % SectorUnits] = <<hdr[s].ver, p>>

\* The session whose contents a file on the media has: 0 for no file, -1 when
\* it can not be read back.
Contents(n) ==
  IF Matches(Volume, hdr, n) = {} THEN 0
  ELSE LET s == CHOOSE s \in fileSearch(Volume, hdr, n) : TRUE
       IN  IF Intact(Volume, s) THEN hdr[s].ver ELSE -1

-----------------------------------------------------------------------------
(* Promises to the careful caller.                                          *)

\* ufat_fclose and ufat_remove are atomic: whatever access the machine dies in,
\* and whatever error it gets, each file has its old contents or the complete
\* new ones, ready for the next ufat_mount to find.
Abstract == INSTANCE AtomicFiles WITH files <- [n \in Names |-> Contents(n)]
AtomicReplace == Abstract!Spec

\* When ufat_fclose of a stream that no ufat_fwrite marked as in error returns
\* UFAT_OK, the media has the file just written, and when ufat_remove does, no such
\* file.  (A stream that ran full is marked and not stored, but
\* its ufat_fclose returns UFAT_OK as well: fcloseErrored.)
AckedIsDurable ==
  [][\A n \in Names :
       /\ \A f \in Streams :
            /\ ufat_fclose(f) /\ ret' = "OK"
            /\ strm[f].mode = "w" /\ strm[f].name = n /\ ~strm[f].err
            => Contents(n)' = IF strm[f].start = NoSector THEN 0 ELSE strm[f].ver
       /\ ufat_remove(n) /\ ret' = "OK" => Contents(n)' = 0]_vars

\* What the media has stays: the contents of a file change only in ufat_format,
\* in ufat_remove of its name and in the commit of ufat_fclose of a stream of its
\* name, whatever faults hit writing, closing and mounting.
OthersKeepOut ==
  [][\A n \in Names : Contents(n)' # Contents(n) =>
       \/ ufat_format
       \/ ufat_remove(n)
       \/ \E f \in Streams : strm[f].name = n /\ fclose(f)]_vars

\* Every sector of a table is free and clean, or committed and in the chain of
\* exactly one file, and every chain ends: no sector is lost or shared.
WellFormed(tab) ==
  /\ \A s \in Sectors : tab[s].sof =>
       Ends(tab, s) /\ \A x \in Chain(tab, s) : tab[x].written /\ ~tab[x].available
  /\ \A s \in Sectors :
       \/ tab[s] = FreeEntry
       \/ \E t \in Sectors :
            /\ tab[t].sof /\ s \in Chain(tab, t)
            /\ \A r \in Sectors : tab[r].sof /\ s \in Chain(tab, r) => r = t

\* Both copies on the media are well formed whenever they are good, after any
\* sequence of faults.
SectorsAccounted == \A i \in 0..1 : table[i] # Bad => WellFormed(table[i])

\* With no file being written and no error to handle, RAM agrees with both
\* copies: nothing is left to be lost, and a session that failed left nothing
\* behind.
CacheCoherent ==
  mounted /\ ret # "IO" /\ (\A f \in Streams : strm[f].mode # "w") => table = Both(fat)

\* A reader gets what was written, up to the length, and is never told that
\* the file is damaged.
ReadsBack ==
  /\ \A f \in Streams : strm[f].mode = "r" => strm[f].sound
  /\ ret \notin {"SHORT", "FILECRC"}

-----------------------------------------------------------------------------
(* Promises to every caller.                                                *)

\* "Protect fs state": once an I/O error is latched in lastError nothing but
\* ufat_mount and ufat_format touches the media.
LatchedIsInert ==
  [][lastError = "IO" => UNCHANGED media \/ ufat_mount \/ ufat_format]_vars

-----------------------------------------------------------------------------
(* Expectations the code does not meet.                                      *)

\* deleteTest: ufat_exists finds no file that was removed ("File exists where
\* it shouldn't").  The code also looks at the start sector of a file being
\* written, which holds the header of whatever file was there before.
FoundIsCommitted ==
  [][\A n \in Names : ufat_exists(n) /\ ret' = "FOUND" => Contents(n) # 0]_vars

\* "scan for unclosed files": after ufat_mount a sector that belongs to no
\* committed file is as ufat_format leaves it.  scanTable makes it available
\* but keeps its start-of-file mark and its next field.
MountRecovers ==
  [][mountDone /\ mounted' =>
       \A s \in Sectors : fat'[s].available => fat'[s] = FreeEntry]_vars

\* The device is never asked for an address beyond its end ("Out of range
\* address").  A second ufat_fwrite after UFAT_ERR_FULL uses that code as a
\* sector number.
InRange == "device_range" \notin trap

\* fs->fat is indexed within the bytes allocated to it ("Must be pre-allocated
\* to (sector bytes * tableSectors)").  ufat_remove goes on with
\* UFAT_INVALID_SECTOR when its search gets an I/O error.
FatIndexed == "fat_index" \notin trap
=============================================================================

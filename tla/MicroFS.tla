------------------------------ MODULE MicroFS ------------------------------
(***************************************************************************)
(* The file operations of microFS on a device that can fail: one action    *)
(* per call (ufat_fwrite and ufat_fread: per pass of their loop), with     *)
(* every device access the call makes and the faults that can hit it.      *)
(*                                                                         *)
(* A fault either takes the machine with it ("power"): RAM is lost and the *)
(* next call is ufat_mount; or it is reported by the access ("transient")  *)
(* and the program runs on.  A write that fails may have written nothing,  *)
(* everything or a mixture.                                                *)
(*                                                                         *)
(* The unit of data is a fraction of a sector.  A unit written is named by *)
(* the write session and its position, and a CRC by the session and length *)
(* it was computed over, so equal CRCs mean equal contents.                *)
(***************************************************************************)
EXTENDS Fat, TableOutcomes

CONSTANTS
  Names,        \* file names
  Streams,      \* ufat_FILE handles
  SectorUnits,  \* data units in a sector (sectorSize)
  HeaderUnits,  \* units taken by sizeof(ufat_file_t)
  LenMod,       \* the width of ufat_file_t.len: lengths are kept modulo this
  FileCheck,    \* UFAT_FILE_CHECK is defined
  NoSector,     \* UFAT_INVALID_SECTOR, UFAT_FILE_NOT_FOUND, and the -1 of currentSector
  FullSector,   \* UFAT_ERR_FULL stored in currentSector
  Liberties,    \* what the caller may do that a careful one does not
  MaxSessions,  \* bound on the number of write sessions
  MaxUnits      \* bound on the length of a file

ASSUME UnitsAssumption ==
  /\ SectorUnits \in Nat /\ HeaderUnits \in Nat
  /\ 0 < HeaderUnits /\ HeaderUnits < SectorUnits
ASSUME LenModAssumption == LenMod \in Nat \ {0}
ASSUME FileCheckAssumption == FileCheck \in BOOLEAN
ASSUME BadAssumption == Bad \notin Fats
ASSUME JunkAssumption == Junk \notin [name : Names, ver : Nat, total : Nat] \cup Nat \X Nat
ASSUME SentinelAssumption ==
  /\ NoSector \notin Sectors /\ FullSector \notin Sectors /\ NoSector # FullSector

\* "overlap": open or remove a file while one is being written, replace or remove
\* one that is being read; "carryOn": call on after an error; "abandon": reopen a
\* handle that was not closed; "reuse": use a handle again after ufat_fclose or
\* ufat_mount; "format": call ufat_format first.
ASSUME LibertiesAssumption ==
  Liberties \subseteq {"overlap", "carryOn", "abandon", "reuse", "format"}
ASSUME BoundsAssumption == MaxSessions \in Nat /\ MaxUnits \in Nat

VARIABLES
  table,      \* the two copies of the table on the media
  hdr,        \* the header at the front of each sector of the media
  data,       \* the units of each sector of the media
  fat,        \* fs->fat
  mounted,    \* fs->volumeMounted
  lastError,  \* fs->lastError; "OTHER" is any error but UFAT_ERR_IO
  strm,       \* the handles
  ret,        \* result of the last call; "none" after a reset
  session,    \* history: number of write sessions begun
  trap        \* history: accesses outside the device or the table

media == <<table, hdr, data>>
vars == <<table, hdr, data, fat, mounted, lastError, strm, ret, session, trap>>

-----------------------------------------------------------------------------
(* Types. *)

Sessions == 0..MaxSessions
Units == 0..SectorUnits - 1

\* ufat_file_t: ver and total stand for crc, and total for len.  ver is 0 when
\* the crc is that of no session.
Header == [name : Names, ver : Sessions, total : 0..MaxUnits]
Datum == Sessions \X (0..MaxUnits)

\* ufat_FILE.  ver, and total for a reader, stand for fh.crc; sound for
\* crcValidate: all units read so far are those the CRC was computed over.
Handle == [mode : {"none", "r", "w"}, name : Names \cup {Junk}, ver : Sessions,
           total : 0..MaxUnits, old : Sectors \cup {NoSector},
           start : Sectors \cup {NoSector},
           cur : Sectors \cup {NoSector, FullSector},
           off : 0..SectorUnits, pos : 0..MaxUnits, err : BOOLEAN,
           sound : BOOLEAN]

\* A handle not open: ufat_fopen starts with a memset.
NoHandle == [mode |-> "none", name |-> Junk, ver |-> 0, total |-> 0,
             old |-> NoSector, start |-> NoSector, cur |-> NoSector,
             off |-> 0, pos |-> 0, err |-> FALSE, sound |-> TRUE]

Results == {"none", "OK", "IO", "EMPTY", "NOT_FOUND", "FULL", "NAME_LEN",
            "UNSUPPORTED", "CORRUPT", "FILECRC", "SHORT", "OTHER", "FOUND"}

TypeOK ==
  /\ table \in [0..1 -> Fats \cup {Bad}]
  /\ hdr \in [Sectors -> Header \cup {Junk}]
  /\ data \in [Sectors -> [Units -> Datum \cup {Junk}]]
  /\ fat \in Fats
  /\ mounted \in BOOLEAN
  /\ lastError \in {"OK", "IO", "OTHER"}
  /\ strm \in [Streams -> Handle]
  /\ ret \in Results
  /\ session \in Sessions
  /\ trap \subseteq {"device_range", "fat_index"}

\* An erased device and a program that has just started.
Init ==
  /\ table = [i \in 0..1 |-> Bad]
  /\ hdr = [s \in Sectors |-> Junk]
  /\ data = [s \in Sectors |-> [u \in Units |-> Junk]]
  /\ fat = BlankFat
  /\ mounted = FALSE
  /\ lastError = "OK"
  /\ strm = [f \in Streams |-> NoHandle]
  /\ ret = "none"
  /\ session = 0
  /\ trap = {}

-----------------------------------------------------------------------------
(* Faults. *)

\* RAM after a reset.
Reset ==
  /\ fat' = BlankFat
  /\ mounted' = FALSE
  /\ lastError' = "OK"
  /\ strm' = [f \in Streams |-> NoHandle]
  /\ ret' = "none"
  /\ UNCHANGED <<session, trap>>

\* The machine dies between two calls, or in a read.
PowerLoss ==
  /\ "power" \in Faults
  /\ Reset
  /\ UNCHANGED media

\* A header write that fails stops in the CRC, after it, after the length, or in
\* the name; a name that is a mixture is nobody's.
TornHeader(old, new) ==
  {old, new, Junk}
    \cup IF old = Junk THEN {}
         ELSE {[old EXCEPT !.ver = 0], [old EXCEPT !.ver = new.ver],
               [new EXCEPT !.name = old.name]}

-----------------------------------------------------------------------------
(* The caller. *)

May(liberty) == liberty \in Liberties

Idle(f) == strm[f].mode = "none"

\* A careful caller calls nothing but ufat_mount after an I/O error, nothing but
\* ufat_format on a volume found empty.
Calls == mounted /\ (May("carryOn") \/ ret \notin {"IO", "EMPTY"})

\* He reads with any number of handles and writes with one: while a file is being
\* written he opens and removes none, and he neither replaces nor removes one that
\* is being read.
NoWriter(S) == May("overlap") \/ \A f \in S : strm[f].mode # "w"
NotRead(S, n) == May("overlap") \/ \A f \in S : strm[f].mode = "r" => strm[f].name # n

\* Every call but ufat_mount and ufat_format starts with this check
\* (ufat_fwrite and ufat_fread return 0).
Latched ==
  /\ Calls
  /\ lastError = "IO"
  /\ ret' = "IO"
  /\ UNCHANGED <<media, fat, mounted, lastError, strm, session, trap>>

\* Mutant of Enter: the check is dropped.
EnterUnchecked == Calls

Enter == Calls /\ lastError # "IO"

\* A device read in a call fails and says so.
ReadFails == "transient" \in Faults /\ lastError' = "IO"

\* fileSearch: fails only if it reads a header at all.
Searches == \E s \in Sectors : fat[s].sof
Found(n) == Matches(fat, hdr, n) # {}
Search(n) == fileSearch(fat, hdr, n)

-----------------------------------------------------------------------------
(* ufat_mount.  TableStore has it access by access: CallsAsAssumed. *)

Loaded == Loadable(table)

\* The handles of an earlier mount are forgotten by a careful caller.
Forget == strm' = [f \in Streams |-> NoHandle] \/ (May("reuse") /\ UNCHANGED strm)

\* validateTable or the read of copyTable fails, or loadTable after the copies
\* were made equal; loadTable leaves its target in part overwritten.
mountReadFails ==
  /\ ReadFails
  /\ ret' = "IO"
  /\ table' \in ReadFailed(table)
  /\ \/ fat' = fat
     \/ Loaded # Bad /\ table' = Both(Loaded) /\ fat' = Loaded
  /\ Forget
  /\ UNCHANGED <<hdr, data, mounted, session, trap>>

mountEmpty ==
  /\ table[0] = Bad /\ table[1] = Bad
  /\ lastError' = "OK"
  /\ ret' = "EMPTY"
  /\ Forget
  /\ UNCHANGED <<media, fat, mounted, session, trap>>

\* copyTable fails to write the copy it repairs.
mountCopyFails ==
  /\ table' \in CopyFailed(table)
  /\ \/ /\ "transient" \in Faults
        /\ lastError' = "IO"
        /\ ret' = "IO"
        /\ Forget
        /\ UNCHANGED <<fat, mounted, session, trap>>
     \/ "power" \in Faults /\ Reset
  /\ UNCHANGED <<hdr, data>>

Scanned == scanTable(Loaded)

\* Both copies are the table loaded; if scanTable changes it, it is committed,
\* and the outcome of that is ignored.
mountDone ==
  /\ Loaded # Bad
  /\ \E o \in LoadOutcomes(table, Scanned) :
           /\ table' = o.tab
           /\ IF o.res = "dead" THEN Reset
              ELSE /\ fat' = Scanned
                   /\ mounted' = TRUE
                   /\ lastError' = "OK"
                   /\ ret' = "OK"
                   /\ Forget
                   /\ UNCHANGED <<session, trap>>
  /\ UNCHANGED <<hdr, data>>

\* Allowed at any time: the tests remount in the middle of a write session to
\* simulate a power failure.
ufat_mount == mountReadFails \/ mountEmpty \/ mountCopyFails \/ mountDone

-----------------------------------------------------------------------------
(* ufat_format. *)

\* Neither volumeMounted nor lastError is looked at or set.  A careful caller
\* formats a volume that is mounted or that ufat_mount found empty.
ufat_format ==
  /\ ret = "EMPTY" \/ Calls \/ (May("format") /\ ret = "none")
  /\ (\A f \in Streams : Idle(f)) \/ May("reuse")
  /\ \E o \in CommitOutcomes(table, BlankFat) :
       /\ table' = o.tab
       /\ IF o.res = "dead" THEN Reset
          ELSE /\ fat' = BlankFat
               /\ ret' = o.res
               /\ UNCHANGED <<mounted, lastError, strm, session, trap>>
  /\ UNCHANGED <<hdr, data>>

-----------------------------------------------------------------------------
(* ufat_fopen. *)

\* The handle is fresh, unless it is reopened without ufat_fclose.
Opens(f) ==
  /\ Enter
  /\ Idle(f) \/ May("abandon")
  /\ NoWriter(Streams \ {f})

\* A name of UFAT_MAX_NAMELEN - 1 characters or more.
fopenNameTooLong(f) ==
  /\ Opens(f)
  /\ strm' = [strm EXCEPT ![f] = NoHandle]
  /\ ret' = "NAME_LEN"
  /\ UNCHANGED <<media, fat, mounted, lastError, session, trap>>

\* A mode other than r, rb, w and wb is refused before the memset.
fopenUnsupported(f) ==
  /\ Opens(f)
  /\ lastError' = "OTHER"
  /\ ret' = "UNSUPPORTED"
  /\ UNCHANGED <<media, fat, mounted, strm, session, trap>>

fopenRead(f, n) ==
  /\ Opens(f)
  /\ \/ /\ ReadFails /\ Searches
        /\ strm' = [strm EXCEPT ![f] = NoHandle]
        /\ ret' = "IO"
     \/ /\ ~Found(n)
        /\ lastError' = "OTHER"
        /\ strm' = [strm EXCEPT ![f] = NoHandle]
        /\ ret' = "NOT_FOUND"
     \/ /\ \E s \in Search(n) :
             strm' = [strm EXCEPT ![f] =
               [NoHandle EXCEPT !.mode = "r", !.name = n, !.ver = hdr[s].ver,
                                !.total = hdr[s].total, !.start = s, !.cur = s,
                                !.off = HeaderUnits]]
        /\ ret' = "OK"
        /\ UNCHANGED lastError
  /\ UNCHANGED <<media, fat, mounted, session, trap>>

OpensWriter(f, n, old) ==
  strm' = [strm EXCEPT ![f] =
    [NoHandle EXCEPT !.mode = "w", !.name = n, !.ver = session + 1, !.old = old]]

\* A failing search latches lastError but the handle is opened all the same,
\* as for a new file: the test for it asks for two results that exclude each
\* other.
fopenWrite(f, n) ==
  /\ Opens(f)
  /\ session < MaxSessions
  /\ session' = session + 1
  /\ \/ \E s \in Search(n) : OpensWriter(f, n, s) /\ UNCHANGED lastError
     \/ ~Found(n) /\ OpensWriter(f, n, NoSector) /\ UNCHANGED lastError
     \/ Searches /\ ReadFails /\ OpensWriter(f, n, NoSector)
  /\ ret' = "OK"
  /\ UNCHANGED <<media, fat, mounted, trap>>

-----------------------------------------------------------------------------
(* ufat_fwrite: one pass of its loop, preceded for the first pass by the    *)
(* allocation of the start sector.                                           *)

Writes(f) ==
  /\ Enter
  /\ strm[f].mode = "w"
  /\ May("carryOn") \/ ~strm[f].err

\* Room for the next units: none at the end of a sector, nor before the first.
NeedsSector(h) == h.cur = NoSector \/ h.off = SectorUnits

\* findEmptySector finds none.  Before the first sector its error code becomes
\* the current sector.
fwriteFull(f) ==
  /\ Writes(f)
  /\ NeedsSector(strm[f])
  /\ findEmptySector(fat) = {}
  /\ strm' = [strm EXCEPT ![f].err = TRUE,
                          ![f].cur = IF @ = NoSector THEN FullSector ELSE @]
  /\ ret' = "FULL"
  /\ UNCHANGED <<media, fat, mounted, lastError, session, trap>>

\* Mutant of Extend: no room is left for the header.
ExtendNoHeader(h, s) ==
  IF h.cur = NoSector THEN [h EXCEPT !.start = s, !.cur = s, !.off = 0]
                      ELSE [h EXCEPT !.cur = s, !.off = 0]

\* The handle and the table when s becomes its current sector.
Extend(h, s) ==
  IF h.cur = NoSector THEN [h EXCEPT !.start = s, !.cur = s, !.off = HeaderUnits]
                      ELSE [h EXCEPT !.cur = s, !.off = 0]
Link(f, h, s) ==
  [x \in Sectors |->
     [f[x] EXCEPT !.available = @ /\ x # s,
                  !.sof = IF x = s THEN h.cur = NoSector ELSE @,
                  !.next = IF x = h.cur THEN s ELSE @]]

\* The current sector with n units of the session, or n units of garbage.
Put(h, n) ==
  [u \in Units |-> IF u \in h.off..h.off + n - 1 THEN <<h.ver, h.pos + 1 + u - h.off>>
                                                 ELSE data[h.cur][u]]
Smear(h, n) ==
  [u \in Units |-> IF u \in h.off..h.off + n - 1 THEN Junk ELSE data[h.cur][u]]

\* Units written at the front of a sector overwrite a header left there.
Store(h, d) ==
  /\ data' = [data EXCEPT ![h.cur] = d]
  /\ hdr' = IF h.off < HeaderUnits THEN [hdr EXCEPT ![h.cur] = Junk] ELSE hdr
StoreTorn(h, n) ==
  Store(h, Put(h, n)) \/ Store(h, Smear(h, n)) \/ UNCHANGED <<hdr, data>>

\* A pass that writes n units.
fwritePass(f, n) ==
  /\ Writes(f)
  /\ strm[f].cur # FullSector
  /\ \E s \in IF NeedsSector(strm[f]) THEN findEmptySector(fat) ELSE {strm[f].cur} :
       LET h == IF NeedsSector(strm[f]) THEN Extend(strm[f], s) ELSE strm[f]
           linked == IF NeedsSector(strm[f]) THEN Link(fat, strm[f], s) ELSE fat
       IN  /\ h.off + n <= SectorUnits
           /\ h.pos + n <= MaxUnits
           /\ \/ /\ Store(h, Put(h, n))
                 /\ fat' = linked
                 /\ strm' = [strm EXCEPT ![f] = [h EXCEPT !.off = @ + n, !.pos = @ + n]]
                 /\ ret' = "OK"
                 /\ UNCHANGED <<mounted, lastError, session, trap>>
              \/ /\ "transient" \in Faults
                 /\ StoreTorn(h, n)
                 /\ fat' = linked
                 /\ strm' = [strm EXCEPT ![f] = h]
                 /\ lastError' = "IO"
                 /\ ret' = "IO"
                 /\ UNCHANGED <<mounted, session, trap>>
              \/ /\ "power" \in Faults
                 /\ StoreTorn(h, n)
                 /\ Reset
  /\ UNCHANGED table

fwrite(f) == \E n \in 1..SectorUnits : fwritePass(f, n)

\* A retry after fwriteFull at the first sector: the error code is taken for a
\* sector number, and the write goes to an address outside the device, which
\* refuses it.
fwriteOutside(f) ==
  /\ Writes(f)
  /\ strm[f].cur = FullSector
  /\ trap' = trap \cup {"device_range"}
  /\ lastError' = "IO"
  /\ ret' = "IO"
  /\ UNCHANGED <<media, fat, mounted, strm, session>>

ufat_fwrite(f) == fwriteFull(f) \/ fwrite(f) \/ fwriteOutside(f)

-----------------------------------------------------------------------------
(* ufat_fclose. *)

\* The handle goes out of use; opened stays set, so it could be used again.
Retire(f) ==
  strm' = [strm EXCEPT ![f] = NoHandle] \/ (May("reuse") /\ UNCHANGED strm)

\* A handle ufat_fopen did not open: its own lastError is returned.
fcloseUnopened(f) ==
  /\ Enter /\ May("reuse")
  /\ Idle(f)
  /\ ret' \in {"OK", "NAME_LEN"}
  /\ UNCHANGED <<media, fat, mounted, lastError, strm, session, trap>>

fcloseReader(f) ==
  /\ Enter
  /\ strm[f].mode = "r"
  /\ Retire(f)
  /\ ret' = "OK"
  /\ UNCHANGED <<media, fat, mounted, lastError, session, trap>>

\* Mutant of fcloseErrored: the sectors are kept.
fcloseErroredKeeps(f) ==
  /\ Enter
  /\ strm[f].mode = "w" /\ strm[f].err
  /\ fat' = fat
  /\ Retire(f)
  /\ ret' = lastError
  /\ UNCHANGED <<media, mounted, lastError, session, trap>>

\* A stream that ran out of space gives its sectors back, in RAM only, and the
\* old file stays.
fcloseErrored(f) ==
  /\ Enter
  /\ strm[f].mode = "w" /\ strm[f].err
  /\ fat' = IF strm[f].start = NoSector THEN fat ELSE FreeChain(fat, strm[f].start)
  /\ Retire(f)
  /\ ret' = lastError
  /\ UNCHANGED <<media, mounted, lastError, session, trap>>

Closes(f) ==
  /\ Enter
  /\ strm[f].mode = "w" /\ ~strm[f].err
  /\ NotRead(Streams, strm[f].name)

FileHeader(h) == [name |-> h.name, ver |-> h.ver, total |-> h.pos]

\* What the media holds at s when header x was written there.
StoreHeader(s, x) ==
  /\ hdr' = [hdr EXCEPT ![s] = x]
  /\ data' = [data EXCEPT ![s] = [u \in Units |-> IF u < HeaderUnits THEN Junk ELSE @[u]]]

\* The header cannot be written; lastError is not set.
fcloseHeaderFails(f) ==
  /\ Closes(f)
  /\ strm[f].start # NoSector
  /\ \E x \in TornHeader(hdr[strm[f].start], FileHeader(strm[f])) :
       IF x = hdr[strm[f].start] THEN UNCHANGED <<hdr, data>>
                                 ELSE StoreHeader(strm[f].start, x)
  /\ \/ "transient" \in Faults /\ ret' = "IO" /\ Retire(f)
        /\ UNCHANGED <<fat, mounted, lastError, session, trap>>
     \/ "power" \in Faults /\ Reset
  /\ UNCHANGED table

\* The stream's chain is a circle: the call gives up before the old file is
\* deleted.
fcloseCorrupt(f) ==
  /\ Closes(f)
  /\ strm[f].start # NoSector
  /\ ~Ends(fat, strm[f].start)
  /\ StoreHeader(strm[f].start, FileHeader(strm[f]))
  /\ fat' = MarkWritten(fat, strm[f].start)
  /\ Retire(f)
  /\ ret' = "CORRUPT"
  /\ UNCHANGED <<table, mounted, lastError, session, trap>>

\* The table with the stream's file in place of the old one.
Replace(h) ==
  LET marked == IF h.start = NoSector THEN fat ELSE MarkWritten(fat, h.start)
  IN  IF h.old = NoSector THEN marked ELSE FreeChain(marked, h.old)

\* Header, chain, deletion of the old file and commit.  A failing commit does
\* not set lastError either.
fclose(f) ==
  /\ Closes(f)
  /\ strm[f].start = NoSector \/ Ends(fat, strm[f].start)
  /\ IF strm[f].start = NoSector THEN UNCHANGED <<hdr, data>>
     ELSE StoreHeader(strm[f].start, FileHeader(strm[f]))
  /\ \E o \in CommitOutcomes(table, Replace(strm[f])) :
       /\ table' = o.tab
       /\ IF o.res = "dead" THEN Reset
          ELSE /\ fat' = Replace(strm[f])
               /\ Retire(f)
               /\ ret' = o.res
               /\ UNCHANGED <<mounted, lastError, session, trap>>

ufat_fclose(f) ==
  \/ fcloseUnopened(f) \/ fcloseReader(f) \/ fcloseErrored(f)
  \/ fcloseHeaderFails(f) \/ fcloseCorrupt(f) \/ fclose(f)

-----------------------------------------------------------------------------
(* ufat_fread: one pass of its loop. *)

Len(h) == h.total % LenMod

\* The CRC is compared whenever a call returns with the position at the length.
Verdict(h) == IF FileCheck /\ h.pos = Len(h) /\ ~(h.sound /\ h.pos = h.total)
              THEN "FILECRC" ELSE "OK"

Reads(f) == Enter /\ strm[f].mode = "r"

AtEnd(h) == h.pos = Len(h)

\* Nothing remains, or the chain ends before the length is reached.
freadNothing(f) ==
  /\ Reads(f)
  /\ LET h == strm[f]
     IN  \/ AtEnd(h) /\ ret' = Verdict(h)
         \/ ~AtEnd(h) /\ h.off = SectorUnits /\ fat[h.cur].next = EOF /\ ret' = "SHORT"
  /\ UNCHANGED <<media, fat, mounted, lastError, strm, session, trap>>

fread(f) ==
  /\ Reads(f)
  /\ ~AtEnd(strm[f])
  /\ LET h == strm[f]
         s == IF h.off = SectorUnits THEN fat[h.cur].next ELSE h.cur
         off == IF h.off = SectorUnits THEN 0 ELSE h.off
     IN  /\ s # EOF
         /\ \/ \E n \in 1..SectorUnits :
                 /\ off + n <= SectorUnits /\ h.pos + n <= Len(h)
                 /\ LET good == \A i \in 1..n : data[s][off + i - 1] = <<h.ver, h.pos + i>>
                        after == [h EXCEPT !.cur = s, !.off = off + n, !.pos = @ + n,
                                           !.sound = @ /\ good]
                    IN  /\ strm' = [strm EXCEPT ![f] = after]
                        /\ ret' = Verdict(after)
                 /\ UNCHANGED lastError
            \/ /\ ReadFails
               /\ strm' = [strm EXCEPT ![f] = [h EXCEPT !.cur = s, !.off = off]]
               /\ ret' = "IO"
  /\ UNCHANGED <<media, fat, mounted, session, trap>>

ufat_fread(f) == freadNothing(f) \/ fread(f)

-----------------------------------------------------------------------------
(* ufat_remove and ufat_exists. *)

\* No file of that name: nothing to do.
removeAbsent(n) ==
  /\ ~Found(n)
  /\ ret' = "OK"
  /\ UNCHANGED <<media, fat, mounted, lastError, strm, session, trap>>

\* The chain is freed and the table committed.
removeFound(n) ==
  /\ \E s \in Search(n) : \E o \in CommitOutcomes(table, FreeChain(fat, s)) :
       /\ table' = o.tab
       /\ IF o.res = "dead" THEN Reset
          ELSE /\ fat' = FreeChain(fat, s)
               /\ ret' = o.res
               /\ UNCHANGED <<mounted, lastError, strm, session, trap>>
  /\ UNCHANGED <<hdr, data>>

\* The search failed, which is not tested for: UFAT_INVALID_SECTOR is taken for
\* the file's first sector, and what lies beyond the table for its next fields:
\* the end of the chain, a sector, or a number out of range.
removeSearchFails ==
  /\ Searches
  /\ "transient" \in Faults
  /\ trap' = trap \cup {"fat_index"}
  /\ \/ ret' = "IO" /\ lastError' = "IO"
        /\ fat' \in {fat} \cup {FreeChain(fat, s) : s \in Sectors}
     \/ ret' = "CORRUPT" /\ lastError' = "OTHER" /\ UNCHANGED fat
  /\ UNCHANGED <<media, mounted, strm, session>>

ufat_remove(n) ==
  /\ Enter
  /\ NoWriter(Streams) /\ NotRead(Streams, n)
  /\ removeAbsent(n) \/ removeFound(n) \/ removeSearchFails

\* Returns the length of the file, or 0.
ufat_exists(n) ==
  /\ Enter
  /\ \/ ret' = (IF Found(n) THEN "FOUND" ELSE "NOT_FOUND") /\ UNCHANGED lastError
     \/ Searches /\ ReadFails /\ ret' = "IO"
  /\ UNCHANGED <<media, fat, mounted, strm, session, trap>>

-----------------------------------------------------------------------------
(* ufat_fsinfo and the accessors. *)

\* Lists the files from their headers.  lastError is neither looked at nor set.
ufat_fsinfo ==
  /\ Calls
  /\ ret' = "OK" \/ (Searches /\ "transient" \in Faults /\ ret' = "IO")
  /\ UNCHANGED <<media, fat, mounted, lastError, strm, session, trap>>

\* The error bit of a handle, not an error code.
ufat_ferror(f) == strm[f].err
ufat_errno == lastError

-----------------------------------------------------------------------------
Next ==
  \/ PowerLoss \/ Latched
  \/ ufat_mount \/ ufat_format \/ ufat_fsinfo
  \/ \E f \in Streams :
       \/ fopenNameTooLong(f) \/ fopenUnsupported(f)
       \/ \E n \in Names : fopenRead(f, n) \/ fopenWrite(f, n)
       \/ ufat_fwrite(f) \/ ufat_fread(f) \/ ufat_fclose(f)
  \/ \E n \in Names : ufat_remove(n) \/ ufat_exists(n)

Spec == Init /\ [][Next]_vars
=============================================================================

----------------------------- MODULE TableLoops -----------------------------
(***************************************************************************)
(* The loops of src/microFS.c over the allocation table, one iteration per *)
(* step: following a chain to free it (ufat_fclose, ufat_remove) or to     *)
(* commit it (ufat_fclose), findEmptySector, fileSearch and scanTable.     *)
(* Module Fat says what they compute; here is how.                         *)
(*                                                                         *)
(* The table has an entry for every sector, its own included; the first    *)
(* two entries are where tableCrc is.  A link can be any number that fits  *)
(* in next.                                                                *)
(***************************************************************************)
EXTENDS Fat, Integers

CONSTANTS
  sectors,       \* fs->sectors
  tableSectors   \* fs->tableSectors

UFAT_TABLE_COUNT == 2
First == tableSectors * UFAT_TABLE_COUNT   \* UFAT_FIRST_SECTOR

\* "fs->sectors < UFAT_MAX_SECTORS", which ufat_mount asserts, keeps UFAT_EOF
\* apart from the sector numbers; "tableSectors > sizeof(uint32_t) /
\* sizeof(ufat_sector_t)", which ufat_format asserts, keeps the middle of the
\* volume out of the checksum.
ASSUME GeometryAssumption ==
  /\ sectors \in Nat /\ tableSectors \in Nat /\ tableSectors > 2
  /\ First < sectors /\ Sectors = First..sectors - 1
  /\ EOF \in Nat /\ sectors < EOF

VARIABLES
  call,     \* the loop that runs
  fat,      \* fs->fat
  header,   \* fileSearch: the sectors whose header on the media has the name
  start,    \* where the chain, or the search of findEmptySector (sp), starts
  current,  \* the sector the loop is at; i in the loops that scan
  next,     \* the link it goes on to
  limit,
  pc,       \* "call", "loop", "wrapped" or "done"
  ret,      \* the result: a code, or a sector
  before,   \* history: the table when the call began
  visited   \* history: the entries the loop has been at

vars == <<call, fat, header, start, current, next, limit, pc, ret, before, visited>>
given == <<call, header, start, before>>

All == 0..sectors - 1
AnyEntry == [next : 0..EOF, sof : BOOLEAN, available : BOOLEAN, written : BOOLEAN]
Table == [All -> AnyEntry]
Codes == {"OK", "CORRUPT", "FULL", "NOT_FOUND"}

\* memset of ufat_format: what the entries of the table's own sectors are.
ZeroEntry == [next |-> 0, sof |-> FALSE, available |-> FALSE, written |-> FALSE]

TypeOK ==
  /\ call \in {"free", "commit", "find", "search", "scan"}
  /\ fat \in Table /\ before \in Table
  /\ header \subseteq Sectors
  /\ start \in Sectors
  /\ current \in All /\ next \in 0..EOF /\ limit \in 0..sectors
  /\ pc \in {"call", "loop", "wrapped", "done"}
  /\ ret \in [code : Codes, sector : All]
  /\ visited \subseteq All

\* fs->fat as module Fat has it.
Data(f) == [x \in Sectors |-> f[x]]

Done(code, sector) ==
  pc' = "done" /\ ret' = [code |-> code, sector |-> sector] /\ UNCHANGED <<current, next, limit>>

-----------------------------------------------------------------------------
(* Following a chain. *)

\* Mutant of Refused: a link is only checked against the end of the volume.
RefusedBeyond(n) == n >= sectors

\* A link that is not UFAT_EOF is refused as corrupt.
Refused(n) == n < UFAT_TABLE_COUNT \/ n >= sectors

\* Mutant of GoOn: there is no limit.
GoOnForever(f) ==
  /\ current' = next
  /\ next' = f[next].next
  /\ pc' = "loop"
  /\ UNCHANGED <<limit, ret>>

\* Mutant of GoOn: the limit is counted down, but not looked at.
GoOnPastLimit(f) ==
  /\ current' = next
  /\ next' = f[next].next
  /\ limit' = limit - 1
  /\ pc' = "loop"
  /\ UNCHANGED ret

\* On to the next entry, whose link is read from table f, until the limit is
\* used up.
GoOn(f) ==
  /\ current' = next
  /\ next' = f[next].next
  /\ limit' = limit - 1
  /\ IF limit - 1 < 1 THEN pc' = "done" /\ ret' = [code |-> "CORRUPT", sector |-> 0]
                      ELSE pc' = "loop" /\ UNCHANGED ret


\* To free a chain, an entry is reset before it is left.
freeBegin ==
  /\ pc = "call" /\ call = "free"
  /\ current' = start
  /\ next' = fat[start].next
  /\ limit' = sectors
  /\ pc' = "loop"
  /\ UNCHANGED <<given, fat, ret, visited>>

\* Mutant of freeStep: the link is read after it was reset.
freeStepLate ==
  /\ pc = "loop" /\ call = "free"
  /\ fat' = [fat EXCEPT ![current] = FreeEntry]
  /\ visited' = visited \cup {current}
  /\ Done("OK", 0)
  /\ UNCHANGED given

freeStep ==
  /\ pc = "loop" /\ call = "free"
  /\ fat' = [fat EXCEPT ![current] = FreeEntry]
  /\ visited' = visited \cup {current}
  /\ \/ next = EOF /\ Done("OK", 0)
     \/ next # EOF /\ Refused(next) /\ Done("CORRUPT", 0)
     \/ next # EOF /\ ~Refused(next) /\ GoOn(fat')
  /\ UNCHANGED given

\* Mutant of commitBegin: the first sector is not marked.
commitBeginUnmarked ==
  /\ pc = "call" /\ call = "commit"
  /\ current' = start
  /\ next' = fat[start].next
  /\ limit' = sectors
  /\ pc' = "loop"
  /\ visited' = {start}
  /\ UNCHANGED <<given, fat, ret>>

\* To commit a chain, an entry is marked when it is reached.
commitBegin ==
  /\ pc = "call" /\ call = "commit"
  /\ fat' = [fat EXCEPT ![start].written = TRUE]
  /\ current' = start
  /\ next' = fat[start].next
  /\ limit' = sectors
  /\ pc' = "loop"
  /\ visited' = {start}
  /\ UNCHANGED <<given, ret>>

commitStep ==
  /\ pc = "loop" /\ call = "commit"
  /\ \/ next = EOF /\ Done("OK", 0) /\ UNCHANGED <<fat, visited>>
     \/ next # EOF /\ Refused(next) /\ Done("CORRUPT", 0) /\ UNCHANGED <<fat, visited>>
     \/ /\ next # EOF /\ ~Refused(next)
        /\ fat' = [fat EXCEPT ![next].written = TRUE]
        /\ visited' = visited \cup {next}
        /\ GoOn(fat')
  /\ UNCHANGED given

-----------------------------------------------------------------------------
(* Scanning the table. *)

\* UFAT_RAND, or the middle of the volume when it falls into the table's sectors:
\* on a volume of few sectors the middle can be one of them as well.
findBegin ==
  /\ pc = "call" /\ call = "find"
  /\ \E sp \in All :
       next' = IF sp < First THEN sectors \div 2 ELSE sp
  /\ current' = next'
  /\ pc' = "loop"
  /\ UNCHANGED <<given, fat, limit, ret, visited>>

\* Mutant of findStep: the search does not wrap around.
findStepNoWrap ==
  /\ call = "find" /\ pc = "loop"
  /\ visited' = visited \cup {current}
  /\ IF fat[current].available
     THEN fat' = [fat EXCEPT ![current].available = FALSE] /\ Done("OK", current)
     ELSE /\ IF current + 1 < sectors
             THEN current' = current + 1 /\ UNCHANGED <<next, limit, pc, ret>>
             ELSE Done("FULL", 0)
          /\ UNCHANGED fat
  /\ UNCHANGED given

\* From the starting point (kept in next) to the end, then from the first data
\* sector up to the starting point.
findStep ==
  /\ call = "find" /\ pc \in {"loop", "wrapped"}
  /\ visited' = visited \cup {current}
  /\ IF fat[current].available
     THEN fat' = [fat EXCEPT ![current].available = FALSE] /\ Done("OK", current)
     ELSE /\ \/ /\ pc = "loop" /\ current + 1 < sectors
                /\ current' = current + 1 /\ UNCHANGED <<next, limit, pc, ret>>
             \/ /\ pc = "loop" /\ current + 1 = sectors /\ First < next
                /\ current' = First /\ pc' = "wrapped" /\ UNCHANGED <<next, limit, ret>>
             \/ /\ pc = "wrapped" /\ current + 1 < next
                /\ current' = current + 1 /\ UNCHANGED <<next, limit, pc, ret>>
             \/ /\ IF pc = "loop" THEN current + 1 = sectors /\ next <= First
                                  ELSE current + 1 = next
                /\ Done("FULL", 0)
          /\ UNCHANGED fat
  /\ UNCHANGED given

\* fileSearch and scanTable go over the data sectors once.
scanBegin ==
  /\ pc = "call" /\ call \in {"search", "scan"}
  /\ current' = First
  /\ pc' = "loop"
  /\ UNCHANGED <<given, fat, next, limit, ret, visited>>

\* Mutant of Advance: the last sector is not looked at.
AdvanceShort(code) ==
  IF current + 2 < sectors
  THEN current' = current + 1 /\ UNCHANGED <<next, limit, pc, ret>>
  ELSE Done(code, 0)

Advance(code) ==
  IF current + 1 < sectors
  THEN current' = current + 1 /\ UNCHANGED <<next, limit, pc, ret>>
  ELSE Done(code, 0)

searchStep ==
  /\ pc = "loop" /\ call = "search"
  /\ visited' = visited \cup {current}
  /\ IF fat[current].sof /\ current \in header THEN Done("OK", current)
                                              ELSE Advance("NOT_FOUND")
  /\ UNCHANGED <<given, fat>>

scanStep ==
  /\ pc = "loop" /\ call = "scan"
  /\ visited' = visited \cup {current}
  /\ fat' = IF ~fat[current].written /\ ~fat[current].available
            THEN [fat EXCEPT ![current].available = TRUE] ELSE fat
  /\ Advance("OK")
  /\ UNCHANGED given

-----------------------------------------------------------------------------
\* Any table whose own sectors are as ufat_format leaves them.
Init ==
  /\ call \in {"free", "commit", "find", "search", "scan"}
  /\ fat \in Table /\ \A x \in All \ Sectors : fat[x] = ZeroEntry
  /\ header \in SUBSET Sectors
  /\ start \in Sectors
  /\ current = 0 /\ next = 0 /\ limit = 0
  /\ pc = "call" /\ ret = [code |-> "OK", sector |-> 0]
  /\ before = fat /\ visited = {}

Returned == pc = "done" /\ UNCHANGED vars

Next ==
  \/ freeBegin \/ freeStep \/ commitBegin \/ commitStep
  \/ findBegin \/ findStep \/ scanBegin \/ searchStep \/ scanStep
  \/ Returned

Spec == Init /\ [][Next]_vars
FairSpec == Spec /\ WF_vars(Next)

-----------------------------------------------------------------------------
(* Properties. *)

\* The links of the chain are sectors of the volume.
Undamaged == Data(before) \in Fats

\* When the link of every entry is read before the entry is reset, the loop that
\* frees a chain leaves what Fat says, circles included, and never hits its limit.
FreesChain ==
  pc = "done" /\ call = "free" /\ Undamaged =>
    ret.code = "OK" /\ Data(fat) = FreeChain(Data(before), start)

\* The loop that commits a chain commits all of it, and reports UFAT_ERR_CORRUPT
\* exactly when it is a circle: the limit is never too small for a real file.
CommitsChain ==
  pc = "done" /\ call = "commit" /\ Undamaged =>
    /\ Data(fat) = MarkWritten(Data(before), start)
    /\ ret.code = IF Ends(Data(before), start) THEN "OK" ELSE "CORRUPT"

\* findEmptySector reports UFAT_ERR_FULL only when no sector is available, and
\* returns and takes a data sector, never one of the table's, from wherever the
\* random number lets it start.
FindsEmpty ==
  pc = "done" /\ call = "find" =>
    \/ ret.code = "FULL" /\ findEmptySector(Data(before)) = {} /\ fat = before
    \/ /\ ret.code = "OK" /\ ret.sector \in findEmptySector(Data(before))
       /\ fat = [before EXCEPT ![ret.sector].available = FALSE]

\* fileSearch stops at the first match, and scanTable recovers every sector.
ScansAll ==
  /\ pc = "done" /\ call = "search" =>
       LET found == {s \in Sectors : before[s].sof /\ s \in header}
       IN  IF found = {} THEN ret.code = "NOT_FOUND"
           ELSE /\ ret.code = "OK" /\ ret.sector \in found
                /\ \A s \in found : ret.sector <= s
  /\ pc = "done" /\ call = "scan" => Data(fat) = scanTable(Data(before))

\* Whatever the links are, damaged ones included, no loop touches an entry
\* beyond the table or the two entries that are its checksum.
ChecksumKept ==
  visited \subseteq UFAT_TABLE_COUNT..sectors - 1 /\ \A x \in 0..1 : fat[x] = before[x]

\* Every loop ends, also on a chain that runs in a circle.
LoopsEnd == <>(pc = "done")
=============================================================================

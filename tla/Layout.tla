------------------------------- MODULE Layout -------------------------------
(***************************************************************************)
(* Where the two copies of the table are on the device and in RAM, for     *)
(* volumes of any geometry that the assertions of ufat_format and          *)
(* ufat_mount let through.  Addresses and sizes are in table entries of    *)
(* two bytes; the device works.                                            *)
(***************************************************************************)
EXTENDS Naturals

CONSTANTS
  Geometries,        \* [sectors, sectorSize, tableSectors] of the volumes considered
  UFAT_MAX_SECTORS

VARIABLES
  fs,     \* the geometry of the volume
  block,  \* the device
  ret     \* result of the last call; "ASSERT" when an assertion failed

vars == <<fs, block, ret>>

UFAT_TABLE_COUNT == 2
UFAT_TABLE_SIZE == fs.sectors
CrcEntries == 2                            \* sizeof(uint32_t)
First == fs.tableSectors * UFAT_TABLE_COUNT
Allocated == fs.tableSectors * fs.sectorSize   \* of fs->fat, fs->buff and each copy

\* What a word can hold: an erased or zeroed one, an entry of a free sector, and a
\* checksum word, which stands for the free entries it was computed over.
Zero == <<"zero", {}>>
Free == <<"free", {}>>

calcTableCRC(t) ==
  <<"crc", {i \in CrcEntries..UFAT_TABLE_SIZE - 1 : t[i] = Free}>>
Valid(t) == \A i \in 0..CrcEntries - 1 : t[i] = calcTableCRC(t)

Init ==
  /\ fs \in Geometries
  /\ block = [a \in 0..fs.sectors * fs.sectorSize - 1 |-> Zero]
  /\ ret = "none"

-----------------------------------------------------------------------------
\* The table in RAM after the loop of ufat_format.
FormatTable ==
  LET t == [i \in 0..UFAT_TABLE_SIZE - 1 |-> IF i < First THEN Zero ELSE Free]
  IN  [i \in DOMAIN t |-> IF i < CrcEntries THEN calcTableCRC(t) ELSE t[i]]

\* write_block_device of a whole table for copy c.
Program(media, c, t) ==
  [a \in DOMAIN media |-> IF a \in c * Allocated..c * Allocated + UFAT_TABLE_SIZE - 1
                          THEN t[a - c * Allocated] ELSE media[a]]

FormatAsserts ==
  /\ fs.sectors < UFAT_MAX_SECTORS
  /\ fs.tableSectors > 2
  /\ fs.tableSectors * fs.sectorSize <= UFAT_TABLE_SIZE

ufat_format ==
  /\ ret # "ASSERT"
  /\ IF FormatAsserts
     THEN block' = Program(Program(block, 0, FormatTable), 1, FormatTable) /\ ret' = "FORMATTED"
     ELSE ret' = "ASSERT" /\ UNCHANGED block
  /\ UNCHANGED fs

\* What validateTable reads of copy c, followed, when the table is larger than
\* what is read, by whatever is in memory behind the buffer.
ReadTable(c, behind) ==
  [i \in 0..UFAT_TABLE_SIZE - 1 |-> IF i < Allocated THEN block[c * Allocated + i] ELSE behind]

copyTable(to) ==
  [a \in DOMAIN block |-> IF a \in to * Allocated..to * Allocated + Allocated - 1
                          THEN block[(1 - to) * Allocated + a - to * Allocated] ELSE block[a]]

ufat_mount ==
  /\ ret # "ASSERT"
  /\ \E behind \in {Zero, Free} :
       LET good(c) == Valid(ReadTable(c, behind))
       IN  /\ ret' = IF good(0) \/ good(1) THEN "OK" ELSE "EMPTY"
           /\ block' = CASE good(0) /\ ~good(1) -> copyTable(1)
                         [] good(1) /\ ~good(0) -> copyTable(0)
                         [] OTHER -> block
  /\ UNCHANGED fs

Next == ufat_format \/ ufat_mount \/ (ret = "ASSERT" /\ UNCHANGED vars)

Spec == Init /\ [][Next]_vars

-----------------------------------------------------------------------------
\* "check sizes": a volume whose geometry passes the assertions of ufat_format
\* can be mounted once it is formatted.  The assertion on the size of the table
\* compares the wrong way around.
FormattedMounts == [][ret = "FORMATTED" /\ ufat_mount => ret' = "OK"]_vars
=============================================================================

-------------------------------- MODULE Fat --------------------------------
(***************************************************************************)
(* The allocation table of microFS as a value: one entry per data sector,  *)
(* and the functions of src/microFS.c that compute on it.  The entries of  *)
(* the table's own sectors are left out: ufat_format zeroes them and no    *)
(* chain reaches them.                                                     *)
(***************************************************************************)
EXTENDS Naturals, FiniteSets

CONSTANTS
  Sectors,   \* the data sectors, UFAT_FIRST_SECTOR .. sectors - 1
  EOF,       \* UFAT_EOF, which is also UFAT_MAX_SECTORS
  Junk       \* bytes that are no header, and no data anyone wrote

ASSUME SectorsAssumption == Sectors \subseteq Nat /\ IsFiniteSet(Sectors)
ASSUME EOFAssumption == EOF \notin Sectors

\* ufat_sector_t
Entry == [next : Sectors \cup {EOF}, sof : BOOLEAN, available : BOOLEAN,
          written : BOOLEAN]
Fats == [Sectors -> Entry]

\* Mutant of FreeEntry: next is left as memset leaves it.
FreeEntryZeroed == [next |-> 0, sof |-> FALSE, available |-> TRUE, written |-> FALSE]

\* What ufat_format and every freeing loop leave in an entry.
FreeEntry == [next |-> EOF, sof |-> FALSE, available |-> TRUE, written |-> FALSE]
BlankFat == [s \in Sectors |-> FreeEntry]

-----------------------------------------------------------------------------
(* Chains.  The loops of ufat_fclose and ufat_remove visit a sector and     *)
(* everything its next fields lead to.                                      *)

Closed(f, C) == \A x \in C : f[x].next \in C \cup {EOF}

\* The sectors reached from s: the least closed set around it.
Chain(f, s) ==
  LET around == {C \in SUBSET Sectors : s \in C /\ Closed(f, C)}
  IN  {x \in Sectors : \A C \in around : x \in C}

\* The loop from s ends at UFAT_EOF; otherwise it runs in a circle and stops
\* when its limit is used up.
Ends(f, s) == \E x \in Chain(f, s) : f[x].next = EOF

\* The loop that frees a chain: each entry's next is read before it is reset,
\* so it always ends, a circle being cut at the first entry reset.
FreeChain(f, s) ==
  LET chain == Chain(f, s)
  IN  [x \in Sectors |-> IF x \in chain THEN FreeEntry ELSE f[x]]

\* Mutant of MarkWritten: only the start sector is committed.
MarkWrittenStart(f, s) == [f EXCEPT ![s].written = TRUE]

\* The loop of ufat_fclose that commits a chain.
MarkWritten(f, s) ==
  LET chain == Chain(f, s)
  IN  [x \in Sectors |-> IF x \in chain THEN [f[x] EXCEPT !.written = TRUE] ELSE f[x]]

-----------------------------------------------------------------------------
\* Sectors neither free nor committed become available; nothing else of their
\* entries changes.
scanTable(f) ==
  [x \in Sectors |->
     IF ~f[x].written /\ ~f[x].available THEN [f[x] EXCEPT !.available = TRUE]
                                         ELSE f[x]]

\* Mutant of findEmptySector: any sector that starts no file is taken.
findEmptySectorBySof(f) == {s \in Sectors : ~f[s].sof}

\* The search starts at a random sector and wraps around, so it can return any
\* available sector and reports UFAT_ERR_FULL only when there is none.
findEmptySector(f) == {s \in Sectors : f[s].available}

\* The start-of-file sectors whose header on the media (h) has the name, and
\* the lowest of them: the one found, if there is any.
Matches(f, h, name) ==
  {s \in Sectors : f[s].sof /\ h[s] # Junk /\ h[s].name = name}
fileSearch(f, h, name) ==
  {s \in Matches(f, h, name) : \A t \in Matches(f, h, name) : s <= t}
=============================================================================

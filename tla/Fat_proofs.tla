------------------------------ MODULE Fat_proofs ------------------------------
(***************************************************************************)
(* Lemmas about chains and the functions on tables, for any table.         *)
(***************************************************************************)
EXTENDS Fat, TLAPS

-----------------------------------------------------------------------------
(* Chains. *)

LEMMA ChainStart ==
  ASSUME NEW f, NEW s \in Sectors
  PROVE  s \in Chain(f, s) /\ Chain(f, s) \subseteq Sectors
  BY DEF Chain

\* A chain is inside every closed set its start is in.
LEMMA ChainLeast ==
  ASSUME NEW f, NEW s, NEW C \in SUBSET Sectors, s \in C, Closed(f, C)
  PROVE  Chain(f, s) \subseteq C
  BY DEF Chain

\* A link of a sector of a chain stays in the chain.
LEMMA ChainClosed ==
  ASSUME NEW f, NEW s, NEW x \in Chain(f, s), f[x].next \in Sectors
  PROVE  f[x].next \in Chain(f, s)
<1> SUFFICES ASSUME NEW C \in SUBSET Sectors, s \in C, Closed(f, C)
             PROVE  f[x].next \in C
  BY DEF Chain
<1> x \in C
  BY DEF Chain
<1> QED
  BY EOFAssumption DEF Closed

\* Of a table no link of which leaves it, every chain is closed.
LEMMA ChainIsClosed ==
  ASSUME NEW f \in Fats, NEW s \in Sectors
  PROVE  Closed(f, Chain(f, s))
<1> SUFFICES ASSUME NEW x \in Chain(f, s)
             PROVE  f[x].next \in Chain(f, s) \cup {EOF}
  BY DEF Closed
<1>1. f[x].next \in Sectors \cup {EOF}
  BY ChainStart DEF Fats, Entry
<1> QED
  BY <1>1, ChainClosed

\* A chain is as long as its links stay what they are.
LEMMA ChainKept ==
  ASSUME NEW f \in Fats, NEW g, NEW s \in Sectors,
         \A x \in Chain(f, s) : g[x].next = f[x].next
  PROVE  Chain(g, s) = Chain(f, s)
<1>1. Chain(g, s) \subseteq Chain(f, s)
  <2>1. Closed(g, Chain(f, s))
    BY ChainIsClosed DEF Closed
  <2> QED
    BY <2>1, ChainStart, ChainLeast
<1>2. Closed(f, Chain(g, s))
  <2> SUFFICES ASSUME NEW x \in Chain(g, s)
               PROVE  f[x].next \in Chain(g, s) \cup {EOF}
    BY DEF Closed
  <2>1. g[x].next = f[x].next /\ f[x].next \in Sectors \cup {EOF}
    BY <1>1, ChainStart DEF Fats, Entry
  <2> QED
    BY <2>1, ChainClosed
<1> QED
  BY <1>1, <1>2, ChainStart, ChainLeast

\* The end of a chain is linked to a sector that ends it: the chain is longer by
\* that sector.
LEMMA ChainExtended ==
  ASSUME NEW f \in Fats, NEW g, NEW s \in Sectors,
         NEW last \in Chain(f, s), f[last].next = EOF,
         NEW new \in Sectors \ Chain(f, s),
         \A x \in Chain(f, s) \ {last} : g[x].next = f[x].next,
         g[last].next = new, g[new].next = EOF
  PROVE  Chain(g, s) = Chain(f, s) \cup {new}
<1> DEFINE C == Chain(f, s)
           D == Chain(g, s)
<1>1. s \in C /\ C \subseteq Sectors /\ s \in D /\ D \subseteq Sectors
  BY ChainStart
<1>2. D \subseteq C \cup {new}
  <2>1. Closed(g, C \cup {new})
    BY ChainIsClosed DEF Closed
  <2> QED
    BY <1>1, <2>1, ChainLeast
<1>3. \A x \in C \cap D : x # last => f[x].next \in (C \cap D) \cup {EOF}
  <2> SUFFICES ASSUME NEW x \in C \cap D, x # last
               PROVE  f[x].next \in (C \cap D) \cup {EOF}
    OBVIOUS
  <2>1. f[x].next \in C \cup {EOF}
    BY ChainIsClosed DEF Closed
  <2>2. g[x].next = f[x].next
    OBVIOUS
  <2> QED
    BY <1>1, <2>1, <2>2, ChainClosed
<1>4. Closed(f, C \cap D)
  BY <1>3 DEF Closed
<1>5. C \subseteq D
  <2>1. C \cap D \in SUBSET Sectors /\ s \in C \cap D
    BY <1>1
  <2> QED
    BY <1>4, <2>1, ChainLeast
<1>6. new \in D
  BY <1>5, ChainClosed
<1> QED
  BY <1>2, <1>5, <1>6

-----------------------------------------------------------------------------
(* The functions on tables return tables. *)

LEMMA FreeEntryType == FreeEntry \in Entry
  BY DEF FreeEntry, Entry

LEMMA BlankFatType == BlankFat \in Fats
  BY FreeEntryType DEF BlankFat, Fats

LEMMA FreeChainType ==
  ASSUME NEW f \in Fats, NEW s
  PROVE  FreeChain(f, s) \in Fats
  BY FreeEntryType DEF FreeChain, Fats

LEMMA EntryUpdates ==
  ASSUME NEW e \in Entry, NEW next \in Sectors \cup {EOF}, NEW sof \in BOOLEAN,
         NEW available \in BOOLEAN
  PROVE  /\ [e EXCEPT !.written = TRUE] \in Entry
         /\ [e EXCEPT !.available = TRUE] \in Entry
         /\ [e EXCEPT !.available = available, !.sof = sof, !.next = next] \in Entry
  BY DEF Entry

LEMMA MarkWrittenType ==
  ASSUME NEW f \in Fats, NEW s
  PROVE  MarkWritten(f, s) \in Fats
  BY EntryUpdates DEF MarkWritten, Fats

LEMMA ScanTableType ==
  ASSUME NEW f \in Fats
  PROVE  scanTable(f) \in Fats
  BY EntryUpdates DEF scanTable, Fats
=============================================================================

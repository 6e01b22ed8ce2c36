--------------------------- MODULE Accounting_proofs ---------------------------
(***************************************************************************)
(* No sector is lost or shared, and RAM agrees with the media between      *)
(* sessions: for any volume, any handles and any faults, as long as the    *)
(* caller is careful.                                                      *)
(***************************************************************************)
EXTENDS MicroFS_proofs

\* The caller takes no liberty but to format a volume without mounting it first.
Careful == Liberties \subseteq {"format"}

-----------------------------------------------------------------------------
(* The inductive invariant. *)

Starts(tab) == {t \in Sectors : tab[t].sof}

\* The sectors of the unfinished file of writer h, when the table in RAM is f.
Claimed(f, h) == IF h.start = NoSector THEN {} ELSE Chain(f, h.start)

\* The table in RAM is the committed one and the unfinished file of the writer,
\* built from free sectors, all taken and none committed.
Unfinished(f, tab, h) ==
  /\ h.old # NoSector => h.old \in Starts(tab)
  /\ IF h.start = NoSector THEN h.cur \notin Sectors
     ELSE h.cur \in Claimed(f, h) /\ f[h.cur].next = EOF
  /\ \A x \in Sectors \ Claimed(f, h) : f[x] = tab[x]
  /\ \A x \in Claimed(f, h) :
       /\ tab[x] = FreeEntry
       /\ ~f[x].available /\ ~f[x].written
       /\ f[x].sof <=> x = h.start

\* What holds while calls are made: both copies are one table, and RAM differs
\* from it by what the one writer has taken.
RamAgrees ==
  /\ table[0] # Bad /\ table[1] = table[0]
  /\ (\A f \in Streams : strm[f].mode # "w") => fat = table[0]
  /\ \A f \in Streams : strm[f].mode = "w" => Unfinished(fat, table[0], strm[f])

OneWriter == \A f, g \in Streams : strm[f].mode = "w" /\ strm[g].mode = "w" => f = g

AccountInv ==
  /\ SectorsAccounted
  /\ mounted => Loaded # Bad
  /\ OneWriter
  /\ mounted /\ ret # "IO" => RamAgrees
-----------------------------------------------------------------------------
(* Well-formed tables. *)

LEMMA CommittedChains ==
  ASSUME NEW tab, WellFormed(tab), NEW t \in Starts(tab)
  PROVE  /\ Ends(tab, t)
         /\ \A x \in Chain(tab, t) : tab[x].written /\ ~tab[x].available /\ tab[x] # FreeEntry
  BY DEF WellFormed, Starts, FreeEntry

\* No two files share a sector.
LEMMA ChainsDisjoint ==
  ASSUME NEW tab, WellFormed(tab), NEW t \in Starts(tab), NEW r \in Starts(tab),
         NEW x \in Chain(tab, t) \cap Chain(tab, r)
  PROVE  t = r
<1>1. x \in Sectors /\ tab[x] # FreeEntry
  BY ChainStart, CommittedChains DEF Starts
<1> QED
  BY <1>1 DEF WellFormed, Starts

LEMMA FreeOrOwned ==
  ASSUME NEW tab, WellFormed(tab), NEW x \in Sectors
  PROVE  tab[x] = FreeEntry \/ \E t \in Starts(tab) : x \in Chain(tab, t)
  BY DEF WellFormed, Starts

\* The three facts above are all there is to it.
LEMMA MakeWellFormed ==
  ASSUME NEW tab,
         \A t \in Starts(tab) :
           Ends(tab, t) /\ \A x \in Chain(tab, t) : tab[x].written /\ ~tab[x].available,
         \A t, r \in Starts(tab) : t # r => Chain(tab, t) \cap Chain(tab, r) = {},
         \A x \in Sectors : tab[x] = FreeEntry \/ \E t \in Starts(tab) : x \in Chain(tab, t)
  PROVE  WellFormed(tab)
  BY DEF WellFormed, Starts

LEMMA BlankWellFormed == WellFormed(BlankFat)
  BY DEF WellFormed, BlankFat, FreeEntry

\* scanTable finds nothing to do: what is not free is committed.
LEMMA ScanKeeps ==
  ASSUME NEW tab \in Fats, WellFormed(tab)
  PROVE  scanTable(tab) = tab
<1>1. ASSUME NEW x \in Sectors
      PROVE  tab[x].written \/ tab[x].available
  BY FreeOrOwned, CommittedChains DEF FreeEntry
<1> QED
  BY <1>1 DEF scanTable, Fats

\* Freeing one file leaves the others, and nothing of it.
LEMMA FreeWellFormed ==
  ASSUME NEW tab \in Fats, WellFormed(tab), NEW s \in Starts(tab)
  PROVE  /\ WellFormed(FreeChain(tab, s))
         /\ Starts(FreeChain(tab, s)) = Starts(tab) \ {s}
         /\ \A t \in Starts(tab) \ {s} : \A x \in Chain(tab, t) : FreeChain(tab, s)[x] = tab[x]
<1> DEFINE new == FreeChain(tab, s)
<1>1. s \in Sectors /\ Chain(tab, s) \subseteq Sectors /\ s \in Chain(tab, s)
  BY ChainStart DEF Starts
<1>2. \A x \in Sectors : new[x] = IF x \in Chain(tab, s) THEN FreeEntry ELSE tab[x]
  BY DEF FreeChain
<1> HIDE DEF new
<1>3. ASSUME NEW t \in Starts(new)
      PROVE  /\ t \in Starts(tab) /\ t # s /\ Chain(new, t) = Chain(tab, t)
             /\ \A x \in Chain(tab, t) : new[x] = tab[x]
  <2>1. t \in Starts(tab) /\ t # s
    BY <1>1, <1>2 DEF Starts, FreeEntry
  <2>2. t \in Sectors /\ Chain(tab, t) \subseteq Sectors
    BY ChainStart DEF Starts
  <2>3. \A x \in Chain(tab, t) : new[x] = tab[x]
    BY <1>2, <2>1, <2>2, ChainsDisjoint
  <2>4. Chain(new, t) = Chain(tab, t)
    BY <2>2, <2>3, ChainKept
  <2> QED
    BY <2>1, <2>3, <2>4
<1>4. ASSUME NEW t \in Starts(new)
      PROVE  Ends(new, t) /\ \A x \in Chain(new, t) : new[x].written /\ ~new[x].available
  BY <1>3, <1>4, CommittedChains DEF Ends
<1>5. ASSUME NEW t \in Starts(new), NEW r \in Starts(new), t # r
      PROVE  Chain(new, t) \cap Chain(new, r) = {}
  BY <1>3, <1>5, ChainsDisjoint
<1>6. ASSUME NEW x \in Sectors
      PROVE  new[x] = FreeEntry \/ \E t \in Starts(new) : x \in Chain(new, t)
  <2>1. CASE x \in Chain(tab, s) \/ tab[x] = FreeEntry
    BY <1>2, <2>1
  <2>2. CASE x \notin Chain(tab, s) /\ tab[x] # FreeEntry
    <3>1. PICK t \in Starts(tab) : x \in Chain(tab, t)
      BY <2>2, FreeOrOwned
    <3>2. t \notin Chain(tab, s) /\ t \in Sectors
      BY <2>2, <3>1, ChainStart, ChainsDisjoint DEF Starts
    <3>3. t \in Starts(new)
      BY <1>2, <3>1, <3>2 DEF Starts
    <3> QED
      BY <1>3, <3>1, <3>3
  <2> QED
    BY <2>1, <2>2
<1>7. Starts(tab) \ {s} \subseteq Starts(new)
  <2> SUFFICES ASSUME NEW t \in Starts(tab), t # s
               PROVE  t \in Starts(new)
    OBVIOUS
  <2>1. t \in Sectors /\ t \notin Chain(tab, s)
    BY ChainStart, ChainsDisjoint DEF Starts
  <2> QED
    BY <1>2, <2>1 DEF Starts
<1>8. Starts(new) = Starts(tab) \ {s}
  BY <1>3, <1>7
<1>9. WellFormed(new)
  BY <1>4, <1>5, <1>6, MakeWellFormed
<1> QED
  BY <1>3, <1>8, <1>9 DEF new

-----------------------------------------------------------------------------
(* The writer. *)

\* Giving the sectors back leaves nothing behind.
LEMMA GiveBack ==
  ASSUME NEW tab \in Fats, NEW f \in Fats, NEW h, Unfinished(f, tab, h),
         h.start \in Sectors
  PROVE  FreeChain(f, h.start) = tab
<1>1. \A x \in Sectors : (IF x \in Chain(f, h.start) THEN FreeEntry ELSE f[x]) = tab[x]
  BY SentinelAssumption DEF Unfinished, Claimed
<1> QED
  BY <1>1 DEF FreeChain, Fats

\* Committing them adds one file.
LEMMA CommitWellFormed ==
  ASSUME NEW tab \in Fats, WellFormed(tab), NEW f \in Fats, NEW h,
         Unfinished(f, tab, h), h.start \in Sectors
  PROVE  /\ WellFormed(MarkWritten(f, h.start))
         /\ Starts(MarkWritten(f, h.start)) = Starts(tab) \cup {h.start}
         /\ h.start \notin Starts(tab)
         /\ \A t \in Starts(tab) : \A x \in Chain(tab, t) : MarkWritten(f, h.start)[x] = tab[x]
         /\ Ends(f, h.start)
<1> DEFINE C == Chain(f, h.start)
           new == MarkWritten(f, h.start)
<1>0. h.start # NoSector
  BY SentinelAssumption
<1>1. h.start \in C /\ C \subseteq Sectors /\ h.cur \in C /\ f[h.cur].next = EOF
  BY <1>0, ChainStart DEF Unfinished, Claimed
<1>2. \A x \in C : /\ tab[x] = FreeEntry /\ ~f[x].available /\ ~f[x].written
                   /\ f[x].sof <=> x = h.start
  BY <1>0 DEF Unfinished, Claimed
<1>3. \A x \in Sectors \ C : f[x] = tab[x]
  BY <1>0 DEF Unfinished, Claimed
<1>4. new \in Fats /\ \A x \in Sectors : new[x] = IF x \in C THEN [f[x] EXCEPT !.written = TRUE]
                                                            ELSE f[x]
  BY MarkWrittenType DEF MarkWritten
<1> HIDE DEF new
<1>5. ASSUME NEW x \in Sectors
      PROVE  /\ new[x].next = f[x].next /\ new[x].sof = f[x].sof
             /\ new[x].available = f[x].available
             /\ x \in C => new[x].written
             /\ x \notin C => new[x] = tab[x]
  BY <1>3, <1>4 DEF Fats, Entry
<1>6. Chain(new, h.start) = C
  BY <1>1, <1>5, ChainKept
<1>7. Starts(new) = Starts(tab) \cup {h.start}
  BY <1>1, <1>2, <1>3, <1>5 DEF Starts, FreeEntry
<1>8. ASSUME NEW t \in Starts(tab)
      PROVE  /\ t # h.start /\ Chain(tab, t) \cap C = {} /\ Chain(new, t) = Chain(tab, t)
             /\ \A x \in Chain(tab, t) : x \in Sectors /\ new[x] = tab[x]
  <2>1. t \in Sectors /\ Chain(tab, t) \subseteq Sectors /\ t \in Chain(tab, t)
    BY ChainStart DEF Starts
  <2>2. Chain(tab, t) \cap C = {}
    BY <1>2, CommittedChains
  <2>3. \A x \in Chain(tab, t) : x \in Sectors /\ new[x] = tab[x]
    BY <1>5, <2>1, <2>2
  <2>4. Chain(new, t) = Chain(tab, t)
    BY <2>1, <2>3, ChainKept
  <2> QED
    BY <1>1, <2>1, <2>2, <2>3, <2>4
<1>9. Ends(f, h.start) /\ Ends(new, h.start)
  BY <1>1, <1>5, <1>6 DEF Ends
<1>10. ASSUME NEW t \in Starts(new)
       PROVE  Ends(new, t) /\ \A x \in Chain(new, t) : new[x].written /\ ~new[x].available
  <2>1. CASE t = h.start
    BY <1>1, <1>2, <1>5, <1>6, <1>9, <2>1
  <2>2. CASE t \in Starts(tab)
    BY <1>8, <2>2, CommittedChains DEF Ends
  <2> QED
    BY <1>7, <2>1, <2>2
<1>11. ASSUME NEW t \in Starts(new), NEW r \in Starts(new), t # r
       PROVE  Chain(new, t) \cap Chain(new, r) = {}
  <2>1. CASE t \in Starts(tab) /\ r \in Starts(tab)
    BY <1>8, <1>11, <2>1, ChainsDisjoint
  <2>2. CASE t = h.start \/ r = h.start
    BY <1>6, <1>7, <1>8, <1>11, <2>2
  <2> QED
    BY <1>7, <2>1, <2>2
<1>12. ASSUME NEW x \in Sectors
       PROVE  new[x] = FreeEntry \/ \E t \in Starts(new) : x \in Chain(new, t)
  <2>1. CASE x \in C
    BY <1>6, <1>7, <2>1
  <2>2. CASE x \notin C
    <3>1. new[x] = tab[x]
      BY <1>5, <2>2
    <3> QED
      BY <1>7, <1>8, <3>1, FreeOrOwned
  <2> QED
    BY <2>1, <2>2
<1>13. WellFormed(new)
  BY <1>10, <1>11, <1>12, MakeWellFormed
<1> QED
  BY <1>7, <1>8, <1>9, <1>13 DEF new

\* A sector found available is free on the media too, and not the writer's.
LEMMA EmptyIsFree ==
  ASSUME NEW tab, WellFormed(tab), NEW f, NEW h, Unfinished(f, tab, h),
         NEW s \in findEmptySector(f)
  PROVE  s \in Sectors \ Claimed(f, h) /\ tab[s] = FreeEntry /\ f[s] = FreeEntry
<1>1. s \in Sectors \ Claimed(f, h) /\ f[s].available
  BY DEF findEmptySector, Unfinished
<1>2. f[s] = tab[s]
  BY <1>1 DEF Unfinished
<1> QED
  BY <1>1, <1>2, FreeOrOwned, CommittedChains

\* Taking one more sector.
LEMMA ExtendUnfinished ==
  ASSUME NEW tab \in Fats, WellFormed(tab), NEW f \in Fats, NEW h \in Handle,
         Unfinished(f, tab, h), h.cur # FullSector, NEW s \in findEmptySector(f)
  PROVE  Unfinished(Link(f, h, s), tab, Extend(h, s))
<1> DEFINE g == Link(f, h, s)
           C == Claimed(f, h)
<1>1. s \in Sectors \ C /\ f[s].available
  BY EmptyIsFree DEF findEmptySector
<1>2. tab[s] = FreeEntry /\ f[s] = FreeEntry
  BY EmptyIsFree
<1>3. ASSUME NEW x \in Sectors
      PROVE  /\ x # s => g[x].available = f[x].available /\ g[x].sof = f[x].sof
             /\ x # h.cur => g[x].next = f[x].next
             /\ g[x].written = f[x].written
             /\ x \notin {s, h.cur} => g[x] = f[x]
             /\ x = s => ~g[x].available /\ (g[x].sof <=> h.cur = NoSector)
             /\ x = h.cur => g[x].next = s
  <2>1. f[x] \in Entry
    BY DEF Fats
  <2> QED
    BY <2>1 DEF Link, Entry
<1>4. g \in Fats
  BY <1>1, LinkType
<1> SUFFICES Unfinished(g, tab, Extend(h, s))
  OBVIOUS
<1> HIDE DEF g
<1>5. CASE h.cur = NoSector
  <2>1. h.start = NoSector /\ C = {}
    BY <1>5, SentinelAssumption, ChainStart DEF Unfinished, Claimed, Handle
  <2>2. Extend(h, s).start = s /\ Extend(h, s).cur = s /\ Extend(h, s).old = h.old
    BY <1>5 DEF Extend, Handle
  <2>3. g[s].next = EOF /\ s # NoSector
    BY <1>1, <1>2, <1>3, <1>5, SentinelAssumption DEF FreeEntry
  <2>4. Chain(g, s) = {s}
    <3>1. Closed(g, {s})
      BY <2>3 DEF Closed
    <3> QED
      BY <1>1, <3>1, ChainStart, ChainLeast
  <2>5. Claimed(g, Extend(h, s)) = {s}
    BY <2>2, <2>3, <2>4 DEF Claimed
  <2>6. \A x \in Sectors \ {s} : g[x] = tab[x]
    BY <1>3, <1>5, <2>1, SentinelAssumption DEF Unfinished
  <2>7. tab[s] = FreeEntry /\ ~g[s].available /\ ~g[s].written /\ g[s].sof
    BY <1>1, <1>2, <1>3, <1>5 DEF FreeEntry
  <2> QED
    BY <2>2, <2>3, <2>5, <2>6, <2>7 DEF Unfinished
<1>6. CASE h.cur # NoSector
  <2>1. h.cur \in Sectors /\ h.start # NoSector /\ h.start \in Sectors
    BY <1>6 DEF Unfinished, Handle
  <2>2. C = Chain(f, h.start) /\ C \subseteq Sectors /\ h.cur \in C /\ f[h.cur].next = EOF
    BY <2>1, ChainStart DEF Unfinished, Claimed
  <2>3. Extend(h, s).start = h.start /\ Extend(h, s).cur = s /\ Extend(h, s).old = h.old
    BY <1>6 DEF Extend, Handle
  <2>4. g[s].next = EOF
    BY <1>1, <1>2, <1>3, <2>2 DEF FreeEntry
  <2>5. Chain(g, h.start) = C \cup {s}
    BY <1>1, <1>3, <2>1, <2>2, <2>4, ChainExtended
  <2>6. Claimed(g, Extend(h, s)) = C \cup {s}
    BY <2>1, <2>3, <2>5 DEF Claimed
  <2>7. \A x \in Sectors \ (C \cup {s}) : g[x] = tab[x]
    BY <1>3, <2>2 DEF Unfinished
  <2>8. ASSUME NEW x \in C \cup {s}
        PROVE  /\ tab[x] = FreeEntry
               /\ ~g[x].available /\ ~g[x].written
               /\ g[x].sof <=> x = h.start
    <3>1. CASE x = s
      <4>1. h.start \in C
        BY <2>1, <2>2, ChainStart
      <4> QED
        BY <1>1, <1>2, <1>3, <1>6, <3>1, <4>1 DEF FreeEntry
    <3>2. CASE x \in C
      BY <1>1, <1>3, <2>2, <3>2 DEF Unfinished
    <3> QED
      BY <3>1, <3>2
  <2> QED
    BY <2>1, <2>3, <2>4, <2>6, <2>7, <2>8 DEF Unfinished
<1> QED
  BY <1>5, <1>6

-----------------------------------------------------------------------------
(* The media. *)

\* A commit leaves in each copy what it had, the new table or nothing good.
LEMMA CommitCopies ==
  ASSUME NEW tab, NEW new, NEW o \in CommitOutcomes(tab, new)
  PROVE  /\ o.tab[0] \in {tab[0], new, Bad} /\ o.tab[1] \in {tab[1], new, Bad}
         /\ o.tab[0] = new \/ o.tab[1] = tab[1]
         /\ o.res = "OK" => o.tab = Both(new)
         /\ o.res \in {"OK", "IO", "dead"}
<1>1. ASSUME NEW x, NEW y
      PROVE  Copies(x, y)[0] = x /\ Copies(x, y)[1] = y
  BY DEF Copies
<1>2. CASE o.tab = Both(new) /\ o.res = "OK"
  BY <1>1, <1>2 DEF Both
<1>3. ASSUME o.tab \in {Copies(x, tab[1]) : x \in {tab[0], new, Bad}}
                       \cup {Copies(new, x) : x \in {tab[1], new, Bad}},
             o.res \in Failures
      PROVE  /\ o.tab[0] \in {tab[0], new, Bad} /\ o.tab[1] \in {tab[1], new, Bad}
             /\ o.tab[0] = new \/ o.tab[1] = tab[1]
             /\ o.res \in {"IO", "dead"}
  BY <1>1, <1>3 DEF Failures
<1> QED
  BY <1>2, <1>3 DEF CommitOutcomes

LEMMA BothCopies ==
  ASSUME NEW f
  PROVE  Both(f)[0] = f /\ Both(f)[1] = f
  BY DEF Both, Copies

LEMMA CommitAccounted ==
  ASSUME SectorsAccounted, NEW new \in Fats, WellFormed(new),
         NEW o \in CommitOutcomes(table, new), table' = o.tab
  PROVE  /\ SectorsAccounted'
         /\ table[1] # Bad => Loaded' # Bad
         /\ o.res = "OK" => table'[0] = new /\ table'[1] = new
<1>1. new # Bad
  BY BadAssumption
<1>2. /\ o.tab[0] \in {table[0], new, Bad} /\ o.tab[1] \in {table[1], new, Bad}
      /\ o.tab[0] = new \/ o.tab[1] = table[1]
      /\ o.res = "OK" => o.tab = Both(new)
  BY CommitCopies
<1>3. SectorsAccounted'
  <2> SUFFICES ASSUME NEW i \in 0..1, table'[i] # Bad
               PROVE  WellFormed(table'[i])
    BY DEF SectorsAccounted, WellFormed, Ends, Chain, Closed
  <2>1. table'[i] \in {table[i], new, Bad}
    BY <1>2
  <2> QED
    BY <2>1 DEF SectorsAccounted
<1> QED
  BY <1>1, <1>2, <1>3, BothCopies DEF Loaded, Loadable

-----------------------------------------------------------------------------
(* The steps. *)

\* Handles as far as this matters: a writer keeps what it has.
SameWriters ==
  /\ (\A f \in Streams : strm'[f].mode # "w") => \A f \in Streams : strm[f].mode # "w"
  /\ \A f \in Streams : strm'[f].mode = "w" =>
       /\ strm[f].mode = "w" /\ strm'[f].old = strm[f].old
       /\ strm'[f].start = strm[f].start
       /\ strm'[f].cur = strm[f].cur
            \/ (strm[f].start = NoSector /\ strm'[f].cur \notin Sectors)

\* A call that touches neither the tables nor what a writer has.
LEMMA TablesKept ==
  ASSUME AccountInv, OneWriter', UNCHANGED <<table, fat, mounted>>, SameWriters,
         mounted /\ ret' # "IO" => RamAgrees
  PROVE  AccountInv'
<1>1. SectorsAccounted' /\ (mounted => Loaded # Bad)'
  BY DEF AccountInv, SectorsAccounted, Loaded, Loadable
<1>2. ASSUME RamAgrees
      PROVE  RamAgrees'
  <2>1. ASSUME NEW f \in Streams, strm'[f].mode = "w"
        PROVE  Unfinished(fat, table[0], strm[f])'
    <3>1. Unfinished(fat, table[0], strm[f])
      BY <1>2, <2>1 DEF SameWriters, RamAgrees
    <3>2. /\ strm'[f].old = strm[f].old /\ strm'[f].start = strm[f].start
          /\ strm'[f].cur = strm[f].cur
               \/ (strm[f].start = NoSector /\ strm'[f].cur \notin Sectors)
      BY <2>1 DEF SameWriters
    <3> QED
      BY <3>1, <3>2 DEF Unfinished, Claimed
  <2> QED
    BY <1>2, <2>1 DEF RamAgrees, SameWriters
<1> QED
  BY <1>1, <1>2 DEF AccountInv

\* A reset or a failed mount: nothing but the media matters.
LEMMA NothingOpen ==
  ASSUME SectorsAccounted', (mounted => Loaded # Bad)', ~mounted' \/ ret' = "IO",
         strm' = [f \in Streams |-> NoHandle] \/ OneWriter'
  PROVE  AccountInv'
<1>1. OneWriter'
  BY DEF OneWriter, NoHandle
<1> QED
  BY <1>1 DEF AccountInv

LEMMA ResetAccount ==
  ASSUME SectorsAccounted', Reset
  PROVE  AccountInv'
<1>1. ~mounted' /\ strm' = [f \in Streams |-> NoHandle]
  BY DEF Reset
<1> QED
  BY <1>1, NothingOpen

\* What a careful caller finds when it calls.
LEMMA Ready ==
  ASSUME Careful, AccountInv, Calls
  PROVE  /\ RamAgrees /\ mounted /\ ret # "IO"
         /\ \A liberty \in {"overlap", "carryOn", "abandon", "reuse"} : ~May(liberty)
  BY DEF Careful, AccountInv, Calls, May

LEMMA MountAccount ==
  ASSUME Careful, MediaOK, AccountInv, ufat_mount
  PROVE  AccountInv'
<1>1. Forget => strm' = [f \in Streams |-> NoHandle]
  BY DEF Careful, Forget, May
<1>2. Loaded # Bad => Loaded \in Fats /\ WellFormed(Loaded)
  BY LoadedType DEF AccountInv, SectorsAccounted, Loaded, Loadable
<1>3. ASSUME Loaded # Bad, table' = Both(Loaded)
      PROVE  SectorsAccounted' /\ Loaded' = Loaded
  <2>1. \A i \in 0..1 : table'[i] = Loaded
    BY <1>3, BothCopies
  <2> QED
    BY <1>2, <1>3, <2>1 DEF SectorsAccounted, Loaded, Loadable
<1>4. CASE mountReadFails
  <2>1. SectorsAccounted' /\ (mounted => Loaded # Bad)'
    <3>1. CASE UNCHANGED <<table, fat>>
      BY <1>4, <3>1 DEF mountReadFails, AccountInv, SectorsAccounted, Loaded, Loadable
    <3>2. CASE Loaded # Bad /\ table' = Both(Loaded)
      BY <1>3, <3>2
    <3> QED
      BY <1>4, <3>1, <3>2 DEF mountReadFails, ReadFailed, Loaded
  <2> QED
    BY <1>1, <1>4, <2>1, NothingOpen DEF mountReadFails
<1>5. CASE mountEmpty
  <2>1. ~mounted'
    BY <1>5 DEF mountEmpty, AccountInv, Loaded, Loadable
  <2>2. SectorsAccounted'
    BY <1>5 DEF mountEmpty, AccountInv, SectorsAccounted, media
  <2> QED
    BY <1>1, <1>5, <2>1, <2>2, NothingOpen DEF mountEmpty
<1>6. CASE mountCopyFails
  <2>1. PICK x \in {table[0], table[1], Bad} :
          table' = [table EXCEPT ![IF table[0] # Bad THEN 1 ELSE 0] = x]
    BY <1>6 DEF mountCopyFails, CopyFailed, Repaired
  <2>2. SectorsAccounted'
    <3> SUFFICES ASSUME NEW i \in 0..1, table'[i] # Bad
                 PROVE  WellFormed(table'[i])
      BY DEF SectorsAccounted
    <3>1. table'[i] \in {table[0], table[1]}
      BY <2>1 DEF MediaOK, Tabs
    <3> QED
      BY <3>1 DEF AccountInv, SectorsAccounted
  <2>3. Loaded' # Bad
    <3>1. CASE table[0] # Bad
      BY <2>1, <3>1 DEF MediaOK, Tabs, Loaded, Loadable
    <3>2. CASE table[0] = Bad
      BY <1>6, <2>1, <3>2 DEF mountCopyFails, CopyFailed, MediaOK, Tabs, Loaded, Loadable
    <3> QED
      BY <3>1, <3>2
  <2>4. Reset \/ (ret' = "IO" /\ Forget)
    BY <1>6 DEF mountCopyFails
  <2> QED
    BY <1>1, <2>2, <2>3, <2>4, NothingOpen, ResetAccount
<1>7. CASE mountDone
  <2>1. Loaded # Bad /\ Scanned = Loaded
    BY <1>2, <1>7, ScanKeeps DEF mountDone, Scanned
  <2>2. PICK o \in [tab : {Both(Loaded)}, res : {"OK"}] :
          /\ table' = o.tab
          /\ IF o.res = "dead" THEN Reset
             ELSE /\ fat' = Scanned
                  /\ mounted' = TRUE
                  /\ lastError' = "OK"
                  /\ ret' = "OK"
                  /\ Forget
                  /\ UNCHANGED <<session, trap>>
    BY <1>7, <2>1 DEF mountDone, LoadOutcomes, Loaded
  <2>3. /\ table' = Both(Loaded) /\ fat' = Loaded
        /\ strm' = [f \in Streams |-> NoHandle]
    BY <1>1, <2>1, <2>2
  <2>4. SectorsAccounted' /\ Loaded' # Bad
    BY <1>3, <2>1, <2>3
  <2>5. table'[0] = Loaded /\ table'[1] = Loaded
    BY <2>3, BothCopies
  <2>6. OneWriter' /\ \A f \in Streams : strm'[f].mode # "w"
    BY <2>3 DEF OneWriter, NoHandle
  <2>7. RamAgrees'
    BY <2>1, <2>3, <2>5, <2>6 DEF RamAgrees
  <2> QED
    BY <2>4, <2>6, <2>7 DEF AccountInv
<1> QED
  BY <1>4, <1>5, <1>6, <1>7 DEF ufat_mount

LEMMA FormatAccount ==
  ASSUME Careful, AccountInv, ufat_format
  PROVE  AccountInv'
<1>1. PICK o \in CommitOutcomes(table, BlankFat) :
        /\ table' = o.tab
        /\ IF o.res = "dead" THEN Reset
           ELSE /\ fat' = BlankFat
                /\ ret' = o.res
                /\ UNCHANGED <<mounted, lastError, strm, session, trap>>
  BY DEF ufat_format
<1>2. /\ SectorsAccounted'
      /\ table[1] # Bad => Loaded' # Bad
      /\ o.res = "OK" => table'[0] = BlankFat /\ table'[1] = BlankFat
  BY <1>1, CommitAccounted, BlankWellFormed, BlankFatType DEF AccountInv
<1>3. mounted => ret # "IO" /\ RamAgrees
  BY DEF ufat_format, Calls, Careful, May, AccountInv
<1>0. \A f \in Streams : Idle(f)
  BY DEF ufat_format, Careful, May
<1>4. CASE o.res = "dead"
  BY <1>1, <1>2, <1>4, ResetAccount
<1>5. CASE o.res # "dead"
  <2>1. UNCHANGED <<mounted, strm>> /\ fat' = BlankFat /\ ret' = o.res
    BY <1>1, <1>5
  <2>2. OneWriter'
    BY <2>1 DEF AccountInv, OneWriter
  <2>3. mounted => table[1] # Bad
    BY <1>3 DEF RamAgrees
  <2>4. o.res \in {"OK", "IO"}
    BY <1>5, CommitCopies
  <2>5. o.res = "OK" => RamAgrees'
    BY <1>0, <1>2, <2>1, BadAssumption, BlankFatType DEF RamAgrees, Idle
  <2> QED
    BY <1>2, <2>1, <2>2, <2>3, <2>4, <2>5 DEF AccountInv
<1> QED
  BY <1>4, <1>5

\* The handle is opened while none is being written.
LEMMA OpenAccount ==
  ASSUME Careful, MediaOK, RamOK, AccountInv, NEW f \in Streams,
         \/ fopenNameTooLong(f) \/ fopenUnsupported(f)
         \/ \E n \in Names : fopenRead(f, n) \/ fopenWrite(f, n)
  PROVE  AccountInv'
<1>1. Calls /\ Idle(f) /\ \A g \in Streams : strm[g].mode # "w"
  BY DEF fopenNameTooLong, fopenUnsupported, fopenRead, fopenWrite, Opens, Enter, NoWriter,
         Idle, Careful, May
<1>2. RamAgrees /\ mounted /\ fat = table[0]
  BY <1>1, Ready DEF RamAgrees
<1>3. UNCHANGED <<table, fat, mounted>>
  BY DEF fopenNameTooLong, fopenUnsupported, fopenRead, fopenWrite, media
<1>4. \A g \in Streams \ {f} : strm'[g] = strm[g]
  BY DEF fopenNameTooLong, fopenUnsupported, fopenRead, fopenWrite, OpensWriter, RamOK
<1>5. OneWriter'
  BY <1>1, <1>4 DEF OneWriter
<1>6. CASE strm'[f].mode # "w"
  <2>1. SameWriters
    BY <1>1, <1>4, <1>6 DEF SameWriters
  <2> QED
    BY <1>2, <1>3, <1>5, <2>1, TablesKept
<1>7. CASE strm'[f].mode = "w"
  <2>1. PICK n \in Names : fopenWrite(f, n)
    <3>1. ~fopenUnsupported(f)
      BY <1>1, <1>7 DEF fopenUnsupported, Idle
    <3>2. ~fopenNameTooLong(f)
      BY <1>7 DEF fopenNameTooLong, RamOK, NoHandle
    <3>3. ASSUME NEW n \in Names, fopenRead(f, n)
          PROVE  FALSE
      <4> DEFINE reader(s) == [NoHandle EXCEPT !.mode = "r", !.name = n, !.ver = hdr[s].ver,
                                               !.total = hdr[s].total, !.start = s,
                                               !.cur = s, !.off = HeaderUnits]
      <4>1. NoHandle.mode = "none" /\ \A s : reader(s).mode = "r"
        BY DEF NoHandle
      <4>2. \/ strm' = [strm EXCEPT ![f] = NoHandle]
            \/ \E s \in Search(n) : strm' = [strm EXCEPT ![f] = reader(s)]
        BY <3>3 DEF fopenRead
      <4> HIDE DEF reader
      <4> QED
        BY <1>7, <4>1, <4>2 DEF RamOK
    <3> QED
      BY <3>1, <3>2, <3>3
  <2>2. PICK old \in Search(n) \cup {NoSector} : OpensWriter(f, n, old)
    BY <2>1 DEF fopenWrite
  <2>3. strm'[f].old = old /\ strm'[f].start = NoSector /\ strm'[f].cur = NoSector
    BY <2>2 DEF OpensWriter, RamOK, NoHandle
  <2>4. old # NoSector => old \in Starts(table[0])
    BY <1>2 DEF Search, fileSearch, Matches, Starts
  <2>5. Unfinished(fat, table[0], strm'[f])
    BY <1>2, <2>3, <2>4, SentinelAssumption DEF Unfinished, Claimed
  <2>6. RamAgrees'
    <3>1. ASSUME NEW g \in Streams, strm'[g].mode = "w"
          PROVE  g = f
      BY <1>1, <1>4, <3>1
    <3> QED
      BY <1>2, <1>3, <1>7, <2>5, <3>1 DEF RamAgrees
  <2> QED
    BY <1>3, <1>5, <2>6 DEF AccountInv, SectorsAccounted, Loaded, Loadable
<1> QED
  BY <1>6, <1>7

LEMMA WriteAccount ==
  ASSUME Careful, MediaOK, RamOK, AccountInv, NEW f \in Streams, ufat_fwrite(f)
  PROVE  AccountInv'
<1>1. Calls /\ strm[f].mode = "w"
  BY DEF ufat_fwrite, fwriteFull, fwrite, fwritePass, fwriteOutside, Writes, Enter
<1>2. RamAgrees /\ mounted /\ \A g \in Streams : strm[g].mode = "w" => g = f
  BY <1>1, Ready DEF AccountInv, OneWriter
<1>3. CASE fwriteFull(f)
  <2>1. UNCHANGED <<table, fat, mounted>>
    BY <1>3 DEF fwriteFull, media
  <2>2. /\ \A g \in Streams : g # f => strm'[g] = strm[g]
        /\ strm'[f].mode = "w" /\ strm'[f].old = strm[f].old
        /\ strm'[f].start = strm[f].start
        /\ strm'[f].cur = IF strm[f].cur = NoSector THEN FullSector ELSE strm[f].cur
    BY <1>1, <1>3 DEF fwriteFull, RamOK, GoodHandle, Handle
  <2>3. strm[f].cur = NoSector => strm[f].start = NoSector
    <3>1. strm[f].start # NoSector => strm[f].start \in Sectors
      BY DEF RamOK, GoodHandle, Handle
    <3> QED
      BY <1>1, <1>2, <3>1, ChainStart, SentinelAssumption
      DEF RamAgrees, Unfinished, Claimed
  <2>4. SameWriters
    <3>1. strm'[f].cur = strm[f].cur
            \/ (strm[f].start = NoSector /\ strm'[f].cur \notin Sectors)
      BY <2>2, <2>3, SentinelAssumption
    <3> QED
      BY <1>1, <2>2, <3>1 DEF SameWriters
  <2>5. OneWriter'
    BY <1>2, <2>2 DEF OneWriter
  <2> QED
    BY <1>2, <2>1, <2>4, <2>5, TablesKept
<1>4. CASE fwriteOutside(f)
  <2>1. UNCHANGED <<table, fat, mounted, strm>>
    BY <1>4 DEF fwriteOutside, media
  <2>2. SameWriters
    BY <2>1 DEF SameWriters
  <2>3. OneWriter'
    BY <1>2, <2>1 DEF OneWriter
  <2> QED
    BY <1>2, <2>1, <2>2, <2>3, TablesKept
<1>5. CASE fwrite(f)
  <2> DEFINE need == NeedsSector(strm[f])
             h(s) == IF need THEN Extend(strm[f], s) ELSE strm[f]
             linked(s) == IF need THEN Link(fat, strm[f], s) ELSE fat
  <2>1. PICK n \in 1..SectorUnits,
             s \in IF need THEN findEmptySector(fat) ELSE {strm[f].cur} :
          \/ /\ fat' = linked(s)
             /\ strm' = [strm EXCEPT ![f] = [h(s) EXCEPT !.off = @ + n, !.pos = @ + n]]
             /\ ret' = "OK"
             /\ UNCHANGED mounted
          \/ /\ strm' = [strm EXCEPT ![f] = h(s)]
             /\ ret' = "IO"
             /\ UNCHANGED mounted
          \/ Reset
    BY <1>5 DEF fwrite, fwritePass
  <2>2. UNCHANGED table /\ strm[f].cur # FullSector
    BY <1>5 DEF fwrite, fwritePass
  <2>3. SectorsAccounted' /\ (mounted => Loaded' # Bad)
    BY <2>2 DEF AccountInv, SectorsAccounted, Loaded, Loadable
  <2>4. strm[f] \in Handle
    BY DEF RamOK, GoodHandle
  <2>5. h(s) \in Handle /\ h(s).mode = "w"
    BY <1>1, <2>1, <2>4, ExtendType DEF findEmptySector, Extend, Handle
  <2>6. Unfinished(linked(s), table[0], h(s))
    <3>1. Unfinished(fat, table[0], strm[f])
      BY <1>1, <1>2 DEF RamAgrees
    <3>2. table[0] \in Fats /\ WellFormed(table[0])
      BY <1>2 DEF RamAgrees, AccountInv, SectorsAccounted, MediaOK, Tabs
    <3> QED
      BY <2>1, <2>2, <2>4, <3>1, <3>2, ExtendUnfinished DEF RamOK
  <2> HIDE DEF h, linked
  <2>7. ASSUME NEW g, g.mode = "w", strm' = [strm EXCEPT ![f] = g]
        PROVE  OneWriter'
    BY <1>2, <2>7 DEF OneWriter, RamOK
  <2>8. CASE Reset
    BY <2>3, <2>8, ResetAccount DEF Reset
  <2>9. CASE /\ strm' = [strm EXCEPT ![f] = h(s)]
             /\ ret' = "IO"
             /\ UNCHANGED mounted
    BY <2>3, <2>5, <2>7, <2>9 DEF AccountInv
  <2>10. CASE /\ fat' = linked(s)
              /\ strm' = [strm EXCEPT ![f] = [h(s) EXCEPT !.off = @ + n, !.pos = @ + n]]
              /\ UNCHANGED mounted
    <3> DEFINE g == [h(s) EXCEPT !.off = @ + n, !.pos = @ + n]
    <3>1. g.mode = "w" /\ g.old = h(s).old /\ g.start = h(s).start /\ g.cur = h(s).cur
      BY <2>5 DEF Handle
    <3>2. OneWriter'
      BY <2>7, <2>10, <3>1
    <3>3. strm'[f] = g
      BY <2>10 DEF RamOK
    <3>4. Unfinished(linked(s), table[0], g)
      <4> HIDE DEF g
      <4> QED
        BY <2>6, <3>1 DEF Unfinished, Claimed
    <3>5. ASSUME NEW k \in Streams, strm'[k].mode = "w"
          PROVE  k = f
      BY <3>1, <3>2, <3>3, <3>5 DEF OneWriter
    <3>6. RamAgrees'
      BY <1>2, <2>2, <2>10, <3>1, <3>3, <3>4, <3>5 DEF RamAgrees
    <3> QED
      BY <2>3, <2>10, <3>2, <3>6 DEF AccountInv
  <2> QED
    BY <2>1, <2>8, <2>9, <2>10
<1> QED
  BY <1>3, <1>4, <1>5 DEF ufat_fwrite

\* The handle is out of use, and the others are as they were.
LEMMA RetireAccount ==
  ASSUME Careful, AccountInv, NEW f \in Streams, RamOK, Retire(f)
  PROVE  /\ OneWriter'
         /\ strm'[f].mode = "none" /\ \A g \in Streams : g # f => strm'[g] = strm[g]
         /\ strm[f].mode = "w" => \A g \in Streams : strm'[g].mode # "w"
<1>1. strm' = [strm EXCEPT ![f] = NoHandle]
  BY DEF Retire, Careful, May
<1>2. strm'[f].mode = "none" /\ \A g \in Streams : g # f => strm'[g] = strm[g]
  BY <1>1 DEF RamOK, NoHandle
<1> QED
  BY <1>2 DEF AccountInv, OneWriter

LEMMA CloseAccount ==
  ASSUME Careful, MediaOK, RamOK, AccountInv, NEW f \in Streams, ufat_fclose(f)
  PROVE  AccountInv'
<1> DEFINE h == strm[f]
           T == table[0]
<1>1. Calls
  BY DEF ufat_fclose, fcloseUnopened, fcloseReader, fcloseErrored, fcloseHeaderFails,
         fcloseCorrupt, fclose, Closes, Enter
<1>2. RamAgrees /\ mounted /\ ~May("reuse")
  BY <1>1, Ready
<1>3. h.mode # "none" /\ ~fcloseUnopened(f)
  BY <1>2 DEF ufat_fclose, fcloseUnopened, fcloseReader, fcloseErrored, fcloseHeaderFails,
              fcloseCorrupt, fclose, Closes
<1>4. T \in Fats /\ WellFormed(T)
  BY <1>2 DEF RamAgrees, AccountInv, SectorsAccounted, MediaOK, Tabs
<1>6. h.mode = "w" => Unfinished(fat, T, h)
  BY <1>2 DEF RamAgrees
<1>7. h.start # NoSector => h.start \in Sectors
  BY DEF RamOK, GoodHandle, Handle
<1>8. h.mode = "w" /\ h.start = NoSector => fat = T
  BY <1>4, <1>6 DEF Unfinished, Claimed, RamOK, Fats
<1>9. CASE fcloseReader(f)
  <2>1. UNCHANGED <<table, fat, mounted>> /\ OneWriter' /\ strm'[f].mode = "none"
        /\ \A g \in Streams : g # f => strm'[g] = strm[g]
    BY <1>9, RetireAccount DEF fcloseReader, media
  <2>2. SameWriters
    BY <1>9, <2>1 DEF SameWriters, fcloseReader
  <2> QED
    BY <1>2, <2>1, <2>2, TablesKept
<1>10. CASE fcloseErrored(f)
  <2>1. fat' = T
    BY <1>4, <1>6, <1>7, <1>8, <1>10, GiveBack DEF fcloseErrored, RamOK
  <2>2. UNCHANGED <<table, mounted>> /\ OneWriter'
        /\ \A g \in Streams : strm'[g].mode # "w"
    BY <1>10, RetireAccount DEF fcloseErrored, media
  <2>3. RamAgrees'
    BY <1>2, <2>1, <2>2 DEF RamAgrees
  <2> QED
    BY <2>2, <2>3 DEF AccountInv, SectorsAccounted, Loaded, Loadable
<1>11. CASE fcloseHeaderFails(f)
  <2>1. UNCHANGED table
    BY <1>11 DEF fcloseHeaderFails
  <2>2. SectorsAccounted' /\ (mounted => Loaded' # Bad)
    BY <2>1 DEF AccountInv, SectorsAccounted, Loaded, Loadable
  <2>3. CASE Reset
    BY <2>2, <2>3, ResetAccount
  <2>4. CASE ~Reset
    <3>1. ret' = "IO" /\ Retire(f) /\ UNCHANGED mounted
      BY <1>11, <2>4 DEF fcloseHeaderFails
    <3> QED
      BY <2>2, <3>1, RetireAccount, NothingOpen
  <2> QED
    BY <2>3, <2>4
<1>12. CASE fcloseCorrupt(f)
  BY <1>4, <1>6, <1>7, <1>12, CommitWellFormed DEF fcloseCorrupt, Closes, RamOK
<1>13. CASE fclose(f)
  <2> DEFINE marked == IF h.start = NoSector THEN fat ELSE MarkWritten(fat, h.start)
             new == Replace(h)
  <2>1. h.mode = "w"
    BY <1>13 DEF fclose, Closes
  <2>2. marked \in Fats /\ WellFormed(marked) /\ Starts(T) \subseteq Starts(marked)
    BY <1>4, <1>6, <1>7, <1>8, <2>1, CommitWellFormed, MarkWrittenType DEF RamOK
  <2>3. h.old # NoSector => h.old \in Starts(marked)
    BY <1>6, <2>1, <2>2 DEF Unfinished
  <2>4. new \in Fats /\ WellFormed(new)
    <3> new = IF h.old = NoSector THEN marked ELSE FreeChain(marked, h.old)
      BY DEF Replace
    <3> HIDE DEF marked, new
    <3> QED
      BY <2>2, <2>3, FreeWellFormed, FreeChainType
  <2> HIDE DEF new
  <2>5. PICK o \in CommitOutcomes(table, new) :
          /\ table' = o.tab
          /\ IF o.res = "dead" THEN Reset
             ELSE /\ fat' = new
                  /\ Retire(f)
                  /\ ret' = o.res
                  /\ UNCHANGED <<mounted, lastError, session, trap>>
    BY <1>13 DEF fclose, new
  <2>6. SectorsAccounted' /\ Loaded' # Bad
        /\ (o.res = "OK" => table'[0] = new /\ table'[1] = new)
    BY <1>2, <2>4, <2>5, CommitAccounted DEF AccountInv, RamAgrees
  <2>7. CASE o.res = "dead"
    BY <2>5, <2>6, <2>7, ResetAccount
  <2>8. CASE o.res = "IO"
    BY <2>5, <2>6, <2>8, RetireAccount DEF AccountInv
  <2>9. CASE o.res = "OK"
    <3>1. OneWriter' /\ \A g \in Streams : strm'[g].mode # "w"
      BY <2>1, <2>5, <2>9, RetireAccount
    <3>2. RamAgrees'
      BY <2>4, <2>5, <2>6, <2>9, <3>1, BadAssumption DEF RamAgrees
    <3> QED
      BY <2>6, <3>1, <3>2 DEF AccountInv
  <2> QED
    BY <2>5, <2>7, <2>8, <2>9, CommitCopies
<1> QED
  BY <1>3, <1>9, <1>10, <1>11, <1>12, <1>13 DEF ufat_fclose

LEMMA RemoveAccount ==
  ASSUME Careful, MediaOK, RamOK, AccountInv, NEW n \in Names, ufat_remove(n)
  PROVE  AccountInv'
<1>1. Calls /\ \A f \in Streams : strm[f].mode # "w"
  BY DEF ufat_remove, Enter, NoWriter, Careful, May
<1>2. RamAgrees /\ mounted /\ fat = table[0]
  BY <1>1, Ready DEF RamAgrees
<1>3. CASE removeAbsent(n) \/ (removeSearchFails /\ UNCHANGED fat)
  <2>1. UNCHANGED <<table, fat, mounted, strm>>
    BY <1>3 DEF removeAbsent, removeSearchFails, media
  <2>2. SameWriters
    BY <2>1 DEF SameWriters
  <2>3. OneWriter'
    BY <2>1 DEF AccountInv, OneWriter
  <2> QED
    BY <1>2, <2>1, <2>2, <2>3, TablesKept
<1>4. CASE removeSearchFails /\ fat' # fat
  <2>1. UNCHANGED <<table, mounted, strm>> /\ ret' = "IO"
    BY <1>4 DEF removeSearchFails, media
  <2>2. OneWriter'
    BY <2>1 DEF AccountInv, OneWriter
  <2>3. SectorsAccounted' /\ (mounted => Loaded # Bad)'
    BY <2>1 DEF AccountInv, SectorsAccounted, Loaded, Loadable
  <2> QED
    BY <2>1, <2>2, <2>3, NothingOpen
<1>5. CASE removeFound(n)
  <2>1. PICK s \in Search(n) : \E o \in CommitOutcomes(table, FreeChain(fat, s)) :
          /\ table' = o.tab
          /\ IF o.res = "dead" THEN Reset
             ELSE /\ fat' = FreeChain(fat, s)
                  /\ ret' = o.res
                  /\ UNCHANGED <<mounted, lastError, strm, session, trap>>
    BY <1>5 DEF removeFound
  <2> DEFINE new == FreeChain(fat, s)
  <2>2. new \in Fats /\ WellFormed(new)
    <3>1. s \in Starts(fat)
      BY DEF Search, fileSearch, Matches, Starts
    <3>2. fat \in Fats /\ WellFormed(fat)
      BY <1>2 DEF RamOK, RamAgrees, AccountInv, SectorsAccounted
    <3> QED
      BY <3>1, <3>2, FreeWellFormed, FreeChainType
  <2> HIDE DEF new
  <2>3. PICK o \in CommitOutcomes(table, new) :
          /\ table' = o.tab
          /\ IF o.res = "dead" THEN Reset
             ELSE /\ fat' = new
                  /\ ret' = o.res
                  /\ UNCHANGED <<mounted, lastError, strm, session, trap>>
    BY <2>1 DEF new
  <2>4. SectorsAccounted' /\ Loaded' # Bad
        /\ (o.res = "OK" => table'[0] = new /\ table'[1] = new)
    BY <1>2, <2>2, <2>3, CommitAccounted DEF AccountInv, RamAgrees
  <2>5. CASE o.res = "dead"
    BY <2>3, <2>4, <2>5, ResetAccount
  <2>6. CASE o.res # "dead"
    <3>1. UNCHANGED <<mounted, strm>> /\ fat' = new /\ ret' = o.res
      BY <2>3, <2>6
    <3>2. OneWriter'
      BY <3>1 DEF AccountInv, OneWriter
    <3>3. o.res = "OK" => RamAgrees'
      BY <1>1, <2>2, <2>4, <3>1, BadAssumption DEF RamAgrees
    <3>4. o.res \in {"OK", "IO"}
      BY <2>6, CommitCopies
    <3> QED
      BY <2>4, <3>1, <3>2, <3>3, <3>4 DEF AccountInv
  <2> QED
    BY <2>5, <2>6
<1> QED
  BY <1>3, <1>4, <1>5 DEF ufat_remove

\* The calls that leave the tables and the writers alone.
LEMMA OtherAccount ==
  ASSUME Careful, RamOK, AccountInv,
         \/ Latched \/ ufat_fsinfo
         \/ \E n \in Names : ufat_exists(n)
         \/ \E f \in Streams : ufat_fread(f)
  PROVE  AccountInv'
<1>1. Calls /\ UNCHANGED <<table, fat, mounted>>
  BY DEF Latched, ufat_fsinfo, ufat_exists, ufat_fread, fread, freadNothing, Reads, Enter, media
<1>2. RamAgrees
  BY <1>1, Ready
<1>3. CASE UNCHANGED strm
  <2>1. SameWriters
    BY <1>3 DEF SameWriters
  <2>2. OneWriter'
    BY <1>3 DEF AccountInv, OneWriter
  <2> QED
    BY <1>1, <1>2, <2>1, <2>2, TablesKept
<1>4. ASSUME NEW f \in Streams, fread(f)
      PROVE  AccountInv'
  <2>1. /\ strm[f].mode = "r" /\ strm'[f].mode = "r"
        /\ \A g \in Streams : g # f => strm'[g] = strm[g]
    <3>1. strm[f].mode = "r" /\ strm[f] \in Handle
      BY <1>4 DEF fread, Reads, RamOK, GoodHandle
    <3> DEFINE h == strm[f]
               s == IF h.off = SectorUnits THEN fat[h.cur].next ELSE h.cur
               off == IF h.off = SectorUnits THEN 0 ELSE h.off
               good(n) == \A i \in 1..n : data[s][off + i - 1] = <<h.ver, h.pos + i>>
               after(n) == [h EXCEPT !.cur = s, !.off = off + n, !.pos = @ + n,
                                     !.sound = @ /\ good(n)]
               moved == [h EXCEPT !.cur = s, !.off = off]
    <3>2. \/ strm' = [strm EXCEPT ![f] = moved]
          \/ \E n \in 1..SectorUnits : strm' = [strm EXCEPT ![f] = after(n)]
      BY <1>4 DEF fread
    <3>3. moved.mode = "r" /\ \A n : after(n).mode = "r"
      BY <3>1 DEF Handle
    <3> HIDE DEF after, moved
    <3> QED
      BY <3>1, <3>2, <3>3 DEF RamOK
  <2>2. SameWriters
    BY <2>1 DEF SameWriters
  <2>3. OneWriter'
    BY <2>1 DEF AccountInv, OneWriter
  <2> QED
    BY <1>1, <1>2, <2>2, <2>3, TablesKept
<1> QED
  BY <1>3, <1>4 DEF Latched, ufat_fsinfo, ufat_exists, ufat_fread, freadNothing

LEMMA StepAccount == Careful /\ TypeInv /\ AccountInv /\ [Next]_vars => AccountInv'
<1> SUFFICES ASSUME Careful, MediaOK, RamOK, RestOK, AccountInv, [Next]_vars
             PROVE  AccountInv'
  BY DEF TypeInv
<1>1. CASE PowerLoss
  <2>1. SectorsAccounted'
    BY <1>1 DEF PowerLoss, media, AccountInv, SectorsAccounted
  <2> QED
    BY <1>1, <2>1, ResetAccount DEF PowerLoss
<1>2. CASE UNCHANGED vars
  <2>1. SectorsAccounted' /\ (mounted => Loaded # Bad)' /\ OneWriter'
    BY <1>2 DEF vars, AccountInv, SectorsAccounted, Loaded, Loadable, OneWriter, Idle
  <2>2. RamAgrees => RamAgrees'
    BY <1>2 DEF vars, RamAgrees, Unfinished, Claimed
  <2> QED
    BY <1>2, <2>1, <2>2 DEF vars, AccountInv
<1> QED
  BY <1>1, <1>2, MountAccount, FormatAccount, OpenAccount, WriteAccount, CloseAccount,
     RemoveAccount, OtherAccount
  DEF Next

LEMMA InitAccount == Init => AccountInv
<1> SUFFICES ASSUME Init
             PROVE  AccountInv
  OBVIOUS
<1>1. \A i \in 0..1 : table[i] = Bad
  BY DEF Init
<1> QED
  BY <1>1 DEF Init, AccountInv, SectorsAccounted, OneWriter, Idle, NoHandle

LEMMA AccountAlways ==
  ASSUME Careful
  PROVE  Spec => [](TypeInv /\ AccountInv)
<1>1. Spec => []TypeInv
  BY InitTypes, StepTypes, PTL DEF Spec
<1>2. TypeInv /\ AccountInv /\ [Next]_vars => AccountInv'
  BY StepAccount
<1> QED
  BY <1>1, <1>2, InitAccount, PTL DEF Spec

\* No sector is lost or shared: whenever a copy of the table on the media is
\* good, it is well formed, whatever accesses fail, wherever the machine dies
\* and however often it is mounted in the middle of a write, whoever reads
\* meanwhile, as long as one file is written at a time and ufat_mount is the
\* answer to an error.
THEOREM SectorsKept ==
  ASSUME Careful
  PROVE  Spec => []SectorsAccounted
<1>1. AccountInv => SectorsAccounted
  BY DEF AccountInv
<1> QED
  BY <1>1, AccountAlways, PTL

\* With no file being written and no error to handle, the table in RAM is that of
\* both copies: a session that failed or ran full left nothing behind.
THEOREM CacheAgrees ==
  ASSUME Careful
  PROVE  Spec => []CacheCoherent
<1>1. TypeInv /\ AccountInv => CacheCoherent
  <2> SUFFICES ASSUME MediaOK, AccountInv, mounted, ret # "IO",
                      \A f \in Streams : strm[f].mode # "w"
               PROVE  table = Both(fat)
    BY DEF TypeInv, CacheCoherent
  <2>1. table[0] = fat /\ table[1] = fat
    BY DEF AccountInv, RamAgrees
  <2> QED
    BY <2>1 DEF MediaOK, Tabs, Both, Copies
<1> QED
  BY <1>1, AccountAlways, PTL
=============================================================================

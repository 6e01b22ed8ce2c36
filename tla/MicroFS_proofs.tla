---------------------------- MODULE MicroFS_proofs ----------------------------
(***************************************************************************)
(* Theorems about the file operations, for any number of sectors, names,   *)
(* handles and sessions, and any faults and liberties.                     *)
(***************************************************************************)
EXTENDS MicroFSProps, Fat_proofs

-----------------------------------------------------------------------------
(* The functions on tables return tables. *)

LEMMA LinkType ==
  ASSUME NEW f \in Fats, NEW h \in Handle, NEW s \in Sectors
  PROVE  Link(f, h, s) \in Fats
<1>1. ASSUME NEW x \in Sectors
      PROVE  [f[x] EXCEPT !.available = @ /\ x # s,
                          !.sof = IF x = s THEN h.cur = NoSector ELSE @,
                          !.next = IF x = h.cur THEN s ELSE @] \in Entry
  BY DEF Fats, Entry
<1> QED
  BY <1>1 DEF Link, Fats

LEMMA ReplaceType ==
  ASSUME fat \in Fats, NEW h
  PROVE  Replace(h) \in Fats
  BY MarkWrittenType, FreeChainType DEF Replace

-----------------------------------------------------------------------------
(* The device. *)

Tabs == [0..1 -> Fats \cup {Bad}]

LEMMA CopiesType ==
  ASSUME NEW x \in Fats \cup {Bad}, NEW y \in Fats \cup {Bad}
  PROVE  Copies(x, y) \in Tabs
  BY DEF Copies, Tabs

LEMMA CommitOutcomesType ==
  ASSUME NEW tab \in Tabs, NEW f \in Fats, NEW o \in CommitOutcomes(tab, f)
  PROVE  o.tab \in Tabs /\ o.res \in {"OK", "IO", "dead"}
<1>1. tab[0] \in Fats \cup {Bad} /\ tab[1] \in Fats \cup {Bad}
  BY DEF Tabs
<1>2. Both(f) \in Tabs
  BY CopiesType DEF Both
<1>3. {Copies(x, tab[1]) : x \in {tab[0], f, Bad}} \subseteq Tabs
  BY <1>1, CopiesType
<1>4. {Copies(f, x) : x \in {tab[1], f, Bad}} \subseteq Tabs
  BY <1>1, CopiesType
<1> QED
  BY <1>2, <1>3, <1>4 DEF CommitOutcomes, Failures

\* A handle in use has a name, and a reader is at a sector: ufat_fclose puts the
\* name in a header, and ufat_fread looks up what follows the sector.
GoodHandle ==
  {h \in Handle : /\ h.mode # "none" => h.name \in Names
                  /\ h.mode = "r" => h.cur \in Sectors}

LEMMA NoHandleType == NoHandle \in GoodHandle
<1>1. NoHandle \in Handle
  BY UnitsAssumption, BoundsAssumption DEF NoHandle, Handle, Sessions
<1> QED
  BY <1>1 DEF NoHandle, GoodHandle

LEMMA TornHeaderType ==
  ASSUME NEW old \in Header \cup {Junk}, NEW new \in Header,
         NEW x \in TornHeader(old, new)
  PROVE  x \in Header \cup {Junk}
<1>1. CASE old = Junk
  BY <1>1 DEF TornHeader
<1>2. CASE old # Junk
  <2>1. [new EXCEPT !.name = old.name] \in Header
    BY <1>2 DEF Header
  <2>2. [old EXCEPT !.ver = 0] \in Header /\ [old EXCEPT !.ver = new.ver] \in Header
    BY <1>2, BoundsAssumption DEF Header, Sessions
  <2> QED
    BY <2>1, <2>2 DEF TornHeader
<1> QED
  BY <1>1, <1>2

\* The contents of the data sectors.
Headers == [Sectors -> Header \cup {Junk}]
Block == [Units -> Datum \cup {Junk}]

LEMMA StoreHeaderType ==
  ASSUME hdr \in Headers, data \in [Sectors -> Block],
         NEW s \in Sectors, NEW x \in Header \cup {Junk}, StoreHeader(s, x)
  PROVE  hdr' \in Headers /\ data' \in [Sectors -> Block]
<1>1. [u \in Units |-> IF u < HeaderUnits THEN Junk ELSE data[s][u]] \in Block
  BY DEF Block
<1> QED
  BY <1>1 DEF StoreHeader, Headers

LEMMA StoreType ==
  ASSUME hdr \in Headers, data \in [Sectors -> Block],
         NEW h, h.cur \in Sectors, NEW d \in Block, Store(h, d)
  PROVE  hdr' \in Headers /\ data' \in [Sectors -> Block]
  BY DEF Store, Headers

\* A handle about to write n units, all of which fit.
LEMMA PutType ==
  ASSUME data \in [Sectors -> Block],
         NEW h \in Handle, h.cur \in Sectors, NEW n \in Nat, h.pos + n <= MaxUnits
  PROVE  Put(h, n) \in Block /\ Smear(h, n) \in Block
<1>1. ASSUME NEW u \in Units, u \in h.off..h.off + n - 1
      PROVE  <<h.ver, h.pos + 1 + u - h.off>> \in Datum
  <2>1. h.pos \in Nat /\ h.off \in Nat /\ h.ver \in Sessions
    BY UnitsAssumption, BoundsAssumption DEF Handle
  <2>2. h.pos + 1 + u - h.off \in 0..MaxUnits
    BY <1>1, <2>1, UnitsAssumption, BoundsAssumption DEF Units
  <2> QED
    BY <2>1, <2>2 DEF Datum
<1>2. data[h.cur] \in [Units -> Datum \cup {Junk}]
  BY DEF Block
<1> QED
  BY <1>1, <1>2 DEF Put, Smear, Block

-----------------------------------------------------------------------------
(* Handles. *)

LEMMA ExtendType ==
  ASSUME NEW h \in Handle, NEW s \in Sectors
  PROVE  Extend(h, s) \in Handle /\ Extend(h, s).cur = s
<1>1. 0 \in 0..SectorUnits /\ HeaderUnits \in 0..SectorUnits
  BY UnitsAssumption
<1>2. CASE h.cur = NoSector
  BY <1>1, <1>2 DEF Extend, Handle
<1>3. CASE h.cur # NoSector
  BY <1>1, <1>3 DEF Extend, Handle
<1> QED
  BY <1>2, <1>3

LEMMA AdvanceType ==
  ASSUME NEW h \in Handle, NEW n \in Nat,
         h.off + n <= SectorUnits, h.pos + n <= MaxUnits
  PROVE  [h EXCEPT !.off = @ + n, !.pos = @ + n] \in Handle
<1>1. h.off + n \in 0..SectorUnits /\ h.pos + n \in 0..MaxUnits
  BY UnitsAssumption, BoundsAssumption DEF Handle
<1> QED
  BY <1>1 DEF Handle

LEMMA LenType ==
  ASSUME NEW h, h.total \in Nat
  PROVE  Len(h) \in Nat /\ Len(h) <= h.total
  BY LenModAssumption DEF Len

-----------------------------------------------------------------------------
(* Each call keeps the types. *)

\* TypeOK, strengthened, in the parts that a step disturbs together.
MediaOK == table \in Tabs /\ hdr \in Headers /\ data \in [Sectors -> Block]
RamOK == fat \in Fats /\ strm \in [Streams -> GoodHandle]
RestOK ==
  /\ mounted \in BOOLEAN
  /\ lastError \in {"OK", "IO", "OTHER"}
  /\ ret \in Results
  /\ session \in Sessions
  /\ trap \subseteq {"device_range", "fat_index"}

TypeInv == MediaOK /\ RamOK /\ RestOK

LEMMA Parts == TypeInv => TypeOK
<1>1. RamOK => fat \in Fats /\ strm \in [Streams -> Handle]
  BY DEF RamOK, GoodHandle
<1> QED
  BY <1>1 DEF TypeInv, TypeOK, MediaOK, RestOK, Tabs, Headers, Block

LEMMA InitTypes == Init => TypeInv
<1> SUFFICES ASSUME Init
             PROVE  TypeInv
  OBVIOUS
<1>1. MediaOK
  BY DEF Init, MediaOK, Tabs, Headers, Block
<1>2. RamOK
  BY BlankFatType, NoHandleType DEF Init, RamOK
<1>3. session \in Sessions
  BY BoundsAssumption DEF Init, Sessions
<1>4. mounted \in BOOLEAN
  BY DEF Init
<1>5. RestOK
  BY <1>3, <1>4 DEF Init, RestOK, Results
<1> QED
  BY <1>1, <1>2, <1>5 DEF TypeInv

LEMMA ResetTypes ==
  ASSUME RestOK, Reset
  PROVE  RamOK' /\ RestOK'
<1>1. RamOK'
  BY BlankFatType, NoHandleType DEF Reset, RamOK
<1>2. mounted' \in BOOLEAN
  BY DEF Reset
<1>3. RestOK'
  BY <1>2 DEF Reset, RestOK, Results
<1> QED
  BY <1>1, <1>3

LEMMA LoadedType ==
  ASSUME MediaOK
  PROVE  Loaded \in Fats \cup {Bad}
  BY DEF MediaOK, Tabs, Loaded, Loadable

LEMMA ForgetType ==
  ASSUME RamOK, Forget
  PROVE  strm' \in [Streams -> GoodHandle]
  BY NoHandleType DEF RamOK, Forget

LEMMA MountTypes ==
  ASSUME MediaOK, RamOK, RestOK, ufat_mount
  PROVE  MediaOK' /\ RamOK' /\ RestOK'
<1>1. CASE mountReadFails
  <2>1. MediaOK'
    BY <1>1, LoadedType, CopiesType DEF mountReadFails, ReadFailed, Loaded, MediaOK, Both
  <2>2. RamOK'
    BY <1>1, LoadedType, ForgetType DEF mountReadFails, RamOK
  <2>3. mounted' \in BOOLEAN
    BY <1>1 DEF mountReadFails, RestOK
  <2>4. RestOK'
    BY <1>1, <2>3 DEF mountReadFails, ReadFails, RestOK, Results
  <2> QED
    BY <2>1, <2>2, <2>4
<1>2. CASE mountEmpty
  <2>1. MediaOK' /\ RamOK'
    BY <1>2, ForgetType DEF mountEmpty, MediaOK, RamOK, media
  <2>2. mounted' \in BOOLEAN
    BY <1>2 DEF mountEmpty, RestOK
  <2>3. RestOK'
    BY <1>2, <2>2 DEF mountEmpty, RestOK, Results
  <2> QED
    BY <2>1, <2>3
<1>3. CASE mountCopyFails
  <2>1. PICK x \in {table[0], table[1], Bad} :
          table' = [table EXCEPT ![IF table[0] # Bad THEN 1 ELSE 0] = x]
    BY <1>3 DEF Repaired, mountCopyFails, CopyFailed
  <2>2. MediaOK'
    BY <1>3, <2>1 DEF Repaired, mountCopyFails, MediaOK, Tabs
  <2>3. CASE Reset
    BY <2>2, <2>3, ResetTypes
  <2>4. CASE lastError' = "IO" /\ ret' = "IO" /\ Forget
               /\ UNCHANGED <<fat, mounted, session, trap>>
    <3>1. RamOK'
      BY <2>4, ForgetType DEF RamOK
    <3>2. mounted' \in BOOLEAN
      BY <2>4 DEF RestOK
    <3>3. RestOK'
      BY <2>4, <3>2 DEF RestOK, Results
    <3> QED
      BY <2>2, <3>1, <3>3
  <2> QED
    BY <1>3, <2>3, <2>4 DEF Repaired, mountCopyFails
<1>4. CASE mountDone
  <2>1. Loaded \in Fats /\ Scanned \in Fats /\ Both(Loaded) \in Tabs
    BY <1>4, LoadedType, ScanTableType, CopiesType DEF mountDone, Scanned, Both
  <2>2. PICK o \in IF Scanned = Loaded THEN [tab : {Both(Loaded)}, res : {"OK"}]
                   ELSE CommitOutcomes(Both(Loaded), Scanned) :
          /\ table' = o.tab
          /\ IF o.res = "dead" THEN Reset
             ELSE /\ fat' = Scanned
                  /\ mounted' = TRUE
                  /\ lastError' = "OK"
                  /\ ret' = "OK"
                  /\ Forget
                  /\ UNCHANGED <<session, trap>>
    BY <1>4 DEF mountDone, LoadOutcomes, Loaded
  <2>3. o.tab \in Tabs
    BY <2>1, <2>2, CommitOutcomesType
  <2>4. MediaOK'
    BY <1>4, <2>2, <2>3 DEF mountDone, MediaOK
  <2>5. CASE o.res = "dead"
    BY <2>2, <2>4, <2>5, ResetTypes
  <2>6. CASE o.res # "dead"
    <3>1. RamOK'
      BY <2>1, <2>2, <2>6, ForgetType DEF RamOK
    <3>2. mounted' \in BOOLEAN
      BY <2>2, <2>6
    <3>3. RestOK'
      BY <2>2, <2>6, <3>2 DEF RestOK, Results
    <3> QED
      BY <2>4, <3>1, <3>3
  <2> QED
    BY <2>5, <2>6
<1> QED
  BY <1>1, <1>2, <1>3, <1>4 DEF ufat_mount

LEMMA FormatTypes ==
  ASSUME MediaOK, RamOK, RestOK, ufat_format
  PROVE  MediaOK' /\ RamOK' /\ RestOK'
<1>1. PICK o \in CommitOutcomes(table, BlankFat) :
        /\ table' = o.tab
        /\ IF o.res = "dead" THEN Reset
           ELSE /\ fat' = BlankFat
                /\ ret' = o.res
                /\ UNCHANGED <<mounted, lastError, strm, session, trap>>
  BY DEF ufat_format
<1>2. o.tab \in Tabs /\ o.res \in {"OK", "IO", "dead"}
  BY BlankFatType, CommitOutcomesType DEF MediaOK
<1>3. MediaOK'
  BY <1>1, <1>2 DEF ufat_format, MediaOK
<1>4. CASE o.res = "dead"
  BY <1>1, <1>3, <1>4, ResetTypes
<1>5. CASE o.res # "dead"
  <2>1. RamOK'
    BY <1>1, <1>5, BlankFatType DEF RamOK
  <2>2. mounted' \in BOOLEAN
    BY <1>1, <1>5 DEF RestOK
  <2>3. RestOK'
    BY <1>1, <1>2, <1>5, <2>2 DEF RestOK, Results
  <2> QED
    BY <1>3, <2>1, <2>3
<1> QED
  BY <1>4, <1>5

\* The handles ufat_fopen makes.
LEMMA OpenedType ==
  ASSUME MediaOK, RestOK, NEW n \in Names
  PROVE  /\ \A s \in Search(n) :
              [NoHandle EXCEPT !.mode = "r", !.name = n, !.ver = hdr[s].ver,
                               !.total = hdr[s].total, !.start = s, !.cur = s,
                               !.off = HeaderUnits] \in GoodHandle
         /\ session < MaxSessions =>
              \A old \in Search(n) \cup {NoSector} :
                [NoHandle EXCEPT !.mode = "w", !.name = n, !.ver = session + 1,
                                 !.old = old] \in GoodHandle
<1>1. ASSUME NEW s \in Search(n)
      PROVE  s \in Sectors /\ hdr[s] \in Header
  BY DEF Search, fileSearch, Matches, MediaOK, Headers
<1>2. HeaderUnits \in 0..SectorUnits
  BY UnitsAssumption
<1>3. ASSUME session < MaxSessions
      PROVE  session + 1 \in Sessions
  BY <1>3, BoundsAssumption DEF RestOK, Sessions
<1>4. ASSUME NEW s \in Search(n)
      PROVE  [NoHandle EXCEPT !.mode = "r", !.name = n, !.ver = hdr[s].ver,
                              !.total = hdr[s].total, !.start = s, !.cur = s,
                              !.off = HeaderUnits] \in GoodHandle
  <2>1. hdr[s].ver \in Sessions /\ hdr[s].total \in 0..MaxUnits
    BY <1>1 DEF Header
  <2> QED
    BY <1>1, <1>2, <2>1, NoHandleType DEF Handle, GoodHandle
<1>5. ASSUME session < MaxSessions, NEW old \in Search(n) \cup {NoSector}
      PROVE  [NoHandle EXCEPT !.mode = "w", !.name = n, !.ver = session + 1,
                              !.old = old] \in GoodHandle
  BY <1>1, <1>3, <1>5, NoHandleType DEF Handle, GoodHandle
<1> QED
  BY <1>4, <1>5

LEMMA OpenTypes ==
  ASSUME MediaOK, RamOK, RestOK, NEW f \in Streams,
         \/ fopenNameTooLong(f) \/ fopenUnsupported(f)
         \/ \E n \in Names : fopenRead(f, n) \/ fopenWrite(f, n)
  PROVE  MediaOK' /\ RamOK' /\ RestOK'
<1>1. CASE fopenNameTooLong(f)
  <2>1. mounted' \in BOOLEAN
    BY <1>1 DEF fopenNameTooLong, RestOK
  <2> QED
    BY <1>1, <2>1, NoHandleType
    DEF fopenNameTooLong, MediaOK, RamOK, RestOK, Results, media
<1>2. CASE fopenUnsupported(f)
  <2>1. mounted' \in BOOLEAN
    BY <1>2 DEF fopenUnsupported, RestOK
  <2> QED
    BY <1>2, <2>1 DEF fopenUnsupported, MediaOK, RamOK, RestOK, Results, media
<1>3. ASSUME NEW n \in Names, fopenRead(f, n)
      PROVE  MediaOK' /\ RamOK' /\ RestOK'
  <2>1. MediaOK'
    BY <1>3 DEF fopenRead, MediaOK, media
  <2>2. PICK h \in GoodHandle : strm' = [strm EXCEPT ![f] = h]
    BY <1>3, NoHandleType, OpenedType DEF fopenRead
  <2>3. RamOK'
    BY <1>3, <2>2 DEF fopenRead, RamOK
  <2>4. mounted' \in BOOLEAN
    BY <1>3 DEF fopenRead, RestOK
  <2>5. RestOK'
    BY <1>3, <2>4 DEF fopenRead, ReadFails, RestOK, Results
  <2> QED
    BY <2>1, <2>3, <2>5
<1>4. ASSUME NEW n \in Names, fopenWrite(f, n)
      PROVE  MediaOK' /\ RamOK' /\ RestOK'
  <2>1. MediaOK'
    BY <1>4 DEF fopenWrite, MediaOK, media
  <2>2. PICK old \in Search(n) \cup {NoSector} : OpensWriter(f, n, old)
    BY <1>4 DEF fopenWrite
  <2>3. RamOK'
    BY <1>4, <2>2, OpenedType DEF fopenWrite, OpensWriter, RamOK
  <2>4. mounted' \in BOOLEAN
    BY <1>4 DEF fopenWrite, RestOK
  <2>5. session' \in Sessions
    BY <1>4, BoundsAssumption DEF fopenWrite, RestOK, Sessions
  <2>6. RestOK'
    BY <1>4, <2>4, <2>5 DEF fopenWrite, ReadFails, RestOK, Results
  <2> QED
    BY <2>1, <2>3, <2>6
<1> QED
  BY <1>1, <1>2, <1>3, <1>4

LEMMA WriteTypes ==
  ASSUME MediaOK, RamOK, RestOK, NEW f \in Streams, ufat_fwrite(f)
  PROVE  MediaOK' /\ RamOK' /\ RestOK'
<1>1. CASE fwriteFull(f)
  <2>1. MediaOK'
    BY <1>1 DEF fwriteFull, MediaOK, media
  <2>2. [strm[f] EXCEPT !.err = TRUE,
                        !.cur = IF @ = NoSector THEN FullSector ELSE @] \in GoodHandle
    BY <1>1 DEF fwriteFull, Writes, RamOK, Handle, GoodHandle
  <2>3. RamOK'
    BY <1>1, <2>2 DEF fwriteFull, RamOK
  <2>4. mounted' \in BOOLEAN
    BY <1>1 DEF fwriteFull, RestOK
  <2>5. RestOK'
    BY <1>1, <2>4 DEF fwriteFull, RestOK, Results
  <2> QED
    BY <2>1, <2>3, <2>5
<1>2. CASE fwrite(f)
  <2> DEFINE h(s) == IF NeedsSector(strm[f]) THEN Extend(strm[f], s) ELSE strm[f]
             linked(s) == IF NeedsSector(strm[f]) THEN Link(fat, strm[f], s) ELSE fat
  <2>1. PICK s \in IF NeedsSector(strm[f]) THEN findEmptySector(fat) ELSE {strm[f].cur},
             n \in 1..SectorUnits :
          /\ h(s).off + n <= SectorUnits
          /\ h(s).pos + n <= MaxUnits
          /\ \/ /\ Store(h(s), Put(h(s), n))
                /\ fat' = linked(s)
                /\ strm' = [strm EXCEPT ![f] = [h(s) EXCEPT !.off = @ + n, !.pos = @ + n]]
                /\ ret' = "OK"
                /\ UNCHANGED <<mounted, lastError, session, trap>>
             \/ /\ "transient" \in Faults
                /\ StoreTorn(h(s), n)
                /\ fat' = linked(s)
                /\ strm' = [strm EXCEPT ![f] = h(s)]
                /\ lastError' = "IO"
                /\ ret' = "IO"
                /\ UNCHANGED <<mounted, session, trap>>
             \/ /\ "power" \in Faults
                /\ StoreTorn(h(s), n)
                /\ Reset
    BY <1>2 DEF fwrite, fwritePass
  <2>2. strm[f] \in Handle /\ strm[f].mode = "w" /\ strm[f].name \in Names
    BY <1>2 DEF fwrite, fwritePass, Writes, RamOK, GoodHandle
  <2>3. n \in Nat
    BY UnitsAssumption
  <2>4. s \in Sectors
    BY <1>2, <2>1, <2>2 DEF fwrite, fwritePass, NeedsSector, findEmptySector, Handle
  <2>5. h(s) \in Handle /\ h(s).cur \in Sectors /\ h(s) \in GoodHandle
    <3>1. h(s) \in Handle /\ h(s).cur \in Sectors
      BY <2>1, <2>2, <2>4, ExtendType
    <3>2. h(s).name \in Names
      BY <2>2 DEF Extend, Handle
    <3> QED
      BY <3>1, <3>2 DEF GoodHandle
  <2>6. linked(s) \in Fats
    BY <2>2, <2>4, LinkType DEF RamOK
  <2>7. Put(h(s), n) \in Block /\ Smear(h(s), n) \in Block
    BY <2>1, <2>3, <2>5, PutType DEF MediaOK
  <2>8. [h(s) EXCEPT !.off = @ + n, !.pos = @ + n] \in GoodHandle
    <3>1. [h(s) EXCEPT !.off = @ + n, !.pos = @ + n] \in Handle
      BY <2>1, <2>3, <2>5, AdvanceType
    <3> QED
      BY <2>5, <3>1 DEF GoodHandle, Handle
  <2> HIDE DEF h, linked
  <2>9. hdr' \in Headers /\ data' \in [Sectors -> Block]
    BY <2>1, <2>5, <2>7, StoreType DEF StoreTorn, MediaOK
  <2>10. MediaOK'
    BY <1>2, <2>9 DEF fwrite, fwritePass, MediaOK
  <2>11. CASE Reset
    BY <2>10, <2>11, ResetTypes
  <2>12. CASE ~Reset
    <3>1. RamOK'
      BY <2>1, <2>5, <2>6, <2>8, <2>12 DEF RamOK
    <3>2. mounted' \in BOOLEAN
      BY <2>1, <2>12 DEF RestOK
    <3>3. RestOK'
      BY <2>1, <2>12, <3>2 DEF RestOK, Results
    <3> QED
      BY <2>10, <3>1, <3>3
  <2> QED
    BY <2>11, <2>12
<1>3. CASE fwriteOutside(f)
  <2>1. MediaOK' /\ RamOK'
    BY <1>3 DEF fwriteOutside, MediaOK, RamOK, media
  <2>2. mounted' \in BOOLEAN
    BY <1>3 DEF fwriteOutside, RestOK
  <2>3. RestOK'
    BY <1>3, <2>2 DEF fwriteOutside, RestOK, Results
  <2> QED
    BY <2>1, <2>3
<1> QED
  BY <1>1, <1>2, <1>3 DEF ufat_fwrite

LEMMA RetireType ==
  ASSUME RamOK, NEW f \in Streams, Retire(f)
  PROVE  strm' \in [Streams -> GoodHandle]
  BY NoHandleType DEF RamOK, Retire

LEMMA FileHeaderType ==
  ASSUME NEW h \in Handle, h.mode = "w", h.name \in Names
  PROVE  FileHeader(h) \in Header
  BY DEF FileHeader, Handle, Header

LEMMA CloseTypes ==
  ASSUME MediaOK, RamOK, RestOK, NEW f \in Streams, ufat_fclose(f)
  PROVE  MediaOK' /\ RamOK' /\ RestOK'
<1>1. CASE fcloseUnopened(f)
  <2>1. MediaOK' /\ RamOK'
    BY <1>1 DEF fcloseUnopened, MediaOK, RamOK, media
  <2>2. mounted' \in BOOLEAN
    BY <1>1 DEF fcloseUnopened, RestOK
  <2>3. RestOK'
    BY <1>1, <2>2 DEF fcloseUnopened, RestOK, Results
  <2> QED
    BY <2>1, <2>3
<1>2. CASE fcloseReader(f)
  <2>1. MediaOK' /\ RamOK'
    BY <1>2, RetireType DEF fcloseReader, MediaOK, RamOK, media
  <2>2. mounted' \in BOOLEAN
    BY <1>2 DEF fcloseReader, RestOK
  <2>3. RestOK'
    BY <1>2, <2>2 DEF fcloseReader, RestOK, Results
  <2> QED
    BY <2>1, <2>3
<1>3. CASE fcloseErrored(f)
  <2>1. fat' \in Fats
    BY <1>3, FreeChainType DEF fcloseErrored, RamOK
  <2>2. MediaOK' /\ RamOK'
    BY <1>3, <2>1, RetireType DEF fcloseErrored, MediaOK, RamOK, media
  <2>3. mounted' \in BOOLEAN
    BY <1>3 DEF fcloseErrored, RestOK
  <2>4. RestOK'
    BY <1>3, <2>3 DEF fcloseErrored, RestOK, Results
  <2> QED
    BY <2>2, <2>4
<1> DEFINE start == strm[f].start
           header == FileHeader(strm[f])
<1>4. ASSUME Closes(f), start # NoSector
      PROVE  start \in Sectors /\ header \in Header
  <2>1. strm[f] \in Handle /\ strm[f].mode = "w" /\ strm[f].name \in Names
    BY <1>4 DEF Closes, RamOK, GoodHandle
  <2> QED
    BY <1>4, <2>1, FileHeaderType DEF Handle
<1>5. CASE fcloseHeaderFails(f)
  <2>1. start \in Sectors /\ header \in Header
    BY <1>4, <1>5 DEF fcloseHeaderFails
  <2>2. PICK x \in TornHeader(hdr[start], header) :
          IF x = hdr[start] THEN UNCHANGED <<hdr, data>> ELSE StoreHeader(start, x)
    BY <1>5 DEF fcloseHeaderFails
  <2>3. hdr[start] \in Header \cup {Junk}
    BY <2>1 DEF MediaOK, Headers
  <2>4. x \in Header \cup {Junk}
    BY <2>1, <2>3, TornHeaderType
  <2>5. MediaOK'
    BY <1>5, <2>1, <2>2, <2>4, StoreHeaderType DEF fcloseHeaderFails, MediaOK
  <2>6. CASE Reset
    BY <2>5, <2>6, ResetTypes
  <2>7. CASE ret' = "IO" /\ Retire(f) /\ UNCHANGED <<fat, mounted, lastError, session, trap>>
    <3>1. RamOK'
      BY <2>7, RetireType DEF RamOK
    <3>2. mounted' \in BOOLEAN
      BY <2>7 DEF RestOK
    <3>3. RestOK'
      BY <2>7, <3>2 DEF RestOK, Results
    <3> QED
      BY <2>5, <3>1, <3>3
  <2> QED
    BY <1>5, <2>6, <2>7 DEF fcloseHeaderFails
<1>6. CASE fcloseCorrupt(f)
  <2>1. start \in Sectors /\ header \in Header
    BY <1>4, <1>6 DEF fcloseCorrupt
  <2>2. MediaOK'
    BY <1>6, <2>1, StoreHeaderType DEF fcloseCorrupt, MediaOK
  <2>3. RamOK'
    BY <1>6, MarkWrittenType, RetireType DEF fcloseCorrupt, RamOK
  <2>4. mounted' \in BOOLEAN
    BY <1>6 DEF fcloseCorrupt, RestOK
  <2>5. RestOK'
    BY <1>6, <2>4 DEF fcloseCorrupt, RestOK, Results
  <2> QED
    BY <2>2, <2>3, <2>5
<1>7. CASE fclose(f)
  <2>1. hdr' \in Headers /\ data' \in [Sectors -> Block]
    BY <1>4, <1>7, StoreHeaderType DEF fclose, MediaOK
  <2>2. Replace(strm[f]) \in Fats
    BY ReplaceType DEF RamOK
  <2>3. PICK o \in CommitOutcomes(table, Replace(strm[f])) :
          /\ table' = o.tab
          /\ IF o.res = "dead" THEN Reset
             ELSE /\ fat' = Replace(strm[f])
                  /\ Retire(f)
                  /\ ret' = o.res
                  /\ UNCHANGED <<mounted, lastError, session, trap>>
    BY <1>7 DEF fclose
  <2>4. o.tab \in Tabs /\ o.res \in {"OK", "IO", "dead"}
    BY <2>2, CommitOutcomesType DEF MediaOK
  <2>5. MediaOK'
    BY <2>1, <2>3, <2>4 DEF MediaOK
  <2>6. CASE o.res = "dead"
    BY <2>3, <2>5, <2>6, ResetTypes
  <2>7. CASE o.res # "dead"
    <3>1. RamOK'
      BY <2>2, <2>3, <2>7, RetireType DEF RamOK
    <3>2. mounted' \in BOOLEAN
      BY <2>3, <2>7 DEF RestOK
    <3>3. RestOK'
      BY <2>3, <2>4, <2>7, <3>2 DEF RestOK, Results
    <3> QED
      BY <2>5, <3>1, <3>3
  <2> QED
    BY <2>6, <2>7
<1> QED
  BY <1>1, <1>2, <1>3, <1>5, <1>6, <1>7 DEF ufat_fclose

\* A pass of ufat_fread stays within the length, and so within the bound.
LEMMA ReadTypes ==
  ASSUME MediaOK, RamOK, RestOK, NEW f \in Streams, ufat_fread(f)
  PROVE  MediaOK' /\ RamOK' /\ RestOK'
<1> DEFINE h == strm[f]
<1>1. ASSUME NEW g
      PROVE  Verdict(g) \in Results
  BY DEF Verdict, Results
<1>2. CASE freadNothing(f)
  <2>1. MediaOK' /\ RamOK'
    BY <1>2 DEF freadNothing, MediaOK, RamOK, media
  <2>2. ret' \in Results
    BY <1>1, <1>2 DEF freadNothing, Results
  <2>3. mounted' \in BOOLEAN
    BY <1>2 DEF freadNothing, RestOK
  <2>4. RestOK'
    BY <1>2, <2>2, <2>3 DEF freadNothing, RestOK
  <2> QED
    BY <2>1, <2>4
<1>3. CASE fread(f)
  <2> DEFINE s == IF h.off = SectorUnits THEN fat[h.cur].next ELSE h.cur
             off == IF h.off = SectorUnits THEN 0 ELSE h.off
             good(n) == \A i \in 1..n : data[s][off + i - 1] = <<h.ver, h.pos + i>>
             after(n) == [h EXCEPT !.cur = s, !.off = off + n, !.pos = @ + n,
                                   !.sound = @ /\ good(n)]
  <2>1. h \in Handle /\ h.mode = "r" /\ h.cur \in Sectors /\ h.name \in Names
    BY <1>3 DEF fread, Reads, RamOK, GoodHandle
  <2>2. s \in Sectors
    <3>1. s # EOF
      BY <1>3 DEF fread
    <3>2. fat[h.cur].next \in Sectors \cup {EOF}
      BY <2>1 DEF RamOK, Fats, Entry
    <3> QED
      BY <2>1, <3>1, <3>2
  <2>3. off \in 0..SectorUnits
    BY <2>1, UnitsAssumption DEF Handle
  <2>4. ASSUME NEW n \in 1..SectorUnits, off + n <= SectorUnits, h.pos + n <= Len(h)
        PROVE  after(n) \in GoodHandle
    <3>1. h.total \in 0..MaxUnits /\ h.pos \in 0..MaxUnits
      BY <2>1 DEF Handle
    <3>2. Len(h) \in Nat /\ Len(h) <= h.total
      BY <3>1, LenType, BoundsAssumption
    <3>3. h.pos + n \in 0..MaxUnits
      BY <2>4, <3>1, <3>2, BoundsAssumption, UnitsAssumption
    <3>4. off + n \in 0..SectorUnits
      BY <2>3, <2>4, UnitsAssumption
    <3>5. (h.sound /\ good(n)) \in BOOLEAN
      OBVIOUS
    <3> HIDE DEF s, off, good
    <3>6. after(n) \in Handle
      BY <2>1, <2>2, <3>3, <3>4, <3>5 DEF Handle
    <3>7. after(n).mode = "r" /\ after(n).name = h.name /\ after(n).cur = s
      BY <2>1 DEF Handle
    <3> QED
      BY <2>1, <2>2, <3>6, <3>7 DEF GoodHandle
  <2>5. [h EXCEPT !.cur = s, !.off = off] \in GoodHandle
    <3> HIDE DEF s, off
    <3> QED
      BY <2>1, <2>2, <2>3 DEF Handle, GoodHandle
  <2>6. PICK g \in GoodHandle : strm' = [strm EXCEPT ![f] = g]
    BY <1>3, <2>4, <2>5 DEF fread
  <2>7. MediaOK'
    BY <1>3 DEF fread, MediaOK, media
  <2>8. RamOK'
    BY <1>3, <2>6 DEF fread, RamOK
  <2>9. ret' \in Results /\ lastError' \in {"OK", "IO", "OTHER"}
    BY <1>1, <1>3 DEF fread, ReadFails, RestOK, Results
  <2>10. mounted' \in BOOLEAN
    BY <1>3 DEF fread, RestOK
  <2>11. RestOK'
    BY <1>3, <2>9, <2>10 DEF fread, RestOK
  <2> QED
    BY <2>7, <2>8, <2>11
<1> QED
  BY <1>2, <1>3 DEF ufat_fread

LEMMA RemoveTypes ==
  ASSUME MediaOK, RamOK, RestOK, NEW n \in Names, ufat_remove(n)
  PROVE  MediaOK' /\ RamOK' /\ RestOK'
<1>1. CASE removeAbsent(n)
  <2>1. MediaOK' /\ RamOK'
    BY <1>1 DEF removeAbsent, MediaOK, RamOK, media
  <2>2. mounted' \in BOOLEAN
    BY <1>1 DEF removeAbsent, RestOK
  <2>3. RestOK'
    BY <1>1, <2>2 DEF removeAbsent, RestOK, Results
  <2> QED
    BY <2>1, <2>3
<1>2. CASE removeFound(n)
  <2>1. PICK s \in Search(n) : \E o \in CommitOutcomes(table, FreeChain(fat, s)) :
          /\ table' = o.tab
          /\ IF o.res = "dead" THEN Reset
             ELSE /\ fat' = FreeChain(fat, s)
                  /\ ret' = o.res
                  /\ UNCHANGED <<mounted, lastError, strm, session, trap>>
    BY <1>2 DEF removeFound
  <2>2. FreeChain(fat, s) \in Fats
    BY FreeChainType DEF RamOK
  <2>3. PICK o \in CommitOutcomes(table, FreeChain(fat, s)) :
          /\ table' = o.tab
          /\ IF o.res = "dead" THEN Reset
             ELSE /\ fat' = FreeChain(fat, s)
                  /\ ret' = o.res
                  /\ UNCHANGED <<mounted, lastError, strm, session, trap>>
    BY <2>1
  <2>4. o.tab \in Tabs /\ o.res \in {"OK", "IO", "dead"}
    BY <2>2, CommitOutcomesType DEF MediaOK
  <2>5. MediaOK'
    BY <1>2, <2>3, <2>4 DEF removeFound, MediaOK
  <2>6. CASE o.res = "dead"
    BY <2>3, <2>5, <2>6, ResetTypes
  <2>7. CASE o.res # "dead"
    <3>1. RamOK'
      BY <2>2, <2>3, <2>7 DEF RamOK
    <3>2. mounted' \in BOOLEAN
      BY <2>3, <2>7 DEF RestOK
    <3>3. RestOK'
      BY <2>3, <2>4, <2>7, <3>2 DEF RestOK, Results
    <3> QED
      BY <2>5, <3>1, <3>3
  <2> QED
    BY <2>6, <2>7
<1>3. CASE removeSearchFails
  <2>1. MediaOK' /\ RamOK'
    BY <1>3, FreeChainType DEF removeSearchFails, MediaOK, RamOK, media
  <2>2. mounted' \in BOOLEAN
    BY <1>3 DEF removeSearchFails, RestOK
  <2>3. RestOK'
    BY <1>3, <2>2 DEF removeSearchFails, RestOK, Results
  <2> QED
    BY <2>1, <2>3
<1> QED
  BY <1>1, <1>2, <1>3 DEF ufat_remove

LEMMA ExistsTypes ==
  ASSUME MediaOK, RamOK, RestOK, NEW n \in Names, ufat_exists(n)
  PROVE  MediaOK' /\ RamOK' /\ RestOK'
<1>1. MediaOK' /\ RamOK'
  BY DEF ufat_exists, MediaOK, RamOK, media
<1>2. mounted' \in BOOLEAN
  BY DEF ufat_exists, RestOK
<1>3. RestOK'
  BY <1>2 DEF ufat_exists, ReadFails, RestOK, Results
<1> QED
  BY <1>1, <1>3

LEMMA InfoTypes ==
  ASSUME MediaOK, RamOK, RestOK, ufat_fsinfo
  PROVE  MediaOK' /\ RamOK' /\ RestOK'
<1>1. MediaOK' /\ RamOK'
  BY DEF ufat_fsinfo, MediaOK, RamOK, media
<1>2. mounted' \in BOOLEAN
  BY DEF ufat_fsinfo, RestOK
<1>3. RestOK'
  BY <1>2 DEF ufat_fsinfo, RestOK, Results
<1> QED
  BY <1>1, <1>3

LEMMA StepTypes == TypeInv /\ [Next]_vars => TypeInv'
<1> SUFFICES ASSUME MediaOK, RamOK, RestOK, [Next]_vars
             PROVE  MediaOK' /\ RamOK' /\ RestOK'
  BY DEF TypeInv
<1>1. CASE PowerLoss
  <2>1. MediaOK'
    BY <1>1 DEF PowerLoss, MediaOK, media
  <2> QED
    BY <1>1, <2>1, ResetTypes DEF PowerLoss
<1>2. CASE Latched
  <2>1. MediaOK' /\ RamOK'
    BY <1>2 DEF Latched, MediaOK, RamOK, media
  <2>2. mounted' \in BOOLEAN
    BY <1>2 DEF Latched, RestOK
  <2>3. RestOK'
    BY <1>2, <2>2 DEF Latched, RestOK, Results
  <2> QED
    BY <2>1, <2>3
<1>3. CASE UNCHANGED vars
  <2>1. MediaOK' /\ RamOK'
    BY <1>3 DEF vars, MediaOK, RamOK
  <2>2. mounted' \in BOOLEAN
    BY <1>3 DEF vars, RestOK
  <2>3. RestOK'
    BY <1>3, <2>2 DEF vars, RestOK
  <2> QED
    BY <2>1, <2>3
<1> QED
  BY <1>1, <1>2, <1>3, MountTypes, FormatTypes, OpenTypes, WriteTypes, CloseTypes,
     ReadTypes, RemoveTypes, ExistsTypes, InfoTypes
  DEF Next

\* Every variable keeps its type, whatever the device and the caller do: chains
\* never leave the data sectors, handles never point outside them except by
\* the stored UFAT_ERR_FULL, and no length exceeds what was written.
THEOREM TypesCorrect == Spec => []TypeOK
<1>1. Spec => []TypeInv
  BY InitTypes, StepTypes, PTL DEF Spec
<1> QED
  BY <1>1, Parts, PTL

-----------------------------------------------------------------------------
(* The latch. *)

LEMMA EnterBlocked == lastError = "IO" => ~Enter
  BY DEF Enter

LEMMA StepInert ==
  ASSUME Next, lastError = "IO"
  PROVE  UNCHANGED media \/ ufat_mount \/ ufat_format
<1>1. CASE PowerLoss \/ Latched \/ ufat_fsinfo
  BY <1>1 DEF PowerLoss, Latched, ufat_fsinfo
<1>2. ASSUME NEW f \in Streams,
             \/ fopenNameTooLong(f) \/ fopenUnsupported(f)
             \/ \E n \in Names : fopenRead(f, n) \/ fopenWrite(f, n)
      PROVE  FALSE
  BY <1>2, EnterBlocked DEF fopenNameTooLong, fopenUnsupported, fopenRead, fopenWrite, Opens
<1>3. ASSUME NEW f \in Streams, ufat_fwrite(f) \/ ufat_fread(f)
      PROVE  FALSE
  BY <1>3, EnterBlocked
  DEF ufat_fwrite, fwriteFull, fwrite, fwritePass, fwriteOutside, Writes,
      ufat_fread, freadNothing, fread, Reads
<1>4. ASSUME NEW f \in Streams, ufat_fclose(f)
      PROVE  FALSE
  BY <1>4, EnterBlocked
  DEF ufat_fclose, fcloseUnopened, fcloseReader, fcloseErrored,
      fcloseHeaderFails, fcloseCorrupt, fclose, Closes
<1>5. ASSUME NEW n \in Names, ufat_remove(n) \/ ufat_exists(n)
      PROVE  FALSE
  BY <1>5, EnterBlocked DEF ufat_remove, ufat_exists
<1> QED
  BY <1>1, <1>2, <1>3, <1>4, <1>5 DEF Next

\* Once an I/O error is latched nothing but ufat_mount and ufat_format touches
\* the media, whatever handles the caller uses and in whatever order.
THEOREM LatchHolds == Spec => LatchedIsInert
<1>1. [Next]_vars => [lastError = "IO" => UNCHANGED media \/ ufat_mount \/ ufat_format]_vars
  BY StepInert
<1> QED
  BY <1>1, PTL DEF Spec, LatchedIsInert
=============================================================================

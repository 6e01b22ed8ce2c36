-------------------------- MODULE TableLoops_proofs --------------------------
(***************************************************************************)
(* The loops over the allocation table compute what module Fat says, for a *)
(* volume of any size and any table.                                       *)
(***************************************************************************)
EXTENDS TableLoops, Fat_proofs, FiniteSetTheorems

USE DEF UFAT_TABLE_COUNT

LEMMA Geometry ==
  /\ First \in Nat /\ First >= 6 /\ First < sectors /\ sectors \in Nat
  /\ Sectors = First..sectors - 1 /\ Sectors \subseteq All
  /\ EOF \in Nat /\ sectors < EOF /\ EOF \notin Sectors
  BY GeometryAssumption DEF First, All

-----------------------------------------------------------------------------
(* The inductive invariant: what each loop has done when it is about to make *)
(* its next pass.                                                            *)

\* Entries left behind lead to other entries left behind, or to the current one.
FreeLoop ==
  LET D == Data(before)
  IN  /\ visited \subseteq Chain(D, start) /\ current \in Chain(D, start)
      /\ start \in visited \cup {current}
      /\ \A x \in visited : before[x].next \in visited \cup {EOF, current}
      /\ fat = [x \in All |-> IF x \in visited THEN FreeEntry ELSE before[x]]
      /\ next = IF current \in visited THEN EOF ELSE before[current].next
      /\ current \notin visited => limit + Cardinality(visited) = sectors

\* The limit counts the entries marked, until the chain turns out to be a circle.
CommitLoop ==
  LET D == Data(before)
  IN  /\ visited \subseteq Chain(D, start)
      /\ start \in visited /\ current \in visited
      /\ \A x \in visited \ {current} : before[x].next \in visited
      /\ fat = [x \in All |-> IF x \in visited THEN [before[x] EXCEPT !.written = TRUE]
                                               ELSE before[x]]
      /\ next = before[current].next
      /\ next \in visited \/ limit + Cardinality(visited) = sectors + 1

\* No sector is available where the search has been.
FindLoop ==
  /\ fat = before /\ next \in All /\ next >= 3
  /\ pc = "loop" => next <= current /\ \A x \in next..current - 1 : ~before[x].available
  /\ pc = "wrapped" =>
       /\ First <= current /\ current < next
       /\ \A x \in next..sectors - 1 : ~before[x].available
       /\ \A x \in First..current - 1 : ~before[x].available

SearchLoop ==
  /\ current \in Sectors /\ fat = before
  /\ \A x \in First..current - 1 : ~(before[x].sof /\ x \in header)

ScanLoop ==
  /\ current \in Sectors
  /\ \A x \in Sectors : fat[x] = IF x < current THEN scanTable(Data(before))[x] ELSE before[x]

Looping == pc \in {"loop", "wrapped"}

IInv ==
  /\ TypeOK
  /\ \A x \in All \ Sectors : before[x] = ZeroEntry
  /\ pc = "call" => fat = before /\ visited = {}
  /\ pc = "wrapped" => call = "find"
  /\ Looping /\ call \in {"free", "commit"} => limit > 0 /\ current >= 2
  /\ Looping /\ call = "free" /\ Undamaged => FreeLoop
  /\ Looping /\ call = "commit" /\ Undamaged => CommitLoop
  /\ Looping /\ call = "find" => FindLoop
  /\ Looping /\ call = "search" => SearchLoop
  /\ Looping /\ call = "scan" => ScanLoop
  /\ FreesChain /\ CommitsChain /\ FindsEmpty /\ ScansAll /\ ChecksumKept

LEMMA EntryTypes ==
  /\ FreeEntry \in AnyEntry /\ ZeroEntry \in AnyEntry
  /\ \A e \in AnyEntry : /\ [e EXCEPT !.written = TRUE] \in AnyEntry
                         /\ [e EXCEPT !.available = TRUE] \in AnyEntry
                         /\ [e EXCEPT !.available = FALSE] \in AnyEntry
<1>1. EOF \in 0..EOF /\ 0 \in 0..EOF
  BY Geometry
<1> QED
  BY <1>1 DEF AnyEntry, FreeEntry, ZeroEntry

LEMMA InitInv == Init => IInv
<1> SUFFICES ASSUME Init PROVE IInv
  OBVIOUS
<1>1. TypeOK
  BY Geometry DEF Init, TypeOK, All, Codes
<1> QED
  BY <1>1 DEF Init, IInv, Looping, FreesChain, CommitsChain, FindsEmpty, ScansAll, ChecksumKept

-----------------------------------------------------------------------------
(* What each step does, one lemma per loop.                                  *)

LEMMA FreeBeginInv == IInv /\ freeBegin => IInv'
<1> SUFFICES ASSUME IInv, freeBegin PROVE IInv'
  OBVIOUS
<1> USE Geometry DEF freeBegin, given
<1>1. TypeOK'
  BY DEF IInv, TypeOK, Table, AnyEntry, All
<1>2. ASSUME Undamaged' PROVE FreeLoop'
  <2>1. start \in Chain(Data(before), start)
    BY ChainStart DEF IInv, TypeOK
  <2>2. fat = [x \in All |-> before[x]]
    BY DEF IInv, TypeOK, Table
  <2>3. limit' + Cardinality({}) = sectors
    BY FS_EmptySet
  <2>4. visited' = {} /\ fat' = before' /\ UNCHANGED <<start, before>>
    BY DEF IInv
  <2>5. current' = start /\ next' = before[start].next
    BY DEF IInv
  <2> QED
    BY <2>1, <2>2, <2>3, <2>4, <2>5 DEF FreeLoop, Data
<1> QED
  BY <1>1, <1>2 DEF IInv, TypeOK, Looping, FreesChain, CommitsChain, FindsEmpty, ScansAll,
                    ChecksumKept, Undamaged

LEMMA SectorsBound ==
  ASSUME NEW V \in SUBSET Sectors
  PROVE  /\ IsFiniteSet(V) /\ Cardinality(V) \in Nat
         /\ Cardinality(V) <= sectors - First
<1>1. IsFiniteSet(Sectors) /\ Cardinality(Sectors) = sectors - First
  BY Geometry, FS_Interval
<1> QED
  BY <1>1, FS_Subset, FS_CardinalityType

\* Of an undamaged table, a link the loop is about to follow is not refused.
LEMMA Links ==
  ASSUME before \in Table, Undamaged, NEW x \in Sectors
  PROVE  before[x].next \in Sectors \cup {EOF}
<1>1. Data(before)[x] = before[x]
  BY DEF Data
<1> QED
  BY <1>1 DEF Undamaged, Fats, Entry

LEMMA FreeStepInv == IInv /\ freeStep => IInv'
<1> SUFFICES ASSUME IInv, freeStep PROVE IInv'
  OBVIOUS
<1> USE Geometry
<1>0. /\ TypeOK /\ pc = "loop" /\ call = "free" /\ limit > 0 /\ current >= 2
      /\ fat' = [fat EXCEPT ![current] = FreeEntry]
      /\ visited' = visited \cup {current}
      /\ UNCHANGED given
  BY DEF IInv, freeStep, Looping
<1>1. fat' \in Table
  BY <1>0, EntryTypes DEF TypeOK, Table
<1>2. ChecksumKept'
  BY <1>0 DEF IInv, ChecksumKept, TypeOK, given, All, Table
<1>3. CASE next = EOF /\ Done("OK", 0)
  <2>1. TypeOK'
    BY <1>0, <1>1, <1>3 DEF TypeOK, Done, given, Codes, All
  <2>2. ASSUME Undamaged'
        PROVE  ret'.code = "OK" /\ Data(fat)' = FreeChain(Data(before), start)
    <3> DEFINE D == Data(before)
    <3>1. FreeLoop /\ Undamaged
      BY <1>0, <2>2 DEF IInv, Looping, Undamaged, given
    <3>2. visited' \in SUBSET Sectors /\ visited' \subseteq Chain(D, start) /\ start \in visited'
      BY <1>0, <3>1, ChainStart DEF FreeLoop, TypeOK
    <3>3. Closed(D, visited')
      BY <1>0, <1>3, <3>1, <3>2 DEF FreeLoop, Closed, Data, TypeOK
    <3>4. visited' = Chain(D, start)
      BY <3>2, <3>3, ChainLeast
    <3>5. \A x \in Sectors : fat'[x] = IF x \in visited' THEN FreeEntry ELSE before[x]
      BY <1>0, <3>1, <3>2 DEF FreeLoop, TypeOK, Table
    <3>6. ret'.code = "OK"
      BY <1>3 DEF Done
    <3> QED
      BY <1>0, <3>4, <3>5, <3>6 DEF FreeChain, Data, given
  <2> QED
    BY <1>0, <1>2, <1>3, <2>1, <2>2
    DEF IInv, Done, Looping, FreesChain, CommitsChain, FindsEmpty, ScansAll, given
<1>4. CASE next # EOF /\ Refused(next) /\ Done("CORRUPT", 0)
  <2>1. TypeOK'
    BY <1>0, <1>1, <1>4 DEF TypeOK, Done, given, Codes, All
  <2>2. ~Undamaged'
    <3> SUFFICES ASSUME Undamaged PROVE FALSE
      BY <1>0 DEF Undamaged, given
    <3>1. FreeLoop
      BY <1>0 DEF IInv, Looping
    <3>2. current \in Sectors /\ next = before[current].next
      BY <1>0, <1>4, <3>1, ChainStart DEF FreeLoop, TypeOK
    <3> QED
      BY <1>0, <1>4, <3>2, Links DEF Refused, TypeOK
  <2> QED
    BY <1>0, <1>2, <1>4, <2>1, <2>2
    DEF IInv, Done, Looping, FreesChain, CommitsChain, FindsEmpty, ScansAll, given
<1>5. CASE next # EOF /\ ~Refused(next) /\ GoOn(fat')
  <2>1. next \in All /\ next >= 2
    BY <1>0, <1>5 DEF Refused, TypeOK, All
  <2>2. TypeOK' /\ pc' \in {"loop", "done"} /\ (pc' = "loop" => limit' > 0) /\ current' >= 2
    <3>1. fat'[next].next \in 0..EOF
      BY <1>1, <2>1 DEF Table, AnyEntry
    <3>2. limit' \in 0..sectors /\ (pc' = "loop" => limit' > 0)
      BY <1>0, <1>5 DEF GoOn, TypeOK
    <3> QED
      BY <1>0, <1>1, <1>5, <2>1, <3>1, <3>2 DEF GoOn, TypeOK, given, Codes, All
  <2>3. ASSUME Undamaged' PROVE FreeLoop' /\ pc' = "loop"
    <3> DEFINE D == Data(before)
    <3>1. FreeLoop /\ Undamaged
      BY <1>0, <2>3 DEF IInv, Looping, Undamaged, given
    <3>2. current \notin visited /\ next = before[current].next
      BY <1>5, <3>1 DEF FreeLoop
    <3>3. current \in Sectors /\ Chain(D, start) \subseteq Sectors
      BY <1>0, <3>1, ChainStart DEF FreeLoop, TypeOK
    <3>4. next \in Sectors
      BY <1>0, <1>5, <3>1, <3>2, <3>3, Links DEF TypeOK
    <3>5. next \in Chain(D, start)
      <4>1. D[current].next = next
        BY <3>2, <3>3 DEF Data
      <4> QED
        BY <3>1, <3>4, <4>1, ChainClosed DEF FreeLoop
    <3>6. visited' \in SUBSET Sectors /\ visited' \subseteq Chain(D, start)
      BY <1>0, <3>1, <3>3 DEF FreeLoop
    <3>7. limit' + Cardinality(visited') = sectors /\ pc' = "loop"
      <4>1. Cardinality(visited') = Cardinality(visited) + 1
        BY <1>0, <3>2, <3>6, SectorsBound, FS_AddElement
      <4>2. Cardinality(visited) \in Nat /\ Cardinality(visited') <= sectors - First
        BY <1>0, <3>6, SectorsBound
      <4>3. limit' = limit - 1 /\ limit \in Nat /\ limit + Cardinality(visited) = sectors
        BY <1>0, <1>5, <3>1, <3>2 DEF GoOn, FreeLoop, TypeOK
      <4>4. limit - 1 >= 1 /\ limit' + Cardinality(visited') = sectors
        BY <4>1, <4>2, <4>3
      <4> QED
        BY <1>5, <4>4 DEF GoOn
    <3>8. fat' = [x \in All |-> IF x \in visited' THEN FreeEntry ELSE before[x]]
      BY <1>0, <3>1 DEF FreeLoop
    <3>9. next' = IF current' \in visited' THEN EOF ELSE before[current'].next
      BY <1>5, <2>1, <3>8 DEF GoOn, FreeEntry
    <3>10. \A x \in visited' : before[x].next \in visited' \cup {EOF, current'}
      BY <1>0, <1>5, <3>1, <3>2 DEF FreeLoop, GoOn
    <3>11. start \in visited' \cup {current'} /\ current' \in Chain(D, start)
      BY <1>0, <1>5, <3>1, <3>5 DEF FreeLoop, GoOn
    <3> QED
      BY <1>0, <3>6, <3>7, <3>8, <3>9, <3>10, <3>11 DEF FreeLoop, Data, given
  <2> QED
    BY <1>0, <1>2, <2>2, <2>3
    DEF IInv, Looping, FreesChain, CommitsChain, FindsEmpty, ScansAll, given
<1> QED
  BY <1>3, <1>4, <1>5 DEF freeStep

LEMMA CommitBeginInv == IInv /\ commitBegin => IInv'
<1> SUFFICES ASSUME IInv, commitBegin PROVE IInv'
  OBVIOUS
<1> USE Geometry DEF commitBegin, given
<1>1. fat' \in Table /\ start \in All /\ start >= 6
  <2>1. start \in Sectors /\ start \in All /\ start >= 6
    BY DEF IInv, TypeOK
  <2>2. [fat[start] EXCEPT !.written = TRUE] \in AnyEntry
    BY <2>1, EntryTypes DEF IInv, TypeOK, Table
  <2> QED
    BY <2>1, <2>2 DEF IInv, TypeOK, Table
<1>2. TypeOK'
  <2>1. fat[start].next \in 0..EOF
    BY <1>1 DEF IInv, TypeOK, Table, AnyEntry
  <2> QED
    BY <1>1, <2>1 DEF IInv, TypeOK, Codes
<1>3. ChecksumKept'
  BY <1>1 DEF IInv, ChecksumKept, TypeOK, Table, All
<1>4. ASSUME Undamaged' PROVE CommitLoop'
  <2>1. start \in Chain(Data(before), start)
    BY ChainStart DEF IInv, TypeOK
  <2>2. limit' + Cardinality({start}) = sectors + 1
    BY FS_Singleton
  <2>3. fat' = [x \in All |-> IF x \in visited' THEN [before[x] EXCEPT !.written = TRUE]
                                               ELSE before[x]]
    BY <1>1 DEF IInv, TypeOK, Table
  <2>4. visited' = {start} /\ current' = start /\ next' = before[start].next
        /\ UNCHANGED <<start, before>>
    BY DEF IInv
  <2> QED
    BY <2>1, <2>2, <2>3, <2>4 DEF CommitLoop, Data
<1>5. /\ limit' > 0 /\ current' >= 2 /\ pc' = "loop" /\ call' = "commit"
      /\ UNCHANGED <<before, call>>
  BY <1>1 DEF All
<1>6. \A x \in All \ Sectors : before[x] = ZeroEntry
  BY DEF IInv
<1> HIDE DEF commitBegin
<1> QED
  BY <1>2, <1>3, <1>4, <1>5, <1>6
  DEF IInv, Looping, FreesChain, CommitsChain, FindsEmpty, ScansAll

LEMMA CommitStepInv == IInv /\ commitStep => IInv'
<1> SUFFICES ASSUME IInv, commitStep PROVE IInv'
  OBVIOUS
<1> USE Geometry
<1>0. /\ TypeOK /\ pc = "loop" /\ call = "commit" /\ limit > 0 /\ current >= 2
      /\ UNCHANGED given
  BY DEF IInv, commitStep, Looping
<1>1. CASE next = EOF /\ Done("OK", 0) /\ UNCHANGED <<fat, visited>>
  <2>1. TypeOK'
    BY <1>0, <1>1 DEF TypeOK, Done, given, Codes, All
  <2>2. ASSUME Undamaged'
        PROVE  /\ Data(fat)' = MarkWritten(Data(before), start)
               /\ Ends(Data(before), start) /\ ret'.code = "OK"
    <3> DEFINE D == Data(before)
    <3>1. CommitLoop
      BY <1>0, <2>2 DEF IInv, Looping, Undamaged, given
    <3>2. visited \in SUBSET Sectors
      BY <1>0, <3>1, ChainStart DEF CommitLoop, TypeOK
    <3>3. Closed(D, visited)
      BY <1>0, <1>1, <3>1, <3>2 DEF CommitLoop, Closed, Data
    <3>4. visited = Chain(D, start)
      BY <3>1, <3>2, <3>3, ChainLeast DEF CommitLoop
    <3>5. D[current].next = EOF
      BY <1>1, <3>1, <3>2 DEF CommitLoop, Data
    <3>6. Ends(D, start)
      BY <3>1, <3>4, <3>5 DEF Ends, CommitLoop
    <3>7. Data(fat)' = MarkWritten(D, start)
      BY <1>0, <1>1, <3>1, <3>2, <3>4 DEF CommitLoop, MarkWritten, Data
    <3> QED
      BY <1>1, <3>6, <3>7 DEF Done
  <2> QED
    BY <1>0, <1>1, <2>1, <2>2
    DEF IInv, Done, Looping, FreesChain, CommitsChain, FindsEmpty, ScansAll, ChecksumKept, given
<1>2. CASE next # EOF /\ Refused(next) /\ Done("CORRUPT", 0) /\ UNCHANGED <<fat, visited>>
  <2>1. TypeOK'
    BY <1>0, <1>2 DEF TypeOK, Done, given, Codes, All
  <2>2. ~Undamaged'
    <3> SUFFICES ASSUME Undamaged PROVE FALSE
      BY <1>0 DEF Undamaged, given
    <3>1. CommitLoop
      BY <1>0 DEF IInv, Looping
    <3>2. current \in Sectors /\ next = before[current].next
      BY <1>0, <3>1, ChainStart DEF CommitLoop, TypeOK
    <3> QED
      BY <1>0, <1>2, <3>2, Links DEF Refused, TypeOK
  <2> QED
    BY <1>0, <1>2, <2>1, <2>2
    DEF IInv, Done, Looping, FreesChain, CommitsChain, FindsEmpty, ScansAll, ChecksumKept, given
<1>3. CASE /\ next # EOF /\ ~Refused(next)
           /\ fat' = [fat EXCEPT ![next].written = TRUE]
           /\ visited' = visited \cup {next}
           /\ GoOn(fat')
  <2>1. next \in All /\ next >= 2
    BY <1>0, <1>3 DEF Refused, TypeOK, All
  <2>2. fat' \in Table
    BY <1>0, <1>3, <2>1, EntryTypes DEF TypeOK, Table
  <2>3. TypeOK' /\ pc' \in {"loop", "done"} /\ (pc' = "loop" => limit' > 0) /\ current' >= 2
    <3>1. fat'[next].next \in 0..EOF
      BY <2>1, <2>2 DEF Table, AnyEntry
    <3>2. limit' \in 0..sectors /\ (pc' = "loop" => limit' > 0)
      BY <1>0, <1>3 DEF GoOn, TypeOK
    <3> QED
      BY <1>0, <1>3, <2>1, <2>2, <3>1, <3>2 DEF GoOn, TypeOK, given, Codes, All
  <2>4. ChecksumKept'
    BY <1>0, <1>3, <2>1 DEF IInv, ChecksumKept, TypeOK, given, All, Table
  <2>5. ASSUME Undamaged'
        PROVE  /\ CommitLoop'
               /\ pc' = "done" => /\ Data(fat)' = MarkWritten(Data(before), start)
                                  /\ ~Ends(Data(before), start) /\ ret'.code = "CORRUPT"
    <3> DEFINE D == Data(before)
    <3>1. CommitLoop /\ Undamaged
      BY <1>0, <2>5 DEF IInv, Looping, Undamaged, given
    <3>2. visited \in SUBSET Sectors /\ current \in Sectors /\ next = before[current].next
      BY <1>0, <3>1, ChainStart DEF CommitLoop, TypeOK
    <3>3. next \in Sectors
      BY <1>0, <1>3, <3>1, <3>2, Links DEF TypeOK
    <3>4. next \in Chain(D, start)
      <4>1. D[current].next = next
        BY <3>2 DEF Data
      <4> QED
        BY <3>1, <3>3, <4>1, ChainClosed DEF CommitLoop
    <3>5. visited' \in SUBSET Sectors /\ visited' \subseteq Chain(D, start)
      BY <1>3, <3>1, <3>2, <3>3, <3>4 DEF CommitLoop
    <3>6. fat' = [x \in All |-> IF x \in visited' THEN [before[x] EXCEPT !.written = TRUE]
                                                 ELSE before[x]]
      <4>1. before \in Table
        BY <1>0 DEF TypeOK
      <4> QED
        BY <1>3, <2>1, <3>1, <4>1 DEF CommitLoop, Table, AnyEntry
    <3>7. current' = next /\ next' = before[next].next
      <4>1. fat'[next].next = before[next].next
        BY <1>0, <1>3, <2>1, <3>6 DEF TypeOK, Table, AnyEntry
      <4> QED
        BY <1>3, <4>1 DEF GoOn
    <3>8. \A x \in visited' \ {current'} : before[x].next \in visited'
      BY <1>3, <3>1, <3>2, <3>7 DEF CommitLoop
    <3>9. CASE next \in visited
      <4>1. visited' = visited
        BY <1>3, <3>9
      <4>2. \A x \in visited : before[x].next \in visited
        BY <3>1, <3>2, <3>9 DEF CommitLoop
      <4>3. Closed(D, visited)
        BY <3>2, <4>2 DEF Closed, Data
      <4>4. visited = Chain(D, start)
        BY <3>1, <3>2, <4>3, ChainLeast DEF CommitLoop
      <4>5. ~Ends(D, start)
        BY <3>2, <4>2, <4>4 DEF Ends, Data
      <4>6. Data(fat)' = MarkWritten(D, start)
        BY <3>2, <3>6, <4>1, <4>4 DEF MarkWritten, Data
      <4>7. next' \in visited'
        BY <3>7, <3>9, <4>1, <4>2
      <4>8. CommitLoop'
        BY <1>0, <3>1, <3>5, <3>6, <3>7, <3>8, <3>9, <4>1, <4>7 DEF CommitLoop, Data, given
      <4> QED
        BY <1>3, <4>5, <4>6, <4>8 DEF GoOn
    <3>10. CASE next \notin visited
      <4>1. Cardinality(visited') = Cardinality(visited) + 1
        BY <1>3, <3>2, <3>10, SectorsBound, FS_AddElement
      <4>2. Cardinality(visited) \in Nat /\ Cardinality(visited') <= sectors - First
        BY <3>2, <3>5, SectorsBound
      <4>3. limit' = limit - 1 /\ limit \in Nat /\ limit + Cardinality(visited) = sectors + 1
        BY <1>0, <1>3, <3>1, <3>10 DEF GoOn, CommitLoop, TypeOK
      <4>4. limit - 1 >= 1 /\ limit' + Cardinality(visited') = sectors + 1
        BY <4>1, <4>2, <4>3
      <4>5. start \in visited' /\ current' \in visited'
        BY <1>3, <3>1, <3>7 DEF CommitLoop
      <4>6. CommitLoop'
        BY <1>0, <3>5, <3>6, <3>7, <3>8, <4>4, <4>5 DEF CommitLoop, Data, given
      <4>7. pc' = "loop"
        BY <1>3, <4>3, <4>4 DEF GoOn
      <4> QED
        BY <4>6, <4>7
    <3> QED
      BY <3>9, <3>10
  <2> QED
    BY <1>0, <2>3, <2>4, <2>5
    DEF IInv, Looping, FreesChain, CommitsChain, FindsEmpty, ScansAll, given
<1> QED
  BY <1>1, <1>2, <1>3 DEF commitStep

LEMMA FindBeginInv == IInv /\ findBegin => IInv'
<1> SUFFICES ASSUME IInv, findBegin PROVE IInv'
  OBVIOUS
<1> USE Geometry DEF findBegin, given
<1>1. next' \in All /\ next' >= 3 /\ current' = next'
  BY DEF All
<1>2. TypeOK'
  BY <1>1 DEF IInv, TypeOK, All
<1>3. FindLoop'
  BY <1>1 DEF IInv, FindLoop, All
<1> QED
  BY <1>2, <1>3
  DEF IInv, Looping, FreesChain, CommitsChain, FindsEmpty, ScansAll, ChecksumKept

LEMMA FindStepInv == IInv /\ findStep => IInv'
<1> SUFFICES ASSUME IInv, findStep PROVE IInv'
  OBVIOUS
<1> USE Geometry
<1>0. /\ TypeOK /\ call = "find" /\ Looping /\ FindLoop
      /\ visited' = visited \cup {current} /\ UNCHANGED given
  BY DEF IInv, findStep, Looping
<1>1. current \in All /\ current >= 3
  BY <1>0 DEF FindLoop, TypeOK, Looping, All
<1>2. CASE fat[current].available
  <2>1. fat' = [fat EXCEPT ![current].available = FALSE] /\ Done("OK", current)
    BY <1>2 DEF findStep
  <2>2. current \in Sectors
    BY <1>0, <1>1, <1>2 DEF IInv, FindLoop, ZeroEntry
  <2>3. fat' \in Table
    <3>1. [fat[current] EXCEPT !.available = FALSE] \in AnyEntry
      BY <1>0, <1>1, EntryTypes DEF TypeOK, Table
    <3> QED
      BY <1>0, <2>1, <3>1 DEF TypeOK, Table
  <2>4. TypeOK'
    BY <1>0, <1>1, <2>1, <2>3 DEF TypeOK, Done, given, Codes, All
  <2>5. FindsEmpty'
    BY <1>0, <1>2, <2>1, <2>2 DEF FindsEmpty, findEmptySector, Data, FindLoop, Done, given
  <2>6. ChecksumKept'
    BY <1>0, <1>1, <2>1 DEF IInv, ChecksumKept, TypeOK, given, All, Table
  <2> QED
    BY <1>0, <2>1, <2>4, <2>5, <2>6
    DEF IInv, Done, Looping, FreesChain, CommitsChain, ScansAll, given
<1>3. CASE ~fat[current].available
  <2>0. UNCHANGED fat
    BY <1>3 DEF findStep
  <2>1. ChecksumKept'
    BY <1>0, <1>1, <2>0 DEF IInv, ChecksumKept, TypeOK, given, All
  <2>2. ~before[current].available
    BY <1>0, <1>3 DEF FindLoop
  <2>3. CASE /\ pc = "loop" /\ current + 1 < sectors
             /\ current' = current + 1 /\ UNCHANGED <<next, limit, pc, ret>>
    <3>1. TypeOK'
      BY <1>0, <1>1, <2>0, <2>3 DEF TypeOK, given, All
    <3>2. FindLoop'
      BY <1>0, <1>1, <2>0, <2>2, <2>3 DEF FindLoop, given, All
    <3> QED
      BY <1>0, <2>1, <2>3, <3>1, <3>2
      DEF IInv, Looping, FreesChain, CommitsChain, FindsEmpty, ScansAll, given
  <2>4. CASE /\ pc = "loop" /\ current + 1 = sectors /\ First < next
             /\ current' = First /\ pc' = "wrapped" /\ UNCHANGED <<next, limit, ret>>
    <3>1. TypeOK'
      BY <1>0, <1>1, <2>0, <2>4 DEF TypeOK, given, All
    <3>2. FindLoop'
      BY <1>0, <1>1, <2>0, <2>2, <2>4 DEF FindLoop, given, All
    <3> QED
      BY <1>0, <2>1, <2>4, <3>1, <3>2
      DEF IInv, Looping, FreesChain, CommitsChain, FindsEmpty, ScansAll, given
  <2>5. CASE /\ pc = "wrapped" /\ current + 1 < next
             /\ current' = current + 1 /\ UNCHANGED <<next, limit, pc, ret>>
    <3>1. TypeOK'
      BY <1>0, <1>1, <2>0, <2>5 DEF TypeOK, FindLoop, given, All
    <3>2. FindLoop'
      BY <1>0, <1>1, <2>0, <2>2, <2>5 DEF FindLoop, given, All
    <3> QED
      BY <1>0, <2>1, <2>5, <3>1, <3>2
      DEF IInv, Looping, FreesChain, CommitsChain, FindsEmpty, ScansAll, given
  <2>6. CASE /\ IF pc = "loop" THEN current + 1 = sectors /\ next <= First
                               ELSE current + 1 = next
             /\ Done("FULL", 0)
    <3>1. TypeOK'
      BY <1>0, <2>0, <2>6 DEF TypeOK, Done, given, Codes, All
    <3>2. \A x \in Sectors : ~before[x].available
      <4>1. CASE pc = "loop"
        BY <1>0, <1>1, <2>2, <2>6, <4>1 DEF FindLoop, All
      <4>2. CASE pc = "wrapped"
        BY <1>0, <1>1, <2>2, <2>6, <4>2 DEF FindLoop, All
      <4> QED
        BY <1>0, <4>1, <4>2 DEF Looping
    <3>3. FindsEmpty'
      BY <1>0, <2>0, <2>6, <3>2 DEF FindsEmpty, findEmptySector, Data, FindLoop, Done, given
    <3> QED
      BY <1>0, <2>1, <2>6, <3>1, <3>3
      DEF IInv, Done, Looping, FreesChain, CommitsChain, ScansAll, given
  <2> QED
    BY <1>3, <2>3, <2>4, <2>5, <2>6 DEF findStep
<1> QED
  BY <1>2, <1>3

LEMMA ScanBeginInv == IInv /\ scanBegin => IInv'
<1> SUFFICES ASSUME IInv, scanBegin PROVE IInv'
  OBVIOUS
<1> USE Geometry DEF scanBegin, given
<1>1. TypeOK'
  BY DEF IInv, TypeOK, All
<1>2. SearchLoop' /\ ScanLoop'
  BY DEF IInv, SearchLoop, ScanLoop
<1> QED
  BY <1>1, <1>2
  DEF IInv, Looping, FreesChain, CommitsChain, FindsEmpty, ScansAll, ChecksumKept

LEMMA SearchStepInv == IInv /\ searchStep => IInv'
<1> SUFFICES ASSUME IInv, searchStep PROVE IInv'
  OBVIOUS
<1> USE Geometry
<1>0. /\ TypeOK /\ call = "search" /\ pc = "loop" /\ SearchLoop
      /\ visited' = visited \cup {current} /\ UNCHANGED given /\ UNCHANGED fat
  BY DEF IInv, searchStep, Looping
<1>1. ChecksumKept'
  BY <1>0 DEF IInv, ChecksumKept, SearchLoop, given
<1>2. CASE fat[current].sof /\ current \in header
  <2>1. Done("OK", current)
    BY <1>2 DEF searchStep
  <2>2. TypeOK'
    BY <1>0, <2>1 DEF TypeOK, Done, given, Codes, All
  <2>3. ScansAll'
    BY <1>0, <1>2, <2>1 DEF ScansAll, SearchLoop, Done, given
  <2> QED
    BY <1>0, <1>1, <2>1, <2>2, <2>3
    DEF IInv, Done, Looping, FreesChain, CommitsChain, FindsEmpty, given
<1>3. CASE ~(fat[current].sof /\ current \in header) /\ current + 1 < sectors
  <2>1. current' = current + 1 /\ UNCHANGED <<next, limit, pc, ret>>
    BY <1>3 DEF searchStep, Advance
  <2>2. TypeOK'
    BY <1>0, <1>3, <2>1 DEF TypeOK, given, All
  <2>3. SearchLoop'
    BY <1>0, <1>3, <2>1 DEF SearchLoop, given
  <2> QED
    BY <1>0, <1>1, <2>1, <2>2, <2>3
    DEF IInv, Looping, FreesChain, CommitsChain, FindsEmpty, ScansAll, given
<1>4. CASE ~(fat[current].sof /\ current \in header) /\ ~(current + 1 < sectors)
  <2>1. Done("NOT_FOUND", 0)
    BY <1>4 DEF searchStep, Advance
  <2>2. TypeOK'
    BY <1>0, <2>1 DEF TypeOK, Done, given, Codes, All
  <2>3. ScansAll'
    BY <1>0, <1>4, <2>1 DEF ScansAll, SearchLoop, Done, given
  <2> QED
    BY <1>0, <1>1, <2>1, <2>2, <2>3
    DEF IInv, Done, Looping, FreesChain, CommitsChain, FindsEmpty, given
<1> QED
  BY <1>2, <1>3, <1>4

LEMMA ScanStepInv == IInv /\ scanStep => IInv'
<1> SUFFICES ASSUME IInv, scanStep PROVE IInv'
  OBVIOUS
<1> USE Geometry
<1>0. /\ TypeOK /\ call = "scan" /\ pc = "loop" /\ ScanLoop
      /\ visited' = visited \cup {current} /\ UNCHANGED given
      /\ fat' = IF ~fat[current].written /\ ~fat[current].available
                THEN [fat EXCEPT ![current].available = TRUE] ELSE fat
  BY DEF IInv, scanStep, Looping
<1>1. current \in Sectors /\ current \in All /\ fat[current] = before[current]
  BY <1>0 DEF ScanLoop
<1>2. fat' \in Table
  <2>1. [fat[current] EXCEPT !.available = TRUE] \in AnyEntry
    BY <1>0, <1>1, EntryTypes DEF TypeOK, Table
  <2> QED
    BY <1>0, <2>1 DEF TypeOK, Table
<1>3. ChecksumKept'
  BY <1>0, <1>1 DEF IInv, ChecksumKept, TypeOK, Table, given
<1>4. \A x \in Sectors : fat'[x] = IF x < current + 1 THEN scanTable(Data(before))[x]
                                                    ELSE before[x]
  <2>1. fat'[current] = scanTable(Data(before))[current]
    BY <1>0, <1>1 DEF scanTable, Data, TypeOK, Table
  <2>2. \A x \in Sectors \ {current} : fat'[x] = fat[x]
    BY <1>0 DEF TypeOK, Table
  <2> QED
    BY <1>0, <1>1, <2>1, <2>2 DEF ScanLoop
<1>5. CASE current + 1 < sectors
  <2>1. current' = current + 1 /\ UNCHANGED <<next, limit, pc, ret>>
    BY <1>5 DEF scanStep, Advance
  <2>2. TypeOK'
    BY <1>0, <1>1, <1>2, <1>5, <2>1 DEF TypeOK, given, All
  <2>3. ScanLoop'
    <3>1. current + 1 \in Sectors
      BY <1>1, <1>5
    <3>2. scanTable(Data(before))' = scanTable(Data(before))
      BY <1>0 DEF given, Data, scanTable
    <3> QED
      BY <1>0, <1>4, <2>1, <3>1, <3>2 DEF ScanLoop, given
  <2> QED
    BY <1>0, <1>3, <2>1, <2>2, <2>3
    DEF IInv, Looping, FreesChain, CommitsChain, FindsEmpty, ScansAll, given
<1>6. CASE ~(current + 1 < sectors)
  <2>1. Done("OK", 0)
    BY <1>6 DEF scanStep, Advance
  <2>2. TypeOK'
    BY <1>0, <1>2, <2>1 DEF TypeOK, Done, given, Codes, All
  <2>3. ScansAll'
    <3>1. \A x \in Sectors : x < current + 1
      BY <1>1, <1>6
    <3>2. \A x \in Sectors : fat'[x] = scanTable(Data(before))[x]
      BY <1>4, <3>1
    <3>3. Data(fat)' = scanTable(Data(before))
      BY <3>2 DEF Data, scanTable
    <3>4. UNCHANGED <<before, call>> /\ call = "scan"
      BY <1>0 DEF given
    <3> QED
      BY <3>3, <3>4 DEF ScansAll, Data
  <2> QED
    BY <1>0, <1>3, <2>1, <2>2, <2>3
    DEF IInv, Done, Looping, FreesChain, CommitsChain, FindsEmpty, given
<1> QED
  BY <1>5, <1>6

LEMMA StepInv == IInv /\ [Next]_vars => IInv'
<1> SUFFICES ASSUME IInv, [Next]_vars PROVE IInv'
  OBVIOUS
<1>1. CASE UNCHANGED vars
  BY <1>1 DEF vars, IInv, TypeOK, Looping, FreeLoop, CommitLoop, FindLoop, SearchLoop, ScanLoop,
              Undamaged, FreesChain, CommitsChain, FindsEmpty, ScansAll, ChecksumKept, Data
<1> QED
  BY <1>1, FreeBeginInv, FreeStepInv, CommitBeginInv, CommitStepInv, FindBeginInv, FindStepInv,
     ScanBeginInv, SearchStepInv, ScanStepInv
  DEF Next, Returned

\* The invariant, for a volume of any size.
THEOREM LoopsInvariant == Spec => []IInv
  BY InitInv, StepInv, PTL DEF Spec

\* Every loop keeps the types: no index leaves the table.
THEOREM LoopTypes == Spec => []TypeOK
<1>1. IInv => TypeOK
  BY DEF IInv
<1> QED
  BY <1>1, LoopsInvariant, PTL

\* On a table whose links are in order the loops of ufat_fclose and ufat_remove free
\* exactly the chain, for chains of any length and for circles, and never report it
\* as corrupt.
THEOREM ChainsFreed == Spec => []FreesChain
<1>1. IInv => FreesChain
  BY DEF IInv
<1> QED
  BY <1>1, LoopsInvariant, PTL

\* On a table whose links are in order the loop of ufat_fclose commits exactly the
\* chain, and reports a circle, and nothing else, as corrupt.
THEOREM ChainsCommitted == Spec => []CommitsChain
<1>1. IInv => CommitsChain
  BY DEF IInv
<1> QED
  BY <1>1, LoopsInvariant, PTL

\* findEmptySector finds a sector exactly when there is one.
THEOREM EmptyFound == Spec => []FindsEmpty
<1>1. IInv => FindsEmpty
  BY DEF IInv
<1> QED
  BY <1>1, LoopsInvariant, PTL

\* fileSearch and scanTable look at every data sector.
THEOREM AllScanned == Spec => []ScansAll
<1>1. IInv => ScansAll
  BY DEF IInv
<1> QED
  BY <1>1, LoopsInvariant, PTL

\* No loop writes the checksum, or beyond the table, on any links.
THEOREM ChecksumUntouched == Spec => []ChecksumKept
<1>1. IInv => ChecksumKept
  BY DEF IInv
<1> QED
  BY <1>1, LoopsInvariant, PTL
=============================================================================

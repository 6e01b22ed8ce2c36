--------------------------- MODULE TableStore_proofs ---------------------------
(***************************************************************************)
(* Theorems about the two-copy table store, for any set of tables and any  *)
(* number of faults.                                                       *)
(***************************************************************************)
EXTENDS TableStore, TLAPS

-----------------------------------------------------------------------------
(* Types. *)

LEMMA InitType == Init => TypeOK
<1> SUFFICES ASSUME Init
             PROVE  TypeOK
  OBVIOUS
<1>1. /\ copy \in [0..1 -> Tables \cup {Bad}]
      /\ seen \in [0..1 -> Tables \cup {Bad}]
      /\ before \in [0..1 -> Tables \cup {Bad}]
  BY DEF Init
<1>2. faults \in 0..MaxFaults
  BY MaxFaultsAssumption DEF Init
<1>3. fat \in Tables
  BY TablesAssumption DEF Init
<1>4. /\ buff \in Tables \cup {Bad}
      /\ to \in 0..1
  BY DEF Init
<1>5. mounted \in BOOLEAN /\ formatted \in BOOLEAN
  BY DEF Init
<1>6. /\ pc \in {"idle", "scenario", "scan"} \cup Reading \cup Writing
      /\ lastError \in {"OK", "IO"}
      /\ ret \in {"none", "OK", "IO", "EMPTY"}
  BY DEF Init
<1> QED
  BY <1>1, <1>2, <1>3, <1>4, <1>5, <1>6 DEF TypeOK

LEMMA TornType ==
  ASSUME TypeOK,
         NEW x \in Torn(copy[Target], Source)
  PROVE  [copy EXCEPT ![Target] = x] \in [0..1 -> Tables \cup {Bad}]
  BY DEF TypeOK, Torn, Target, Source

LEMMA StepType == TypeOK /\ [Next]_vars => TypeOK'
<1> SUFFICES ASSUME TypeOK, [Next]_vars
             PROVE  TypeOK'
  OBVIOUS
<1> USE DEF TypeOK, Reading, Writing
<1>1. CASE MountCall
  BY <1>1 DEF MountCall
<1>2. CASE CommitCall
  BY <1>2 DEF CommitCall
<1>3. CASE FormatCall
  BY <1>3, TablesAssumption DEF FormatCall
<1>4. ASSUME NEW i \in 0..1, validateTable(i)
      PROVE  TypeOK'
  BY <1>4 DEF validateTable
<1>5. CASE MountIO
  BY <1>5 DEF MountIO, Return
<1>6. CASE MountEmpty
  BY <1>6 DEF MountEmpty, Return
<1>7. CASE MountScenario
  BY <1>7 DEF MountScenario
<1>8. CASE copyTableRead
  BY <1>8 DEF copyTableRead
<1>9. CASE copyTableWrite
  BY <1>9 DEF copyTableWrite, Write, Target, Source
<1>10. CASE loadTable
  BY <1>10 DEF loadTable
<1>11. CASE scanTable
  BY <1>11 DEF scanTable, MountDone, Return
<1>12. CASE commitCopy1
  BY <1>12 DEF commitCopy1, Write, Target, Source
<1>13. CASE commitCopy2
  BY <1>13 DEF commitCopy2, Write, Target, Source, MountDone, Return
<1>14. CASE formatCopy1
  BY <1>14 DEF formatCopy1, Write, Target, Source
<1>15. CASE formatCopy2
  BY <1>15 DEF formatCopy2, Write, Target, Source, Return
<1>16. CASE PowerLoss
  <2>1. copy' \in [0..1 -> Tables \cup {Bad}] /\ before' \in [0..1 -> Tables \cup {Bad}]
    BY <1>16, TornType DEF PowerLoss, TornWrite
  <2>2. faults' \in 0..MaxFaults
    BY <1>16, MaxFaultsAssumption DEF PowerLoss
  <2>3. seen' \in [0..1 -> Tables \cup {Bad}]
    BY <1>16 DEF PowerLoss
  <2>4. fat' \in Tables
    BY <1>16, TablesAssumption DEF PowerLoss
  <2>5. /\ buff' \in Tables \cup {Bad}
        /\ to' \in 0..1
    BY <1>16 DEF PowerLoss
  <2>6. mounted' \in BOOLEAN /\ formatted' \in BOOLEAN
    BY <1>16 DEF PowerLoss
  <2>7. /\ pc' \in {"idle", "scenario", "scan"} \cup Reading \cup Writing
        /\ lastError' \in {"OK", "IO"}
        /\ ret' \in {"none", "OK", "IO", "EMPTY"}
    BY <1>16 DEF PowerLoss
  <2> QED
    BY <2>1, <2>2, <2>3, <2>4, <2>5, <2>6, <2>7
<1>17. CASE ReadFails
  <2>1. faults' \in 0..MaxFaults
    BY <1>17, MaxFaultsAssumption DEF ReadFails, TransientFault
  <2>2. seen' \in [0..1 -> Tables \cup {Bad}]
    BY <1>17 DEF ReadFails
  <2>3. fat' \in Tables
    BY <1>17 DEF ReadFails
  <2>4. /\ pc' \in {"idle", "scenario", "scan"} \cup Reading \cup Writing
        /\ ret' \in {"none", "OK", "IO", "EMPTY"}
        /\ before' \in [0..1 -> Tables \cup {Bad}]
    BY <1>17 DEF ReadFails, Return
  <2> QED
    BY <1>17, <2>1, <2>2, <2>3, <2>4 DEF ReadFails
<1>18. CASE WriteFails
  <2>1. copy' \in [0..1 -> Tables \cup {Bad}]
    BY <1>18, TornType DEF WriteFails, TornWrite
  <2>2. faults' \in 0..MaxFaults
    BY <1>18, MaxFaultsAssumption DEF WriteFails, TransientFault
  <2> QED
    BY <1>18, <2>1, <2>2 DEF WriteFails, MountDone, Return
<1>19. CASE UNCHANGED vars
  BY <1>19 DEF vars
<1> QED
  BY <1>1, <1>2, <1>3, <1>4, <1>5, <1>6, <1>7, <1>8, <1>9, <1>10, <1>11,
     <1>12, <1>13, <1>14, <1>15, <1>16, <1>17, <1>18, <1>19
  DEF Next, Program, Caller

\* Every variable keeps its type, whatever faults hit the device.
THEOREM TypeCorrect == Spec => []TypeOK
  BY InitType, StepType, PTL DEF Spec

-----------------------------------------------------------------------------
(* Copy 1 follows copy 0. *)

\* The first copy is written before the second, and copyTable writes what it
\* has just read.
OrderInv ==
  /\ pc \in {"repair1", "commit1", "format1"} => copy[0] = fat
  /\ pc = "copyWrite" => buff = copy[1 - to]

LEMMA InitOrder == Init => OrderInv
  BY DEF Init, OrderInv

LEMMA StepOrder == TypeOK /\ OrderInv /\ [Next]_vars => OrderInv'
<1> SUFFICES ASSUME TypeOK, OrderInv, [Next]_vars
             PROVE  OrderInv'
  OBVIOUS
<1> USE DEF TypeOK, OrderInv
<1>1. CASE Caller
  BY <1>1 DEF Caller, MountCall, CommitCall, FormatCall
<1>2. ASSUME NEW i \in 0..1, validateTable(i)
      PROVE  OrderInv'
  BY <1>2 DEF validateTable
<1>3. CASE MountIO \/ MountEmpty \/ MountScenario
  BY <1>3 DEF MountIO, MountEmpty, MountScenario, Return
<1>4. CASE copyTableRead \/ copyTableWrite \/ loadTable \/ scanTable
  BY <1>4 DEF copyTableRead, copyTableWrite, loadTable, scanTable, MountDone, Return
<1>5. CASE commitCopy1 \/ formatCopy1
  BY <1>5 DEF commitCopy1, formatCopy1, Write, Target, Source
<1>6. CASE commitCopy2 \/ formatCopy2
  BY <1>6 DEF commitCopy2, formatCopy2, MountDone, Return
<1>7. CASE PowerLoss
  BY <1>7 DEF PowerLoss
<1>8. CASE ReadFails
  BY <1>8 DEF ReadFails, Reading, Return
<1>9. CASE WriteFails
  BY <1>9 DEF WriteFails, MountDone, Return
<1>10. CASE UNCHANGED vars
  BY <1>10 DEF vars
<1> QED
  BY <1>1, <1>2, <1>3, <1>4, <1>5, <1>6, <1>7, <1>8, <1>9, <1>10 DEF Next, Program

THEOREM OrderCorrect == Spec => []OrderInv
  BY InitOrder, StepOrder, TypeCorrect, PTL DEF Spec

LEMMA StepFollows ==
  TypeOK /\ OrderInv /\ [Next]_vars =>
    [copy'[1] # copy[1] => copy'[1] \in {Bad, copy'[0]}]_vars
<1> SUFFICES ASSUME TypeOK, OrderInv, Next, copy'[1] # copy[1]
             PROVE  copy'[1] \in {Bad, copy'[0]}
  BY DEF vars
<1> USE DEF TypeOK, OrderInv
<1>1. CASE Caller
  BY <1>1 DEF Caller, MountCall, CommitCall, FormatCall
<1>2. ASSUME NEW i \in 0..1, validateTable(i)
      PROVE  copy'[1] \in {Bad, copy'[0]}
  BY <1>2 DEF validateTable
<1>3. CASE MountIO \/ MountEmpty \/ MountScenario
  BY <1>3 DEF MountIO, MountEmpty, MountScenario
<1>4. CASE copyTableRead \/ loadTable \/ scanTable
  BY <1>4 DEF copyTableRead, loadTable, scanTable
<1>5. CASE copyTableWrite
  BY <1>5 DEF copyTableWrite, Write, Target, Source
<1>6. CASE commitCopy1 \/ formatCopy1
  BY <1>6 DEF commitCopy1, formatCopy1, Write, Target, Source
<1>7. CASE commitCopy2 \/ formatCopy2
  BY <1>7 DEF commitCopy2, formatCopy2, Write, Target, Source
<1>8. ASSUME TornWrite, pc \in Writing
      PROVE  copy'[1] \in {Bad, copy'[0]}
  BY <1>8 DEF TornWrite, Torn, Target, Source, Writing
<1>9. CASE PowerLoss
  BY <1>8, <1>9 DEF PowerLoss
<1>10. CASE ReadFails
  BY <1>10 DEF ReadFails
<1>11. CASE WriteFails
  BY <1>8, <1>11 DEF WriteFails
<1> QED
  BY <1>1, <1>2, <1>3, <1>4, <1>5, <1>6, <1>7, <1>9, <1>10, <1>11 DEF Next, Program

\* Under every kind of fault copy 1 only becomes bad or what copy 0 holds, so
\* ufat_mount is right to prefer copy 0 of two good copies.
THEOREM SecondFollows == Spec => SecondFollowsFirst
  BY TypeCorrect, OrderCorrect, StepFollows, PTL DEF Spec, SecondFollowsFirst

-----------------------------------------------------------------------------
(* When every fault takes the machine with it. *)

OnlyPower == "transient" \notin Faults

\* Both copies are good and equal between calls on a mounted volume, and up to
\* the first write of a commit.
Settled == {"load", "scan", "repair0", "commit0"}
Halfway == {"repair1", "commit1", "format1"}

Agreement ==
  /\ pc \in Settled => copy[0] # Bad /\ copy[1] = copy[0]
  /\ mounted /\ pc \notin Halfway => copy[0] # Bad /\ copy[1] = copy[0]
  /\ pc \in {"repair1", "commit1"} => copy[1] # Bad

\* What ufat_mount knows of the copies while it decides what to do.
Knowledge ==
  /\ pc = "validate1" => seen[0] = copy[0]
  /\ pc = "scenario" => seen[0] = copy[0] /\ seen[1] = copy[1]
  /\ pc \in {"copyRead", "copyWrite"} =>
       copy[1 - to] # Bad /\ (to = 0 => copy[0] = Bad)

PowerInv ==
  /\ Agreement
  /\ Knowledge
  /\ lastError = "OK"
  /\ pc \in {"format0", "format1"} => ~formatted
  /\ Recoverable

LEMMA InitPower == Init => PowerInv
  BY DEF Init, PowerInv, Agreement, Knowledge, Settled, Halfway, Recoverable

LEMMA StepPower ==
  ASSUME OnlyPower
  PROVE  TypeOK /\ OrderInv /\ PowerInv /\ [Next]_vars => PowerInv'
<1> SUFFICES ASSUME TypeOK, OrderInv, PowerInv, [Next]_vars
             PROVE  PowerInv'
  OBVIOUS
<1> USE DEF TypeOK, OrderInv, PowerInv, Agreement, Knowledge, Settled, Halfway,
            Recoverable
<1>1. CASE MountCall
  BY <1>1 DEF MountCall
<1>2. CASE CommitCall
  BY <1>2 DEF CommitCall
<1>3. CASE FormatCall
  BY <1>3 DEF FormatCall
<1>4. ASSUME NEW i \in 0..1, validateTable(i)
      PROVE  PowerInv'
  BY <1>4 DEF validateTable
<1>5. CASE MountIO
  BY <1>5 DEF MountIO
<1>6. CASE MountEmpty
  BY <1>6 DEF MountEmpty, Return
<1>7. CASE MountScenario
  BY <1>7 DEF MountScenario
<1>8. CASE copyTableRead
  BY <1>8 DEF copyTableRead
<1>9. CASE copyTableWrite
  BY <1>9 DEF copyTableWrite, Write, Target, Source
<1>10. CASE loadTable
  BY <1>10 DEF loadTable
<1>11. CASE scanTable
  BY <1>11 DEF scanTable, MountDone, Return
<1>12. CASE commitCopy1
  BY <1>12, TablesAssumption DEF commitCopy1, Write, Target, Source
<1>13. CASE commitCopy2
  BY <1>13, TablesAssumption DEF commitCopy2, Write, Target, Source, MountDone, Return
<1>14. CASE formatCopy1
  BY <1>14, TablesAssumption DEF formatCopy1, Write, Target, Source
<1>15. CASE formatCopy2
  BY <1>15, TablesAssumption DEF formatCopy2, Write, Target, Source, Return
<1>16. CASE PowerLoss
  BY <1>16, TablesAssumption DEF PowerLoss, TornWrite, Torn, Target, Source, Writing
<1>17. CASE ReadFails
  BY <1>17 DEF ReadFails, TransientFault, OnlyPower
<1>18. CASE WriteFails
  BY <1>18 DEF WriteFails, TransientFault, OnlyPower
<1>19. CASE UNCHANGED vars
  BY <1>19 DEF vars
<1> QED
  BY <1>1, <1>2, <1>3, <1>4, <1>5, <1>6, <1>7, <1>8, <1>9, <1>10, <1>11,
     <1>12, <1>13, <1>14, <1>15, <1>16, <1>17, <1>18, <1>19
  DEF Next, Program, Caller

THEOREM PowerCorrect ==
  ASSUME OnlyPower
  PROVE  Spec => []PowerInv
<1>1. TypeOK /\ OrderInv /\ PowerInv /\ [Next]_vars => PowerInv'
  BY StepPower
<1> QED
  BY <1>1, InitPower, TypeCorrect, OrderCorrect, PTL DEF Spec

\* A formatted volume can be mounted after any number of power failures, at
\* any access.
THEOREM AlwaysRecoverable ==
  ASSUME OnlyPower
  PROVE  Spec => []Recoverable
<1>1. PowerInv => Recoverable
  BY DEF PowerInv
<1> QED
  BY <1>1, PowerCorrect, PTL

-----------------------------------------------------------------------------
(* The store is an atomic table.                                             *)

LEMMA InitAtomic == Init => Abstract!Init
  BY DEF Init, Abstract!Init, Durable, Loadable

\* A program step that neither starts nor ends an update, nor changes what a
\* mount would load.
LEMMA QuietStep ==
  ASSUME pc \notin Writing \/ pc = "copyWrite",
         pc' \notin Writing \/ pc' = "copyWrite",
         Durable' = Durable
  PROVE  [Abstract!Next]_(Abstract!vars)
  BY DEF Writing, Abstract!Next, Abstract!Answer, Abstract!vars

LEMMA StepAtomic ==
  ASSUME OnlyPower
  PROVE  TypeOK /\ OrderInv /\ PowerInv /\ [Next]_vars
           => [Abstract!Next]_(Abstract!vars)
<1> SUFFICES ASSUME TypeOK, OrderInv, PowerInv, [Next]_vars
             PROVE  [Abstract!Next]_(Abstract!vars)
  OBVIOUS
<1> USE DEF TypeOK, OrderInv, PowerInv, Agreement, Knowledge, Settled, Halfway
<1>1. fat # Bad
  BY TablesAssumption
<1>2. CASE MountCall
  BY <1>2, QuietStep DEF MountCall, Durable, Loadable, Writing
<1>3. CASE CommitCall \/ FormatCall
  <2>1. Abstract!Begin
    BY <1>3, TablesAssumption DEF CommitCall, FormatCall, Durable, Loadable, Abstract!Begin
  <2> QED
    BY <2>1 DEF Abstract!Next
<1>4. ASSUME NEW i \in 0..1, validateTable(i)
      PROVE  [Abstract!Next]_(Abstract!vars)
  BY <1>4, QuietStep DEF validateTable, Durable, Loadable, Writing
<1>5. CASE MountIO \/ MountEmpty \/ MountScenario
  BY <1>5, QuietStep DEF MountIO, MountEmpty, MountScenario, Return, Durable, Loadable, Writing
<1>6. CASE copyTableRead \/ loadTable
  BY <1>6, QuietStep DEF copyTableRead, loadTable, Durable, Loadable, Writing
<1>7. CASE copyTableWrite
  <2>1. Durable' = Durable
    BY <1>7 DEF copyTableWrite, Write, Target, Source, Durable, Loadable
  <2> QED
    BY <1>7, <2>1, QuietStep DEF copyTableWrite, Writing
<1>8. CASE scanTable
  <2>1. CASE pc' = "idle"
    BY <1>8, <2>1, QuietStep DEF scanTable, Durable, Loadable, Writing
  <2>2. CASE pc' = "repair0"
    <3>1. Abstract!Begin
      BY <1>8, <2>2 DEF scanTable, MountDone, Return, Durable, Loadable, Abstract!Begin
    <3> QED
      BY <3>1 DEF Abstract!Next
  <2> QED
    BY <1>8, <2>1, <2>2 DEF scanTable, MountDone, Return
<1>9. CASE commitCopy1 \/ formatCopy1
  <2>1. copy' = [copy EXCEPT ![0] = fat]
    BY <1>9 DEF commitCopy1, formatCopy1, Write, Target, Source
  <2>2. Durable' = fat
    BY <1>1, <2>1 DEF Durable, Loadable
  <2>3. Abstract!Apply
    BY <1>1, <1>9, <2>2 DEF commitCopy1, formatCopy1, Abstract!Apply
  <2> QED
    BY <2>3 DEF Abstract!Next
<1>10. CASE commitCopy2 \/ formatCopy2
  <2>1. copy[0] = fat /\ copy'[0] = fat
    BY <1>10 DEF commitCopy2, formatCopy2, Write, Target, Source
  <2>2. Durable' = fat /\ Durable = fat
    BY <1>1, <2>1 DEF Durable, Loadable
  <2>3. Abstract!End
    BY <1>1, <1>10, <2>2
    DEF commitCopy2, formatCopy2, MountDone, Return, Abstract!End
  <2> QED
    BY <2>3 DEF Abstract!Next
<1>11. CASE PowerLoss
  <2>1. CASE pc \in {"repair0", "repair1", "commit0", "commit1"}
    <3>1. Durable' \in {Durable, fat}
      BY <1>1, <1>11, <2>1
      DEF PowerLoss, TornWrite, Torn, Target, Source, Writing, Durable, Loadable
    <3>2. Abstract!End
      BY <1>1, <1>11, <2>1, <3>1 DEF PowerLoss, Abstract!End
    <3> QED
      BY <3>2 DEF Abstract!Next
  <2>2. CASE pc \in {"format0", "format1"}
    <3>1. Durable' \in Tables \cup {Bad}
      BY <1>11, <2>2
      DEF PowerLoss, TornWrite, Torn, Target, Source, Writing, Durable, Loadable
    <3>2. Abstract!End
      BY <1>1, <1>11, <2>2, <3>1 DEF PowerLoss, Abstract!End
    <3> QED
      BY <3>2 DEF Abstract!Next
  <2>3. CASE pc = "copyWrite"
    <3>1. Durable' = Durable
      BY <1>11, <2>3
      DEF PowerLoss, TornWrite, Torn, Target, Source, Writing, Durable, Loadable
    <3> QED
      BY <1>11, <2>3, <3>1, QuietStep DEF PowerLoss, Writing
  <2>4. CASE pc \notin Writing
    BY <1>11, <2>4, QuietStep DEF PowerLoss, Durable, Loadable, Writing
  <2> QED
    BY <2>1, <2>2, <2>3, <2>4 DEF Writing
<1>12. CASE ReadFails \/ WriteFails
  BY <1>12 DEF ReadFails, WriteFails, TransientFault, OnlyPower
<1>13. CASE UNCHANGED vars
  BY <1>13 DEF vars, Durable, Loadable, Abstract!vars
<1> QED
  BY <1>2, <1>3, <1>4, <1>5, <1>6, <1>7, <1>8, <1>9, <1>10, <1>11, <1>12, <1>13
  DEF Next, Program, Caller

\* ufat_mount, ufat_format and commitChanges together implement a table that
\* changes at one instant or not at all, and keeps what it acknowledged.
THEOREM StoreIsAtomic ==
  ASSUME OnlyPower
  PROVE  Spec => AtomicUpdates
<1>1. TypeOK /\ OrderInv /\ PowerInv /\ [Next]_vars
        => [Abstract!Next]_(Abstract!vars)
  BY StepAtomic
<1> QED
  BY <1>1, InitAtomic, TypeCorrect, OrderCorrect, PowerCorrect, PTL
  DEF Spec, AtomicUpdates, Abstract!Spec
-----------------------------------------------------------------------------
(* Each call has the results, and leaves the copies, that MicroFS takes it   *)
(* to have: under every kind of fault.                                       *)

Untouched == {"idle", "validate0", "validate1", "scenario", "copyRead", "copyWrite",
              "commit0", "format0"}
Repairs == {"repair0", "repair1"}

\* The copies are those the call began with up to its first write.  What a mount
\* reads is what they are, or lastError says otherwise; so it repairs the copy
\* that does not count, and loads the one that does.
CallInv ==
  /\ pc \in Untouched => copy = before
  /\ pc = "validate1" /\ lastError = "OK" => seen[0] = before[0]
  /\ pc = "scenario" /\ lastError = "OK" => seen[0] = before[0] /\ seen[1] = before[1]
  /\ pc \in {"copyRead", "copyWrite"} =>
       before[0] # before[1] /\ to = Repaired(before) /\ before[1 - to] # Bad
  /\ pc \in {"copyRead", "copyWrite", "load", "scan"} \cup Repairs => lastError = "OK"
  /\ pc \in {"load", "scan"} \cup Repairs => Loadable(before) # Bad
  /\ pc \in {"load", "scan", "repair0"} => copy = Both(Loadable(before))
  /\ pc = "scan" => fat = Loadable(before)
  /\ pc \in Repairs => fat # Loadable(before)
  /\ pc = "repair1" => copy = Copies(fat, Loadable(before))
  /\ pc \in {"commit1", "format1"} => copy = Copies(fat, before[1])

LEMMA CopiesAre ==
  ASSUME NEW c \in [0..1 -> Tables \cup {Bad}]
  PROVE  \A x, y : c = Copies(x, y) <=> c[0] = x /\ c[1] = y
<1> SUFFICES ASSUME NEW x, NEW y
             PROVE  c = Copies(x, y) <=> c[0] = x /\ c[1] = y
  OBVIOUS
<1>1. Copies(x, y)[0] = x /\ Copies(x, y)[1] = y
  BY DEF Copies
<1>2. ASSUME c[0] = x, c[1] = y
      PROVE  c = Copies(x, y)
  <2>1. \A i \in 0..1 : c[i] = IF i = 0 THEN x ELSE y
    BY <1>2
  <2> QED
    BY <2>1 DEF Copies
<1> QED
  BY <1>1, <1>2

LEMMA InitCall == Init => CallInv
  BY DEF Init, CallInv, Untouched, Repairs

LEMMA StepCall == TypeOK /\ OrderInv /\ CallInv /\ [Next]_vars => CallInv'
<1> SUFFICES ASSUME TypeOK, OrderInv, CallInv, [Next]_vars
             PROVE  CallInv'
  OBVIOUS
<1> USE DEF CallInv, Untouched, Repairs
<1>1. /\ copy \in [0..1 -> Tables \cup {Bad}] /\ before \in [0..1 -> Tables \cup {Bad}]
      /\ to \in 0..1 /\ lastError \in {"OK", "IO"} /\ fat \in Tables
  BY DEF TypeOK
<1>2. ASSUME pc' = "idle", before' = copy'
      PROVE  CallInv'
  BY <1>2
<1>3. CASE MountCall \/ CommitCall \/ FormatCall
  BY <1>3 DEF MountCall, CommitCall, FormatCall
<1>4. ASSUME NEW i \in 0..1, validateTable(i)
      PROVE  CallInv'
  BY <1>1, <1>4 DEF validateTable, TypeOK
<1>5. CASE MountIO \/ MountEmpty
  BY <1>2, <1>5 DEF MountIO, MountEmpty, Return
<1>6. CASE MountScenario
  <2>1. /\ copy = before /\ seen[0] = before[0] /\ seen[1] = before[1]
        /\ UNCHANGED <<copy, before, lastError>> /\ lastError = "OK"
    BY <1>6 DEF MountScenario
  <2>2. CASE pc' = "load"
    <3>1. before[0] = before[1] /\ before[0] # Bad
      BY <1>6, <2>1, <2>2 DEF MountScenario
    <3>2. Loadable(before) = before[0]
      BY <3>1 DEF Loadable
    <3>3. copy = Both(Loadable(before))
      BY <1>1, <2>1, <3>1, <3>2, CopiesAre DEF Both
    <3> QED
      BY <2>1, <2>2, <3>1, <3>2, <3>3
  <2>3. CASE pc' = "copyRead"
    <3>1. to' = Repaired(before) /\ before[0] # before[1] /\ before[1 - to'] # Bad
      BY <1>6, <2>1, <2>3 DEF MountScenario, Repaired
    <3> QED
      BY <2>1, <2>3, <3>1
  <2> QED
    BY <1>6, <2>2, <2>3 DEF MountScenario
<1>7. CASE copyTableRead
  BY <1>7 DEF copyTableRead
<1>8. CASE copyTableWrite
  <2>1. /\ copy = before /\ buff = copy[1 - to] /\ to = Repaired(before)
        /\ before[1 - to] # Bad /\ lastError = "OK"
    BY <1>8 DEF copyTableWrite, OrderInv
  <2>2. copy' = [copy EXCEPT ![to] = before[1 - to]]
    BY <1>8, <2>1 DEF copyTableWrite, Write, Target, Source
  <2>3. before[1 - to] = Loadable(before)
    BY <1>1, <2>1 DEF Repaired, Loadable
  <2>4. copy'[0] = Loadable(before) /\ copy'[1] = Loadable(before)
        /\ copy' \in [0..1 -> Tables \cup {Bad}]
    BY <1>1, <2>1, <2>2, <2>3
  <2>5. copy' = Both(Loadable(before))
    BY <2>4, CopiesAre DEF Both
  <2> QED
    BY <1>8, <2>1, <2>3, <2>5 DEF copyTableWrite
<1>9. CASE loadTable
  <2>1. copy = Both(Loadable(before)) /\ copy[1 - to] = Loadable(before)
    BY <1>1, <1>9, CopiesAre DEF loadTable, Both
  <2> QED
    BY <1>9, <2>1 DEF loadTable
<1>10. CASE scanTable
  <2>1. CASE pc' = "idle"
    BY <1>2, <1>10, <2>1 DEF scanTable, MountDone, Return
  <2>2. CASE pc' = "repair0"
    BY <1>10, <2>2 DEF scanTable, MountDone, Return
  <2> QED
    BY <1>10, <2>1, <2>2 DEF scanTable, MountDone, Return
<1>11. CASE commitCopy1 \/ formatCopy1
  <2>1. copy' = [copy EXCEPT ![0] = fat] /\ UNCHANGED <<fat, before, lastError>>
    BY <1>11 DEF commitCopy1, formatCopy1, Write, Target, Source
  <2>2. copy' \in [0..1 -> Tables \cup {Bad}] /\ copy'[0] = fat /\ copy'[1] = copy[1]
    BY <1>1, <2>1
  <2>3. copy' = Copies(fat, copy[1])
    BY <2>2, CopiesAre
  <2>4. CASE pc = "repair0"
    <3>1. copy[1] = Loadable(before)
      BY <1>1, <2>4, CopiesAre DEF Both
    <3> QED
      BY <1>11, <2>1, <2>3, <2>4, <3>1 DEF commitCopy1, formatCopy1
  <2>5. CASE pc \in {"commit0", "format0"}
    BY <1>11, <2>1, <2>3, <2>5 DEF commitCopy1, formatCopy1
  <2> QED
    BY <1>11, <2>4, <2>5 DEF commitCopy1, formatCopy1
<1>12. CASE commitCopy2 \/ formatCopy2
  BY <1>2, <1>12 DEF commitCopy2, formatCopy2, MountDone, Return
<1>13. CASE PowerLoss
  BY <1>2, <1>13 DEF PowerLoss
<1>14. CASE ReadFails
  BY <1>2, <1>14 DEF ReadFails, Reading, Return
<1>15. CASE WriteFails
  BY <1>2, <1>15 DEF WriteFails, MountDone, Return
<1>16. CASE UNCHANGED vars
  BY <1>16 DEF vars
<1> QED
  BY <1>3, <1>4, <1>5, <1>6, <1>7, <1>8, <1>9, <1>10, <1>11, <1>12, <1>13, <1>14,
     <1>15, <1>16
  DEF Next, Program, Caller

THEOREM CallsTracked == Spec => []CallInv
  BY InitCall, StepCall, TypeCorrect, OrderCorrect, PTL DEF Spec

-----------------------------------------------------------------------------
(* The outcomes. *)

LEMMA Written ==
  ASSUME NEW tab, NEW f
  PROVE  [tab |-> Both(f), res |-> "OK"] \in CommitOutcomes(tab, f)
  BY DEF CommitOutcomes

LEMMA FirstTorn ==
  ASSUME NEW tab, NEW f, NEW x \in {tab[0], f, Bad}, NEW r \in Failures
  PROVE  [tab |-> Copies(x, tab[1]), res |-> r] \in CommitOutcomes(tab, f)
  BY DEF CommitOutcomes

LEMMA SecondTorn ==
  ASSUME NEW tab, NEW f, NEW x \in {tab[1], f, Bad}, NEW r \in Failures
  PROVE  [tab |-> Copies(f, x), res |-> r] \in CommitOutcomes(tab, f)
  BY DEF CommitOutcomes

\* What a write to the table, in a commit or a format, leaves when it fails.
LEMMA TornUpdate ==
  ASSUME TypeOK, CallInv, TornWrite, pc \in Updating \cup Repairs, NEW r \in Failures
  PROVE  LET tab == IF pc \in Repairs THEN Both(Loadable(before)) ELSE before
         IN  [tab |-> copy', res |-> r] \in CommitOutcomes(tab, fat)
<1> DEFINE tab == IF pc \in Repairs THEN Both(Loadable(before)) ELSE before
<1>1. /\ copy \in [0..1 -> Tables \cup {Bad}] /\ before \in [0..1 -> Tables \cup {Bad}]
      /\ fat \in Tables
  BY DEF TypeOK
<1>2. PICK x \in Torn(copy[Target], Source) : copy' = [copy EXCEPT ![Target] = x]
  BY DEF TornWrite
<1>3. Source = fat
  BY DEF Source, Updating, Repairs
<1>4. copy' \in [0..1 -> Tables \cup {Bad}]
  BY <1>2, TornType
<1>5. Both(Loadable(before))[1] = Loadable(before)
  BY DEF Both, Copies
<1>6. CASE pc \in {"repair0", "commit0", "format0"}
  <2>1. copy = tab /\ Target = 0
    BY <1>6 DEF CallInv, Untouched, Repairs, Target
  <2>2. x \in {tab[0], fat, Bad} /\ copy'[0] = x /\ copy'[1] = tab[1]
    BY <1>1, <1>2, <1>3, <2>1 DEF Torn
  <2>3. copy' = Copies(x, tab[1])
    BY <1>4, <2>2, CopiesAre
  <2> QED
    BY <2>2, <2>3, FirstTorn
<1>7. CASE pc \in {"repair1", "commit1", "format1"}
  <2>1. copy = Copies(fat, tab[1]) /\ Target = 1
    BY <1>5, <1>7 DEF CallInv, Repairs, Target
  <2>2. copy[0] = fat /\ copy[1] = tab[1]
    BY <1>1, <2>1, CopiesAre
  <2>3. x \in {tab[1], fat, Bad} /\ copy'[0] = fat /\ copy'[1] = x
    BY <1>1, <1>2, <1>3, <2>1, <2>2 DEF Torn
  <2>4. copy' = Copies(fat, x)
    BY <1>4, <2>3, CopiesAre
  <2> QED
    BY <2>3, <2>4, SecondTorn
<1> QED
  BY <1>6, <1>7 DEF Updating, Repairs

\* The second write of a commit or a format succeeds.
LEMMA LastWritten ==
  ASSUME TypeOK, CallInv, Write, pc \in {"repair1", "commit1", "format1"}
  PROVE  copy' = Both(fat)
<1>1. copy \in [0..1 -> Tables \cup {Bad}] /\ fat \in Tables
  BY DEF TypeOK
<1>2. copy[0] = fat
  BY <1>1, CopiesAre DEF CallInv, Repairs
<1>3. copy' = [copy EXCEPT ![1] = fat]
  BY DEF Write, Target, Source
<1>4. copy' \in [0..1 -> Tables \cup {Bad}] /\ copy'[0] = fat /\ copy'[1] = fat
  BY <1>1, <1>2, <1>3
<1> QED
  BY <1>4, CopiesAre DEF Both

LEMMA TornRepair ==
  ASSUME TypeOK, OrderInv, CallInv, TornWrite, pc = "copyWrite"
  PROVE  copy' \in CopyFailed(before)
<1>1. /\ copy = before /\ before[0] # before[1] /\ to = Repaired(before)
      /\ buff = before[1 - to] /\ to \in 0..1
  BY DEF CallInv, OrderInv, Untouched, TypeOK
<1>2. PICK x \in {before[to], before[1 - to], Bad} : copy' = [before EXCEPT ![to] = x]
  BY <1>1 DEF TornWrite, Torn, Target, Source
<1>3. x \in {before[0], before[1], Bad}
  BY <1>1, <1>2
<1> QED
  BY <1>1, <1>2, <1>3 DEF CopyFailed

\* What the steps from loadTable on work on.
LEMMA MadeEqual ==
  ASSUME TypeOK, Loadable(before) # Bad, copy = Both(Loadable(before))
  PROVE  copy \in ReadFailed(before) /\ copy \in {before} \cup CopyFailed(before)
<1>1. before \in [0..1 -> Tables \cup {Bad}]
  BY DEF TypeOK
<1>2. copy \in ReadFailed(before)
  BY DEF ReadFailed
<1>3. CASE before[0] = before[1]
  <2>1. before = Both(Loadable(before))
    BY <1>1, <1>3, CopiesAre DEF Both, Loadable
  <2> QED
    BY <1>2, <2>1
<1>4. CASE before[0] # before[1]
  <2> DEFINE x == Loadable(before)
             repaired == [before EXCEPT ![Repaired(before)] = x]
  <2>1. x \in {before[0], before[1], Bad} /\ x \in Tables \cup {Bad}
    BY <1>1 DEF Loadable
  <2>2. repaired[0] = x /\ repaired[1] = x /\ repaired \in [0..1 -> Tables \cup {Bad}]
    BY <1>1, <2>1 DEF Repaired, Loadable
  <2>3. repaired = Both(x)
    <3> HIDE DEF repaired, x
    <3> QED
      BY <2>2, CopiesAre DEF Both
  <2> QED
    BY <1>2, <1>4, <2>1, <2>3 DEF CopyFailed
<1> QED
  BY <1>3, <1>4

\* A step in which the machine dies.
LEMMA DiesAsAssumed ==
  ASSUME TypeOK, OrderInv, CallInv, PowerLoss
  PROVE  AsAssumed
<1>1. /\ ret' = "none" /\ "dead" \in Failures /\ ~scanTable
      /\ IF pc \in Writing THEN TornWrite ELSE UNCHANGED copy
  BY DEF PowerLoss, Failures, scanTable, MountDone, Return
<1>2. ASSUME pc \in Mounting
      PROVE  MountAsAssumed
  <2>1. CASE pc = "copyWrite"
    BY <1>1, <2>1, TornRepair DEF MountAsAssumed, Writing
  <2>2. CASE pc \in Repairs
    <3>1. [tab |-> copy', res |-> "dead"] \in CommitOutcomes(Both(Loadable(before)), fat)
      BY <1>1, <2>2, TornUpdate DEF Writing, Repairs
    <3>2. fat # Loadable(before)
      BY <2>2 DEF CallInv
    <3>3. [tab |-> copy', res |-> "dead"] \in LoadOutcomes(before, fat)
      BY <3>1, <3>2 DEF LoadOutcomes
    <3> QED
      BY <1>1, <3>3 DEF MountAsAssumed
  <2>3. CASE pc \in {"load", "scan"}
    <3>1. copy \in {before} \cup CopyFailed(before)
      BY <2>3, MadeEqual DEF CallInv
    <3> QED
      BY <1>1, <2>3, <3>1 DEF MountAsAssumed, Writing
  <2>4. CASE pc \in Reading \cup {"scenario"} /\ pc # "load"
    BY <1>1, <2>4 DEF MountAsAssumed, Writing, Reading, CallInv, Untouched
  <2> QED
    BY <1>2, <2>1, <2>2, <2>3, <2>4 DEF Mounting, Repairs
<1>3. ASSUME pc \in Updating
      PROVE  UpdateAsAssumed
  <2>1. [tab |-> copy', res |-> "dead"] \in CommitOutcomes(before, fat)
    BY <1>1, <1>3, TornUpdate DEF Updating, Repairs, Writing
  <2> QED
    BY <1>1, <2>1 DEF UpdateAsAssumed
<1> QED
  BY <1>1, <1>2, <1>3 DEF AsAssumed

\* A step in which a read or a write reports an error.
LEMMA FailsAsAssumed ==
  ASSUME TypeOK, OrderInv, CallInv, ReadFails \/ WriteFails
  PROVE  AsAssumed
<1>1. "IO" \in Failures
  BY DEF ReadFails, WriteFails, TransientFault, Failures
<1>2. CASE ReadFails
  <2>1. /\ pc \in Reading \cup {"idle"} /\ lastError' = "IO" /\ UNCHANGED <<copy, mounted>>
        /\ pc \in {"validate0", "validate1"} => pc' # "idle"
        /\ pc \in {"copyRead", "load"} => ret' = "IO"
    BY <1>2 DEF ReadFails, Reading, Return
  <2>2. CASE pc = "load"
    <3>1. copy \in ReadFailed(before)
      BY <2>2, MadeEqual DEF CallInv
    <3> QED
      BY <2>1, <2>2, <3>1 DEF AsAssumed, MountAsAssumed, Updating, scanTable
  <2>3. CASE pc = "copyRead"
    <3>1. copy \in ReadFailed(before)
      BY <2>3 DEF CallInv, Untouched, ReadFailed
    <3> QED
      BY <2>1, <2>3, <3>1 DEF AsAssumed, MountAsAssumed, Updating, scanTable
  <2> QED
    BY <2>1, <2>2, <2>3 DEF AsAssumed, Reading, Mounting, Updating, scanTable
<1>3. CASE WriteFails
  <2>1. /\ TornWrite /\ pc \in Writing /\ UNCHANGED fat
        /\ pc = "copyWrite" => lastError' = "IO" /\ ret' = "IO" /\ UNCHANGED mounted
        /\ pc \in Repairs => lastError' = lastError /\ ret' = "OK" /\ mounted'
        /\ pc \in Updating => ret' = "IO" /\ UNCHANGED <<mounted, lastError>>
    BY <1>3 DEF WriteFails, Repairs, Updating, MountDone, Return
  <2>2. CASE pc = "copyWrite"
    BY <2>1, <2>2, TornRepair DEF AsAssumed, MountAsAssumed, Updating, scanTable
  <2>3. CASE pc \in Repairs
    <3>1. [tab |-> copy', res |-> "IO"] \in CommitOutcomes(Both(Loadable(before)), fat)
      BY <1>1, <2>1, <2>3, TornUpdate
    <3>2. fat # Loadable(before) /\ lastError = "OK"
      BY <2>3 DEF CallInv
    <3>3. [tab |-> copy', res |-> "IO"] \in LoadOutcomes(before, fat)
      BY <3>1, <3>2 DEF LoadOutcomes
    <3> QED
      BY <2>1, <2>3, <3>2, <3>3 DEF AsAssumed, MountAsAssumed, Updating, Repairs, scanTable
  <2>4. CASE pc \in Updating
    <3>1. [tab |-> copy', res |-> "IO"] \in CommitOutcomes(before, fat)
      BY <1>1, <2>1, <2>4, TornUpdate DEF Updating, Repairs
    <3>2. pc \notin Mounting
      BY <2>4 DEF Updating, Mounting, Reading
    <3> QED
      BY <2>1, <2>4, <3>1, <3>2 DEF AsAssumed, UpdateAsAssumed, Updating, scanTable
  <2> QED
    BY <2>1, <2>2, <2>3, <2>4 DEF Writing, Repairs, Updating
<1> QED
  BY <1>2, <1>3

\* A step without a fault.
LEMMA RunsAsAssumed ==
  ASSUME TypeOK, OrderInv, CallInv, Program
  PROVE  AsAssumed
<1>1. ASSUME NEW i \in 0..1, validateTable(i)
      PROVE  AsAssumed
  BY <1>1 DEF validateTable, AsAssumed, scanTable
<1>2. CASE MountIO
  <2>1. /\ pc = "scenario" /\ copy' = before /\ ret' = "IO" /\ lastError' = "IO"
        /\ UNCHANGED mounted
    BY <1>2 DEF MountIO, Return, CallInv, Untouched
  <2> QED
    BY <2>1 DEF AsAssumed, MountAsAssumed, ReadFailed, Updating, scanTable
<1>3. CASE MountEmpty
  <2>1. /\ pc = "scenario" /\ copy' = before /\ ret' = "EMPTY" /\ lastError' = "OK"
        /\ UNCHANGED mounted /\ before[0] = Bad /\ before[1] = Bad
    BY <1>3 DEF MountEmpty, Return, CallInv, Untouched
  <2> QED
    BY <2>1 DEF AsAssumed, MountAsAssumed, Loadable, Updating, scanTable
<1>4. CASE MountScenario \/ copyTableRead \/ copyTableWrite \/ loadTable
  BY <1>4 DEF MountScenario, copyTableRead, copyTableWrite, loadTable, AsAssumed, scanTable
<1>5. CASE scanTable
  <2>1. fat = Loadable(before) /\ pc = "scan" /\ lastError = "OK" /\ copy = Both(fat)
    BY <1>5 DEF scanTable, CallInv
  <2>2. ASSUME pc' = "idle"
        PROVE  ret' = "OK" /\ mounted' /\ UNCHANGED <<copy, fat, lastError>>
    BY <1>5, <2>2 DEF scanTable, MountDone, Return
  <2>3. [tab |-> copy, res |-> "OK"] \in LoadOutcomes(before, fat)
    BY <2>1 DEF LoadOutcomes
  <2> QED
    BY <2>1, <2>2, <2>3 DEF AsAssumed, MountAsAssumed, Updating
<1>6. CASE commitCopy1 \/ formatCopy1
  BY <1>6 DEF commitCopy1, formatCopy1, AsAssumed, scanTable
<1>7. CASE commitCopy2 \/ formatCopy2
  <2>1. /\ Write /\ pc \in {"repair1", "commit1", "format1"} /\ ret' = "OK"
        /\ UNCHANGED <<fat, lastError>>
        /\ IF pc = "repair1" THEN mounted' ELSE UNCHANGED mounted
    BY <1>7 DEF commitCopy2, formatCopy2, MountDone, Return
  <2>2. copy' = Both(fat)
    BY <2>1, LastWritten
  <2>3. CASE pc = "repair1"
    <3>1. fat # Loadable(before) /\ lastError = "OK"
      BY <2>3 DEF CallInv, Repairs
    <3>2. [tab |-> copy', res |-> "OK"] \in LoadOutcomes(before, fat)
      BY <2>2, <3>1, Written DEF LoadOutcomes
    <3> QED
      BY <2>1, <2>3, <3>1, <3>2 DEF AsAssumed, MountAsAssumed, Updating, scanTable
  <2>4. CASE pc \in {"commit1", "format1"}
    <3>1. [tab |-> copy', res |-> "OK"] \in CommitOutcomes(before, fat)
      BY <2>2, Written
    <3> QED
      BY <2>1, <2>4, <3>1
      DEF AsAssumed, UpdateAsAssumed, Mounting, Reading, scanTable
  <2> QED
    BY <2>1, <2>3, <2>4
<1> QED
  BY <1>1, <1>2, <1>3, <1>4, <1>5, <1>6, <1>7 DEF Program

\* Each call of the table store, an access at a time and under every kind of
\* fault, ends with a result, and with copies on the media, that MicroFS has for
\* the one step it takes; and scanTable works on the table that counted.
THEOREM StoreMeetsAssumptions == Spec => CallsAsAssumed
<1>1. TypeOK /\ OrderInv /\ CallInv /\ [Next]_vars => [AsAssumed]_vars
  <2> SUFFICES ASSUME TypeOK, OrderInv, CallInv, Next
               PROVE  AsAssumed
    OBVIOUS
  <2>1. CASE Caller
    BY <2>1 DEF Caller, MountCall, CommitCall, FormatCall, AsAssumed, scanTable
  <2>2. CASE PowerLoss
    BY <2>2, DiesAsAssumed
  <2>3. CASE ReadFails \/ WriteFails
    BY <2>3, FailsAsAssumed
  <2>4. CASE Program
    BY <2>4, RunsAsAssumed
  <2> QED
    BY <2>1, <2>2, <2>3, <2>4 DEF Next
<1> QED
  BY <1>1, TypeCorrect, OrderCorrect, CallsTracked, PTL DEF Spec, CallsAsAssumed
=============================================================================

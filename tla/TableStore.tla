----------------------------- MODULE TableStore -----------------------------
(***************************************************************************)
(* The two on-media copies of the allocation table of microFS, at the      *)
(* granularity of one device access per step: ufat_mount with              *)
(* validateTable, copyTable, loadTable and scanTable, ufat_format, and the *)
(* commitChanges every mutating call ends in.  A table is an opaque value; *)
(* its CRC is taken to be injective, so a copy is a table or Bad.          *)
(*                                                                         *)
(* A device access succeeds, or the machine dies in it ("power"), or it    *)
(* reports an error and the program runs on ("transient").                 *)
(***************************************************************************)
EXTENDS TableOutcomes

CONSTANTS
  Tables,     \* possible contents of a table
  Blank,      \* the table ufat_format builds
  MaxFaults   \* bound on the number of faults in a behaviour

ASSUME TablesAssumption == Blank \in Tables /\ Bad \notin Tables
ASSUME MaxFaultsAssumption == MaxFaults \in Nat

VARIABLES
  copy,       \* the two copies on the media
  fat,        \* fs->fat, the working copy in RAM
  buff,       \* fs->buff, the transfer buffer of copyTable
  seen,       \* the table validateTable found in each copy, or Bad
  to,         \* the copy this mount rebuilds; it loads the other one
  pc,         \* where the program is: idle, or about to make an access
  mounted,    \* fs->volumeMounted
  lastError,  \* fs->lastError, of which only UFAT_ERR_IO matters here
  ret,        \* result of the last call; "none" after a reset
  formatted,  \* history: a format completed and none has begun since
  before,     \* history: the copies when the call in progress began, or now
  faults      \* history: number of faults so far

vars == <<copy, fat, buff, seen, to, pc, mounted, lastError, ret, formatted,
          before, faults>>

Reading == {"validate0", "validate1", "copyRead", "load"}
Writing == {"copyWrite", "repair0", "repair1", "commit0", "commit1",
            "format0", "format1"}

TypeOK ==
  /\ copy \in [0..1 -> Tables \cup {Bad}]
  /\ fat \in Tables
  /\ buff \in Tables \cup {Bad}
  /\ seen \in [0..1 -> Tables \cup {Bad}]
  /\ to \in 0..1
  /\ pc \in {"idle", "scenario", "scan"} \cup Reading \cup Writing
  /\ mounted \in BOOLEAN
  /\ lastError \in {"OK", "IO"}
  /\ ret \in {"none", "OK", "IO", "EMPTY"}
  /\ formatted \in BOOLEAN
  /\ before \in [0..1 -> Tables \cup {Bad}]
  /\ faults \in 0..MaxFaults

Init ==
  /\ copy = [i \in 0..1 |-> Bad]
  /\ fat = Blank
  /\ buff = Bad
  /\ seen = [i \in 0..1 |-> Bad]
  /\ to = 0
  /\ pc = "idle"
  /\ mounted = FALSE
  /\ lastError = "OK"
  /\ ret = "none"
  /\ formatted = FALSE
  /\ before = copy
  /\ faults = 0

Return(r) == pc' = "idle" /\ ret' = r /\ before' = copy'

-----------------------------------------------------------------------------
(* The device. *)

\* A write that fails wrote nothing, everything, or a part that breaks the CRC.
Torn(old, new) == {old, new, Bad}

\* Mutant of Target: a commit writes copy 1 first.
TargetSwapped == CASE pc = "copyWrite" -> to
                   [] pc \in {"repair0", "commit0", "format0"} -> 1
                   [] OTHER -> 0

\* The copy the access at pc writes, and the RAM it is written from.
Target == CASE pc = "copyWrite" -> to
            [] pc \in {"repair0", "commit0", "format0"} -> 0
            [] OTHER -> 1
Source == IF pc = "copyWrite" THEN buff ELSE fat

Write == copy' = [copy EXCEPT ![Target] = Source]
TornWrite == \E x \in Torn(copy[Target], Source) : copy' = [copy EXCEPT ![Target] = x]

-----------------------------------------------------------------------------
(* ufat_mount. *)

MountCall ==
  /\ pc = "idle"
  /\ lastError' = "OK"
  /\ pc' = "validate0"
  /\ UNCHANGED <<copy, fat, buff, seen, to, mounted, ret, formatted, before, faults>>

validateTable(i) ==
  /\ pc = IF i = 0 THEN "validate0" ELSE "validate1"
  /\ seen' = [seen EXCEPT ![i] = copy[i]]
  /\ pc' = IF i = 0 THEN "validate1" ELSE "scenario"
  /\ UNCHANGED <<copy, fat, buff, to, mounted, lastError, ret, formatted, before, faults>>

\* lastError was cleared on entry, so it is IO when a validateTable failed.
MountIO ==
  /\ pc = "scenario"
  /\ lastError = "IO"
  /\ UNCHANGED <<copy, fat, buff, seen, to, mounted, lastError, formatted, faults>>
  /\ Return("IO")

\* Mutant of MountEmpty: another error is returned.
MountEmptyWrongCode ==
  /\ pc = "scenario"
  /\ lastError = "OK"
  /\ seen[0] = Bad /\ seen[1] = Bad
  /\ UNCHANGED <<copy, fat, buff, seen, to, mounted, lastError, formatted, faults>>
  /\ Return("CORRUPT")

\* Mutant of MountEmpty: one bad copy is enough.
MountEmptyHasty ==
  /\ pc = "scenario"
  /\ lastError = "OK"
  /\ seen[0] = Bad \/ seen[1] = Bad
  /\ UNCHANGED <<copy, fat, buff, seen, to, mounted, lastError, formatted, faults>>
  /\ Return("EMPTY")

MountEmpty ==
  /\ pc = "scenario"
  /\ lastError = "OK"
  /\ seen[0] = Bad /\ seen[1] = Bad
  /\ UNCHANGED <<copy, fat, buff, seen, to, mounted, lastError, formatted, faults>>
  /\ Return("EMPTY")

\* Mutant of MountScenario: copy 0 is always the one copied from.
MountScenarioOneWay ==
  /\ pc = "scenario"
  /\ lastError = "OK"
  /\ seen[0] # Bad \/ seen[1] # Bad
  /\ to' = 1
  /\ pc' = IF seen[0] = seen[1] THEN "load" ELSE "copyRead"
  /\ UNCHANGED <<copy, fat, buff, seen, mounted, lastError, ret, formatted, before, faults>>

\* Mutant of MountScenario: of two good copies, copy 1 is taken for the newer.
MountScenarioKeepsOld ==
  /\ pc = "scenario"
  /\ lastError = "OK"
  /\ \/ seen[0] # Bad /\ seen[1] = seen[0] /\ to' = 1 /\ pc' = "load"
     \/ seen[0] # Bad /\ seen[1] = Bad /\ to' = 1 /\ pc' = "copyRead"
     \/ seen[0] # seen[1] /\ seen[1] # Bad /\ to' = 0 /\ pc' = "copyRead"
  /\ UNCHANGED <<copy, fat, buff, seen, mounted, lastError, ret, formatted, before, faults>>

\* Two good copies are the same table, or copy 1 is the old one.
MountScenario ==
  /\ pc = "scenario"
  /\ lastError = "OK"
  /\ \/ seen[0] # Bad /\ seen[1] = seen[0] /\ to' = 1 /\ pc' = "load"
     \/ seen[0] # Bad /\ seen[1] # seen[0] /\ to' = 1 /\ pc' = "copyRead"
     \/ seen[0] = Bad /\ seen[1] # Bad /\ to' = 0 /\ pc' = "copyRead"
  /\ UNCHANGED <<copy, fat, buff, seen, mounted, lastError, ret, formatted, before, faults>>

copyTableRead ==
  /\ pc = "copyRead"
  /\ buff' = copy[1 - to]
  /\ pc' = "copyWrite"
  /\ UNCHANGED <<copy, fat, seen, to, mounted, lastError, ret, formatted, before, faults>>

copyTableWrite ==
  /\ pc = "copyWrite"
  /\ Write
  /\ pc' = "load"
  /\ UNCHANGED <<fat, buff, seen, to, mounted, lastError, ret, formatted, before, faults>>

\* The CRC was good when validateTable read this copy, and nothing wrote it since.
loadTable ==
  /\ pc = "load"
  /\ copy[1 - to] # Bad
  /\ fat' = copy[1 - to]
  /\ pc' = "scan"
  /\ UNCHANGED <<copy, buff, seen, to, mounted, lastError, ret, formatted, before, faults>>

MountDone == mounted' = TRUE /\ Return("OK")

\* scanTable finds nothing to recover, or turns fat into another table, which
\* ufat_mount then commits.
scanTable ==
  /\ pc = "scan"
  /\ UNCHANGED <<copy, buff, seen, to, lastError, formatted, faults>>
  /\ \/ MountDone /\ UNCHANGED fat
     \/ fat' \in Tables \ {fat} /\ pc' = "repair0" /\ UNCHANGED <<mounted, ret, before>>

-----------------------------------------------------------------------------
(* commitChanges, called by ufat_mount (repair) and by ufat_fclose and      *)
(* ufat_remove (commit).                                                     *)

\* A call on a mounted volume works on fat and reaches commitChanges.
CommitCall ==
  /\ pc = "idle"
  /\ mounted
  /\ lastError # "IO"
  /\ fat' \in Tables
  /\ pc' = "commit0"
  /\ UNCHANGED <<copy, buff, seen, to, mounted, lastError, ret, formatted, before, faults>>

commitCopy1 ==
  /\ pc \in {"repair0", "commit0"}
  /\ Write
  /\ pc' = IF pc = "repair0" THEN "repair1" ELSE "commit1"
  /\ UNCHANGED <<fat, buff, seen, to, mounted, lastError, ret, formatted, before, faults>>

commitCopy2 ==
  /\ pc \in {"repair1", "commit1"}
  /\ Write
  /\ IF pc = "repair1" THEN MountDone ELSE Return("OK") /\ UNCHANGED mounted
  /\ UNCHANGED <<fat, buff, seen, to, lastError, formatted, faults>>

-----------------------------------------------------------------------------
(* ufat_format: neither volumeMounted nor lastError is looked at or set.    *)

FormatCall ==
  /\ pc = "idle"
  /\ fat' = Blank
  /\ pc' = "format0"
  /\ formatted' = FALSE
  /\ UNCHANGED <<copy, buff, seen, to, mounted, lastError, ret, before, faults>>

formatCopy1 ==
  /\ pc = "format0"
  /\ Write
  /\ pc' = "format1"
  /\ UNCHANGED <<fat, buff, seen, to, mounted, lastError, ret, formatted, before, faults>>

formatCopy2 ==
  /\ pc = "format1"
  /\ Write
  /\ Return("OK")
  /\ formatted' = TRUE
  /\ UNCHANGED <<fat, buff, seen, to, mounted, lastError, faults>>

-----------------------------------------------------------------------------
(* Faults. *)

\* The machine dies, possibly in the middle of a write; RAM is initialised.
PowerLoss ==
  /\ "power" \in Faults
  /\ faults < MaxFaults
  /\ faults' = faults + 1
  /\ IF pc \in Writing THEN TornWrite ELSE UNCHANGED copy
  /\ fat' = Blank
  /\ buff' = Bad
  /\ seen' = [i \in 0..1 |-> Bad]
  /\ to' = 0
  /\ pc' = "idle"
  /\ mounted' = FALSE
  /\ lastError' = "OK"
  /\ ret' = "none"
  /\ before' = copy'
  /\ UNCHANGED formatted

TransientFault ==
  /\ "transient" \in Faults
  /\ faults < MaxFaults
  /\ faults' = faults + 1

\* A read reports an error.  ufat_mount goes on to validate the second copy
\* and otherwise returns; a failing loadTable leaves fat half loaded.  Between
\* these calls (idle) it is an access of a file operation to a data sector,
\* which may have worked on fat before.
ReadFails ==
  /\ TransientFault
  /\ pc \in Reading \/ (pc = "idle" /\ mounted /\ lastError # "IO")
  /\ UNCHANGED <<copy, buff, to, mounted, formatted>>
  /\ lastError' = "IO"
  /\ CASE pc = "validate0" -> pc' = "validate1" /\ UNCHANGED <<ret, before>>
       [] pc = "validate1" -> pc' = "scenario" /\ UNCHANGED <<ret, before>>
       [] OTHER -> Return("IO")
  /\ seen' = CASE pc = "validate0" -> [seen EXCEPT ![0] = Bad]
               [] pc = "validate1" -> [seen EXCEPT ![1] = Bad]
               [] OTHER -> seen
  /\ IF pc \in {"load", "idle"} THEN fat' \in Tables ELSE UNCHANGED fat

\* A write reports an error.  copyTable latches it in lastError; commitChanges
\* and ufat_format do not, and ufat_mount ignores what commitChanges returns.
WriteFails ==
  /\ TransientFault
  /\ pc \in Writing
  /\ TornWrite
  /\ lastError' = IF pc = "copyWrite" THEN "IO" ELSE lastError
  /\ IF pc \in {"repair0", "repair1"}
     THEN MountDone
     ELSE Return("IO") /\ UNCHANGED mounted
  /\ UNCHANGED <<fat, buff, seen, to, formatted>>

-----------------------------------------------------------------------------
Program ==
  \/ \E i \in 0..1 : validateTable(i)
  \/ MountIO \/ MountEmpty \/ MountScenario
  \/ copyTableRead \/ copyTableWrite \/ loadTable \/ scanTable
  \/ commitCopy1 \/ commitCopy2
  \/ formatCopy1 \/ formatCopy2

Caller == MountCall \/ CommitCall \/ FormatCall

Next == Program \/ Caller \/ PowerLoss \/ ReadFails \/ WriteFails

Spec == Init /\ [][Next]_vars

\* The program runs on once called, and a caller whose volume is not mounted
\* goes on calling ufat_mount, as the loop of the power stress test does.
Fairness ==
  /\ WF_vars(Program)
  /\ SF_vars(~mounted /\ MountCall)

FairSpec == Spec /\ Fairness

-----------------------------------------------------------------------------
(* Properties. *)

Mounting == {"scenario", "scan", "copyWrite", "repair0", "repair1"} \cup Reading
Updating == {"commit0", "commit1", "format0", "format1"}

\* MicroFS, which has a mount and an update of the table as one step each, has
\* all their results and what they leave on the media: of a mount that
\* reports an error or finds no table, of one that succeeds, and of one, or of
\* an update, that the machine dies in.  scanTable works on the table that
\* counted before.
MountAsAssumed ==
  /\ ret' = "IO" =>
       /\ copy' \in ReadFailed(before) \cup CopyFailed(before)
       /\ lastError' = "IO" /\ UNCHANGED mounted
  /\ ret' = "EMPTY" =>
       /\ copy' = before /\ Loadable(before) = Bad
       /\ lastError' = "OK" /\ UNCHANGED mounted
  /\ ret' = "OK" =>
       /\ \E o \in LoadOutcomes(before, fat) : o.res # "dead" /\ copy' = o.tab
       /\ lastError' = "OK" /\ mounted' /\ UNCHANGED fat
  /\ ret' = "none" =>
       \/ copy' \in {before} \cup CopyFailed(before)
       \/ \E o \in LoadOutcomes(before, fat) : o.res = "dead" /\ copy' = o.tab

UpdateAsAssumed ==
  /\ \E o \in CommitOutcomes(before, fat) :
       copy' = o.tab /\ ret' = IF o.res = "dead" THEN "none" ELSE o.res
  /\ ret' # "none" => UNCHANGED <<mounted, lastError, fat>>

AsAssumed ==
  /\ scanTable => fat = Loadable(before)
  /\ pc \in Mounting /\ pc' = "idle" => MountAsAssumed
  /\ pc \in Updating /\ pc' = "idle" => UpdateAsAssumed

CallsAsAssumed == [][AsAssumed]_vars

\* A formatted volume always has a copy that can be mounted: ufat_mount never
\* again answers UFAT_ERR_EMPTY.
Recoverable == formatted => \E i \in 0..1 : copy[i] # Bad

\* Copy 1 only ever becomes what copy 0 holds, so when both are good and
\* differ copy 1 is the older one, which is what ufat_mount assumes.
SecondFollowsFirst ==
  [][copy'[1] # copy[1] => copy'[1] \in {Bad, copy'[0]}]_vars

\* A formatted volume that is not mounted gets mounted, as soon as the device
\* stops failing, unless it is formatted again.
EventuallyMounts == formatted /\ ~mounted ~> mounted \/ ~formatted

\* The table a mount would load.
Durable == Loadable(copy)

\* The store implements an atomic, durable table as long as every fault takes
\* the machine with it.
Abstract == INSTANCE AtomicTable WITH
  NoTable <- Bad,
  durable <- Durable,
  pending <- IF pc \in {"repair0", "repair1", "commit0", "commit1",
                        "format0", "format1"} THEN fat ELSE Bad,
  erasing <- pc \in {"format0", "format1"},
  acked   <- ret = "OK"

AtomicUpdates == Abstract!Spec
=============================================================================

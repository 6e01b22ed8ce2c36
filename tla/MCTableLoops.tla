---------------------------- MODULE MCTableLoops ----------------------------
(* The loops over the entries of a table, on a volume of four data sectors:  *)
(* each is given tables that differ in what it looks at.  And the loop over  *)
(* the bytes of a table, its checksum, and the trace buffer, which share no  *)
(* state with them.                                                          *)
EXTENDS TableLoops, Crc32, TraceBuffer

DataSectors == 6..9

\* A checksum word, a sector of the table, the data sectors, beyond the end.
Links == {1, 4, 10, EOF} \cup DataSectors

Entries(c) ==
  CASE c \in {"free", "commit"} ->
         [next : Links, sof : {FALSE}, available : {FALSE}, written : {c = "free"}]
    [] c = "find" -> [next : {EOF}, sof : {FALSE}, available : BOOLEAN, written : {FALSE}]
    [] c = "search" -> [next : {EOF}, sof : BOOLEAN, available : {FALSE}, written : {TRUE}]
    [] c = "scan" -> [next : {EOF}, sof : {FALSE}, available : BOOLEAN, written : BOOLEAN]

LoopInit ==
  /\ call \in {"free", "commit", "find", "search", "scan"}
  /\ \E f \in [DataSectors -> Entries(call)] :
       fat = [x \in All |-> IF x \in DataSectors THEN f[x] ELSE ZeroEntry]
  /\ header \in IF call = "search" THEN SUBSET DataSectors ELSE {{}}
  /\ start \in IF call \in {"free", "commit"} THEN DataSectors ELSE {First}
  /\ pc = "call" /\ ret = [code |-> "OK", sector |-> 0]

\* No loop runs: a search of a full volume has ended.
NoLoop ==
  /\ call = "find" /\ fat = [x \in All |-> ZeroEntry]
  /\ header = {} /\ start = First
  /\ pc = "done" /\ ret = [code |-> "FULL", sector |-> 0]

MCInit ==
  /\ \/ (LoopInit \/ NoLoop) /\ TraceInit /\ traceBuffer = <<>>
     \/ NoLoop /\ TraceInit
  /\ current = 0 /\ next = 0 /\ limit = 0
  /\ before = fat /\ visited = {}
  /\ CrcInit

MCNext ==
  \/ Next /\ UNCHANGED <<crcVars, traceVars>>
  \/ pc = "done" /\ visited = {} /\ traceBuffer = <<>> /\ CrcNext /\ UNCHANGED <<vars, traceVars>>
  \/ traceBuffer # <<>> /\ TraceNext /\ UNCHANGED <<vars, crcVars>>

MCSpec ==
  /\ MCInit /\ [][MCNext]_<<vars, crcVars, traceVars>>
  /\ WF_vars(Next /\ UNCHANGED <<crcVars, traceVars>>)
=============================================================================

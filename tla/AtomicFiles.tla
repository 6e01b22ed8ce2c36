---------------------------- MODULE AtomicFiles ----------------------------
(***************************************************************************)
(* What microFS promises a careful caller: the volume is a map from names  *)
(* to the complete contents of one write session, and a write session      *)
(* takes effect at one instant or not at all.  Whatever device access      *)
(* fails, every file has the contents it had or the contents just written. *)
(***************************************************************************)
EXTENDS Naturals

CONSTANTS
  Names,        \* file names
  MaxSessions   \* number of write sessions begun in a behaviour

VARIABLES
  files,        \* the session whose contents each file has, 0 for no file
  session       \* the last write session begun

Init ==
  /\ files = [n \in Names |-> 0]
  /\ session = 0

\* A file is opened for writing: nothing durable changes.
Begin ==
  /\ session < MaxSessions
  /\ session' = session + 1
  /\ UNCHANGED files

\* The last session begun replaces a file.
Put(n) ==
  /\ session > 0
  /\ files' = [files EXCEPT ![n] = session]
  /\ UNCHANGED session

\* A file is removed, or replaced by a session that wrote nothing.
Delete(n) ==
  /\ files' = [files EXCEPT ![n] = 0]
  /\ UNCHANGED session

\* The volume is formatted.
Erase ==
  /\ files' = [n \in Names |-> 0]
  /\ UNCHANGED session

Next == Begin \/ Erase \/ \E n \in Names : Put(n) \/ Delete(n)

Spec == Init /\ [][Next]_<<files, session>>
=============================================================================

---------------------------- MODULE AtomicTable ----------------------------
(***************************************************************************)
(* What the two-copy table store of microFS promises its callers: the      *)
(* volume has one durable table; an update either replaces it or leaves it *)
(* alone, at one instant, whatever happens on the way; and an update that  *)
(* is acknowledged has replaced it.  Formatting is the exception: until it *)
(* is acknowledged it promises nothing about the table it erases.          *)
(***************************************************************************)
CONSTANTS
  Tables,    \* possible contents of a table
  NoTable    \* there is no table, or no update in progress

VARIABLES
  durable,   \* the table a mount would load now
  pending,   \* the table being written
  erasing,   \* the update in progress is a format
  acked      \* the last call to return reported success

vars == <<durable, pending, erasing, acked>>

Init ==
  /\ durable = NoTable
  /\ pending = NoTable
  /\ erasing = FALSE
  /\ acked \in BOOLEAN

\* An update, or a format, starts.
Begin ==
  /\ pending = NoTable
  /\ pending' \in Tables
  /\ erasing' \in BOOLEAN
  /\ UNCHANGED <<durable, acked>>

\* The instant at which the update takes effect.
Apply ==
  /\ pending # NoTable
  /\ durable' = pending
  /\ UNCHANGED <<pending, erasing, acked>>

\* The update returns, or the machine dies under it.
End ==
  /\ pending # NoTable
  /\ durable' \in IF erasing THEN Tables \cup {NoTable} ELSE {durable, pending}
  /\ acked' \in BOOLEAN
  /\ acked' => durable' = pending
  /\ pending' = NoTable
  /\ erasing' = FALSE

\* A call that updates nothing returns, or the machine dies while idle.
Answer ==
  /\ pending = NoTable
  /\ acked' \in BOOLEAN
  /\ UNCHANGED <<durable, pending, erasing>>

Next == Begin \/ Apply \/ End \/ Answer

Spec == Init /\ [][Next]_vars
=============================================================================

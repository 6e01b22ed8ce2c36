--------------------------- MODULE TableOutcomes ---------------------------
(***************************************************************************)
(* What the calls that write the table of microFS can leave of its two     *)
(* copies on the media.  MicroFS takes each such call for one step with    *)
(* these outcomes; TableStore, which makes one device access per step, is  *)
(* shown to have no others.                                                *)
(***************************************************************************)
EXTENDS Naturals

CONSTANTS
  Bad,        \* a copy of the table whose CRC does not match
  Faults      \* the kinds of device fault considered

ASSUME FaultsAssumption == Faults \subseteq {"power", "transient"}

\* How a failing access shows: the call goes on, or the machine is gone.
Failures == (IF "transient" \in Faults THEN {"IO"} ELSE {})
              \cup (IF "power" \in Faults THEN {"dead"} ELSE {})

Copies(x, y) == [i \in 0..1 |-> IF i = 0 THEN x ELSE y]
Both(f) == Copies(f, f)

-----------------------------------------------------------------------------
(* commitChanges, and the writes of ufat_format. *)

\* Mutant of CommitOutcomes: the result of the first write is not looked at.
CommitOutcomesUnchecked(tab, f) ==
  [tab : {Copies(x, f) : x \in {tab[0], f, Bad}}, res : {"OK"}]
    \cup [tab : {Copies(x, y) : x \in {tab[0], f, Bad}, y \in {tab[1], f, Bad}},
          res : Failures]

\* The outcomes of writing f to both copies of the table, copy 0 first.
CommitOutcomes(tab, f) ==
  [tab : {Both(f)}, res : {"OK"}]
    \cup [tab : {Copies(x, tab[1]) : x \in {tab[0], f, Bad}}
                  \cup {Copies(f, x) : x \in {tab[1], f, Bad}},
          res : Failures]

-----------------------------------------------------------------------------
(* ufat_mount. *)

\* The table a mount loads, or Bad.
Loadable(tab) == IF tab[0] # Bad THEN tab[0] ELSE tab[1]

\* Mutant of Repaired: of two good copies, copy 0 is taken for the old one.
RepairedNewer(tab) == IF tab[1] # Bad THEN 0 ELSE 1

\* The copy that is bad or old, when they differ.
Repaired(tab) == IF tab[0] # Bad THEN 1 ELSE 0

\* A read fails in validateTable or in copyTable, or in loadTable after the
\* copies were made equal.
ReadFailed(tab) ==
  {tab} \cup IF Loadable(tab) = Bad THEN {} ELSE {Both(Loadable(tab))}

\* copyTable fails to write the copy that is repaired, if one is.
CopyFailed(tab) ==
  IF tab[0] = tab[1] THEN {}
  ELSE {[tab EXCEPT ![Repaired(tab)] = x] : x \in {tab[0], tab[1], Bad}}

\* The copies are made equal, and new, which scanTable makes of the table they
\* have, is committed unless it is the same.
LoadOutcomes(tab, new) ==
  IF new = Loadable(tab) THEN [tab : {Both(new)}, res : {"OK"}]
  ELSE CommitOutcomes(Both(Loadable(tab)), new)
=============================================================================

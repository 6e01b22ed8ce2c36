----------------------------- MODULE MCMicroFS -----------------------------
(* Instances of MicroFS small enough for TLC. *)
EXTENDS MicroFSProps, TLC

\* Names and handles are interchangeable: nothing compares them but for equality.
Symmetric == Permutations(Names) \cup Permutations(Streams)

\* The data sectors after a table of two sectors.
OneSector == {2}
TwoSectors == 2..3
ThreeSectors == 2..4
=============================================================================

------------------------------ MODULE MCLayout ------------------------------
(* Volumes around the one of the tests, where the table fills its sectors. *)
EXTENDS Layout

Volumes == [sectors : 10..14, sectorSize : {4}, tableSectors : {3}]
=============================================================================

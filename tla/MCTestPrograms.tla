--------------------------- MODULE MCTestPrograms ---------------------------
(* An instance of the test programs small enough for TLC. *)
EXTENDS TestPrograms

FileNames == <<"test0", "test1", "test2", "test3", "test4", "test5", "test6", "test7", "test8">>
DataSectors == 2..9
AllNames == {"validate", "powercycles", "testfile"} \cup {FileNames[k] : k \in DOMAIN FileNames}
=============================================================================

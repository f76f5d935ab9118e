---------------------------- MODULE MCWriteQueue ----------------------------
(* A small instance of WriteQueue: three threads, one of which wants its   *)
(* first write synced and one of which asks for a new memtable.            *)
EXTENDS WriteQueue

Plain == [sync |-> FALSE, empty |-> FALSE]
Synced == [sync |-> TRUE, empty |-> FALSE]
Empty == [sync |-> FALSE, empty |-> TRUE]

FourWrites == [t1 |-> <<Synced, Plain>>, t2 |-> <<Plain>>, t3 |-> <<Empty>>]
=============================================================================

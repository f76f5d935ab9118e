----------------------------- MODULE MCStorage -----------------------------
(***************************************************************************)
(* Small instances of the parts of LevelDB.  They are joined by what each  *)
(* relies on, not by shared variables (LevelDB takes a log for a list of   *)
(* records, a table and a memtable for sets that readers see in order;     *)
(* RecordLog, Table and SkipList show what those come to), so one run      *)
(* explores each of them from its own initial states: part says which one  *)
(* a behaviour is of.                                                      *)
(***************************************************************************)
EXTENDS LevelDB, RecordLog, LRUCache, DBIterator, SkipList, Table

VARIABLE part

vars == <<part, levelDBVars, logVars, cacheVars, iteratorVars, skipListVars, tableVars>>

Put(k) == [key |-> k, del |-> FALSE]
Del(k) == [key |-> k, del |-> TRUE]

\* One key overwritten and deleted, and a batch that writes two.
TwoKeys == {<<Put(1)>>, <<Del(1)>>, <<Put(1), Put(2)>>}

\* A key before another with the same bytes, one that can be shortened, and
\* two that are runs of the last byte.
FourKeys == {<<0>>, <<0, 2>>, <<2>>, <<2, 2>>}

\* While one part runs, the others stay in one of their initial states.
QuietCache == /\ keyOf = [e \in Handles |-> CHOOSE k \in CacheKeys : TRUE]
              /\ charge = [e \in Handles |-> CHOOSE c \in Charges : TRUE]
QuietIterator == runs = [c \in Children |-> {}]

Init ==
    /\ part \in {"database", "log", "cache", "iterator", "list", "table"}
    /\ LevelDBInit /\ RecordLogInit /\ LRUCacheInit /\ IteratorInit /\ SkipListInit
    /\ TableInit
    /\ part # "cache" => QuietCache
    /\ part # "iterator" => QuietIterator

Next ==
    \/ part = "database" /\ LevelDBNext
           /\ UNCHANGED <<part, logVars, cacheVars, iteratorVars, skipListVars, tableVars>>
    \/ part = "log" /\ RecordLogNext
           /\ UNCHANGED <<part, levelDBVars, cacheVars, iteratorVars, skipListVars, tableVars>>
    \/ part = "cache" /\ LRUCacheNext
           /\ UNCHANGED <<part, levelDBVars, logVars, iteratorVars, skipListVars, tableVars>>
    \/ part = "iterator" /\ IteratorNext
           /\ UNCHANGED <<part, levelDBVars, logVars, cacheVars, skipListVars, tableVars>>
    \/ part = "list" /\ SkipListNext
           /\ UNCHANGED <<part, levelDBVars, logVars, cacheVars, iteratorVars, tableVars>>
    \/ part = "table" /\ TableNextState
           /\ UNCHANGED <<part, levelDBVars, logVars, cacheVars, iteratorVars, skipListVars>>

Spec == Init /\ [][Next]_vars
=============================================================================

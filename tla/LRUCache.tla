------------------------------ MODULE LRUCache ------------------------------
(***************************************************************************)
(* LevelDB's cache of blocks and of open tables (util/cache.cc), which     *)
(* reads on the database's thread and compactions on the background thread *)
(* share.  Every operation holds the cache's mutex; what has to come out   *)
(* right over all of them is the counting of references: an entry is freed *)
(* exactly when neither the cache nor a caller holds it.  A capacity of 0, *)
(* which turns caching off in tests, is left out.                          *)
(***************************************************************************)
EXTENDS Naturals, Sequences, SequencesExt, FiniteSetsExt

CONSTANTS
    CacheKeys,
    Handles,        \* entries a behaviour may allocate
    NoHandle,       \* NULL
    Capacity,
    Charges,        \* what an entry may be charged
    MaxRefs         \* bound on the handles to one entry

ASSUME LRUCacheAssumption ==
    /\ NoHandle \notin Handles
    /\ Capacity \in Nat \ {0} /\ Charges \subseteq Nat /\ MaxRefs \in Nat

VARIABLES
    keyOf,          \* keyOf[e], charge[e]: set when e is allocated
    charge,
    refs,           \* refs[e]
    inCache,        \* inCache[e]
    table,          \* table[k]: the entry the hash table has for k
    lru,            \* the list lru_, oldest first
    usage,
    held,           \* held[e]: how many handles to e the callers have
    allocated,
    freed           \* entries passed to their deleter

cacheVars == <<keyOf, charge, refs, inCache, table, lru, usage, held, allocated, freed>>

LRUCacheTypeOK ==
    /\ keyOf \in [Handles -> CacheKeys]
    /\ charge \in [Handles -> Charges]
    /\ refs \in [Handles -> Nat]
    /\ inCache \in [Handles -> BOOLEAN]
    /\ table \in [CacheKeys -> Handles \union {NoHandle}]
    /\ lru \in Seq(Handles)
    /\ usage \in Nat
    /\ held \in [Handles -> Nat]
    /\ allocated \in SUBSET Handles
    /\ freed \in SUBSET Handles

LRUCacheInit ==
    /\ keyOf \in {[e \in Handles |-> k] : k \in CacheKeys}
    /\ charge \in {[e \in Handles |-> c] : c \in Charges}
    /\ refs = [e \in Handles |-> 0]
    /\ inCache = [e \in Handles |-> FALSE]
    /\ table = [k \in CacheKeys |-> NoHandle]
    /\ lru = <<>>
    /\ usage = 0
    /\ held = [e \in Handles |-> 0]
    /\ allocated = {} /\ freed = {}

-----------------------------------------------------------------------------
\* LRU_Remove: e leaves lru_, when that is the list it is on.
Without(list, e) ==
    IF \E i \in DOMAIN list : list[i] = e
    THEN RemoveAt(list, CHOOSE i \in DOMAIN list : list[i] = e)
    ELSE list

TotalCharge(list) == FoldLeft(LAMBDA sum, e : sum + charge[e], 0, list)

\* How many of the oldest entries of list an insertion erases, when the cache
\* would be charged with used: the first that bring it under its capacity,
\* or all.
Enough(list, used, n) == n = Len(list) \/ used <= Capacity + TotalCharge(SubSeq(list, 1, n))

Evictions(list, used) ==
    {n \in 0..Len(list) :
        Enough(list, used, n) /\ \A m \in 0..Len(list) : Enough(list, used, m) => n <= m}

\* FinishErase of the entries S, on whose behalf the cache held a reference.
RefsAfterErase(S) == [e \in Handles |-> IF e \in S THEN refs[e] - 1 ELSE refs[e]]
InCacheAfterErase(S) == [e \in Handles |-> inCache[e] /\ e \notin S]
TableAfterErase(S) == [k \in CacheKeys |-> IF table[k] \in S THEN NoHandle ELSE table[k]]

\* Faulty FreedByErase: erasing frees whether a caller holds the entry or not.
FreedByEraseAnyway(S) == S

FreedByErase(S) == {e \in S : refs[e] = 1}

-----------------------------------------------------------------------------
\* Insert: a new entry, held by the cache and by the caller, takes the place of
\* the one with its key, and the oldest that nobody holds make room for it.
Insert(e, k, c) ==
    LET old == IF table[k] = NoHandle THEN {} ELSE {table[k]}
        list == IF table[k] = NoHandle THEN lru ELSE Without(lru, table[k])
        used == usage + c - (IF table[k] = NoHandle THEN 0 ELSE charge[table[k]])
    IN  /\ e \notin allocated
        /\ allocated' = allocated \union {e}
        /\ keyOf' = [keyOf EXCEPT ![e] = k]
        /\ charge' = [charge EXCEPT ![e] = c]
        /\ held' = [held EXCEPT ![e] = 1]
        /\ \E n \in Evictions(list, used) :
              LET gone == old \union {list[i] : i \in 1..n}
              IN  /\ refs' = [RefsAfterErase(gone) EXCEPT ![e] = 2]
                  /\ inCache' = [InCacheAfterErase(gone) EXCEPT ![e] = TRUE]
                  /\ table' = [TableAfterErase(gone) EXCEPT ![k] = e]
                  /\ lru' = SubSeq(list, n + 1, Len(list))
                  /\ usage' = used - TotalCharge(SubSeq(list, 1, n))
                  /\ freed' = freed \union FreedByErase(gone)

\* Lookup: the entry is held once more, and no longer on lru_.
Lookup(k) ==
    LET e == table[k] IN
    /\ e # NoHandle /\ held[e] < MaxRefs
    /\ refs' = [refs EXCEPT ![e] = @ + 1]
    /\ held' = [held EXCEPT ![e] = @ + 1]
    /\ lru' = IF refs[e] = 1 /\ inCache[e] THEN Without(lru, e) ELSE lru
    /\ UNCHANGED <<keyOf, charge, inCache, table, usage, allocated, freed>>

\* Faulty Release: an entry that was erased while it was held joins lru_.
ReleaseToList(e) ==
    /\ held[e] > 0
    /\ refs' = [refs EXCEPT ![e] = @ - 1]
    /\ held' = [held EXCEPT ![e] = @ - 1]
    /\ freed' = IF refs[e] = 1 THEN freed \union {e} ELSE freed
    /\ lru' = IF refs[e] = 2 THEN Append(lru, e) ELSE lru
    /\ UNCHANGED <<keyOf, charge, inCache, table, usage, allocated>>

\* Release: the last reference frees the entry, and the last but the cache's
\* makes it the newest of lru_.
Release(e) ==
    /\ held[e] > 0
    /\ refs' = [refs EXCEPT ![e] = @ - 1]
    /\ held' = [held EXCEPT ![e] = @ - 1]
    /\ freed' = IF refs[e] = 1 THEN freed \union {e} ELSE freed
    /\ lru' = IF refs[e] = 2 /\ inCache[e] THEN Append(lru, e) ELSE lru
    /\ UNCHANGED <<keyOf, charge, inCache, table, usage, allocated>>

\* Erase
Erase(k) ==
    LET e == table[k] IN
    /\ e # NoHandle
    /\ refs' = RefsAfterErase({e})
    /\ inCache' = InCacheAfterErase({e})
    /\ table' = TableAfterErase({e})
    /\ lru' = Without(lru, e)
    /\ usage' = usage - charge[e]
    /\ freed' = freed \union FreedByErase({e})
    /\ UNCHANGED <<keyOf, charge, held, allocated>>

\* Prune: every entry that nobody holds is erased.
Prune ==
    LET gone == {lru[i] : i \in DOMAIN lru} IN
    /\ lru # <<>>
    /\ refs' = RefsAfterErase(gone)
    /\ inCache' = InCacheAfterErase(gone)
    /\ table' = TableAfterErase(gone)
    /\ lru' = <<>>
    /\ usage' = usage - TotalCharge(lru)
    /\ freed' = freed \union FreedByErase(gone)
    /\ UNCHANGED <<keyOf, charge, held, allocated>>

LRUCacheNext ==
    \/ \E e \in Handles, k \in CacheKeys, c \in Charges : Insert(e, k, c)
    \/ \E k \in CacheKeys : Lookup(k) \/ Erase(k)
    \/ \E e \in Handles : Release(e)
    \/ Prune

LRUCacheSpec == LRUCacheInit /\ [][LRUCacheNext]_cacheVars

-----------------------------------------------------------------------------
\* An entry is freed exactly when nobody can reach it any more: a handle never
\* leads to freed memory, nor the hash table or the list of what may be erased
\* next, and nothing that neither the cache nor a caller holds stays behind
\* (the counting in Ref, Unref and FinishErase).
FreedWhenUnreachable ==
    \A e \in allocated :
        e \in freed <=> /\ held[e] = 0
                        /\ \A k \in CacheKeys : table[k] # e
                        /\ \A i \in DOMAIN lru : lru[i] # e

\* The entries that may be erased to make room are those of the cache that
\* nobody holds, each of them once (the comments on the two lists).
ListIsExact ==
    /\ IsInjective(lru)
    /\ ToSet(lru) = {e \in allocated : table[keyOf[e]] = e /\ held[e] = 0}

\* And the cache is charged with what it has in it, erased or replaced entries
\* no longer.
LeastRecentlyUsedIsExact ==
    /\ ListIsExact
    /\ usage = MapThenSumSet(LAMBDA e : charge[e], {table[k] : k \in CacheKeys} \ {NoHandle})
=============================================================================

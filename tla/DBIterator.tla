---------------------------- MODULE DBIterator -----------------------------
(***************************************************************************)
(* An iterator of LevelDB (db/db_iter.cc over table/merger.cc): it merges  *)
(* the memtable and tables it was opened on and shows, in both directions, *)
(* the newest entry of each user key at its sequence number.  The writer   *)
(* goes on inserting into the memtable while the iterator stands in it.    *)
(*                                                                         *)
(* Each turn of the loops of FindNextUserEntry, Prev and FindPrevUserEntry *)
(* is a step of its own.  Unreadable entries and the sampling of reads are *)
(* left out.                                                               *)
(***************************************************************************)
EXTENDS InternalKey, FiniteSetsExt

CONSTANTS
    IteratorKeys,   \* user keys, numbers above 0
    NumRuns,        \* runs merged: 1 is the memtable, the others tables
    MaxEntries,     \* bound: entries there are when the iterator is opened
    MaxInserts      \* bound: entries inserted since

ASSUME DBIteratorAssumption ==
    /\ IteratorKeys \subseteq Nat \ {0}
    /\ NumRuns \in Nat \ {0} /\ MaxEntries \in Nat /\ MaxInserts \in Nat

VARIABLES
    runs,           \* runs[c]: the entries of child c
    sequence,       \* sequence_
    merge,          \* MergingIterator: where its children are, current_ and direction_
    direction,      \* direction_ of the DBIter
    valid,          \* valid_
    savedKey,       \* saved_key_ and saved_value_, 0 when clear
    savedValue,
    loop,           \* the loop the call in progress is in, or "none"
    skipping,       \* FindNextUserEntry: skipping
    found,          \* FindPrevUserEntry: value_type # kTypeDeletion
    wanted          \* ghost: the user key the last call should end at, or 0

iteratorVars ==
    <<runs, sequence, merge, direction, valid, savedKey, savedValue, loop,
      skipping, found, wanted>>

Children == 1..NumRuns
Numbers == 1..(MaxEntries + MaxInserts)
IteratorEntry == [key : IteratorKeys, seq : Numbers, del : BOOLEAN]
End == [key |-> 0, seq |-> 0, del |-> FALSE]
Directions == {"forward", "reverse"}

IteratorTypeOK ==
    /\ runs \in [Children -> SUBSET IteratorEntry]
    /\ sequence \in 0..MaxEntries
    /\ merge.at \in [Children -> IteratorEntry \union {End}]
    /\ merge.current \in Children \union {0}
    /\ merge.direction \in Directions /\ direction \in Directions
    /\ valid \in BOOLEAN /\ skipping \in BOOLEAN /\ found \in BOOLEAN
    /\ savedKey \in IteratorKeys \union {0}
    /\ savedValue \in Numbers \union {0}
    /\ loop \in {"none", "next", "back", "prev"}
    /\ wanted \in IteratorKeys \union {0}

-----------------------------------------------------------------------------
\* A child: the first and last of a set of entries in the order of internal
\* keys, and what follows or precedes an entry.

Earliest(S) == IF S = {} THEN End ELSE CHOOSE e \in S : \A f \in S \ {e} : Before(e, f)
Latest(S) == IF S = {} THEN End ELSE CHOOSE e \in S : \A f \in S \ {e} : Before(f, e)
After(S, e) == Earliest({f \in S : Before(e, f)})
Preceding(S, e) == Latest({f \in S : Before(f, e)})

-----------------------------------------------------------------------------
(* MergingIterator *)

Standing(at) == {c \in Children : at[c] # End}

\* FindSmallest and FindLargest make the child with the least or the greatest
\* entry current_, or none.
Smallest(at) ==
    [at |-> at, direction |-> "forward",
     current |-> IF Standing(at) = {} THEN 0
                 ELSE CHOOSE c \in Standing(at) : at[c] = Earliest({at[d] : d \in Standing(at)})]
Largest(at) ==
    [at |-> at, direction |-> "reverse",
     current |-> IF Standing(at) = {} THEN 0
                 ELSE CHOOSE c \in Standing(at) : at[c] = Latest({at[d] : d \in Standing(at)})]

MergeValid(m) == m.current # 0
MergeKey(m) == m.at[m.current]

MergeSeekToFirst == Smallest([c \in Children |-> Earliest(runs[c])])
MergeSeekToLast == Largest([c \in Children |-> Latest(runs[c])])
MergeSeek(k, s) ==
    Smallest([c \in Children |-> Earliest({e \in runs[c] : ~Before(e, [key |-> k, seq |-> s])})])

\* Faulty MergeNext: the other children stay where moving backwards left them.
MergeNextWithoutSeek(m) ==
    Smallest([m.at EXCEPT ![m.current] = After(runs[m.current], MergeKey(m))])

\* Next and Prev: after a change of direction the other children are sought
\* anew, to the first entry after the current one or the last before it.
MergeNext(m) ==
    Smallest([c \in Children |-> IF c = m.current \/ m.direction = "reverse"
                                 THEN After(runs[c], MergeKey(m)) ELSE m.at[c]])
MergePrev(m) ==
    Largest([c \in Children |-> IF c = m.current \/ m.direction = "forward"
                                THEN Preceding(runs[c], MergeKey(m)) ELSE m.at[c]])

-----------------------------------------------------------------------------
(* DBIter *)

\* key() and value().
Key == IF direction = "forward" THEN MergeKey(merge).key ELSE savedKey
Value == IF direction = "forward" THEN MergeKey(merge).seq ELSE savedValue

\* The reference: the user keys that have a value at sequence, and the value.
Merged == UNION {runs[c] : c \in Children}
ViewOf(k) == Answer(Hits(Merged, k, sequence))
View == {k \in IteratorKeys : ViewOf(k) # 0}
LeastKey(S) == IF S = {} THEN 0 ELSE Min(S)
GreatestKey(S) == IF S = {} THEN 0 ELSE Max(S)

\* Any history of up to MaxEntries writes, spread over the runs: of one user
\* key, an entry in an earlier run is newer than one in a later.
IteratorInit ==
    /\ \E n \in 0..MaxEntries : \E h \in [1..n -> [key : IteratorKeys, del : BOOLEAN]],
                                   run \in [1..n -> Children] :
          /\ \A i, j \in 1..n : i < j /\ h[i].key = h[j].key => run[j] <= run[i]
          /\ runs = [c \in Children |->
                       {[key |-> h[i].key, seq |-> i, del |-> h[i].del] : i \in {i \in 1..n : run[i] = c}}]
          /\ sequence \in 0..n
    /\ merge = [at |-> [c \in Children |-> End], current |-> 0, direction |-> "forward"]
    /\ direction = "forward" /\ valid = FALSE
    /\ savedKey = 0 /\ savedValue = 0
    /\ loop = "none" /\ skipping = FALSE /\ found = FALSE /\ wanted = 0

\* The writer adds an entry to the memtable.
InsertIntoMemTable(k, d) ==
    LET last == Max({e.seq : e \in Merged} \union {0}) IN
    /\ last < MaxEntries + MaxInserts /\ last >= sequence
    /\ runs' = [runs EXCEPT ![1] = @ \union {[key |-> k, seq |-> last + 1, del |-> d]}]
    /\ UNCHANGED <<sequence, merge, direction, valid, savedKey, savedValue, loop, skipping,
                   found, wanted>>

Fixed == UNCHANGED <<runs, sequence>>
Finish(ok) == valid' = ok /\ loop' = "none"

\* Seek and SeekToFirst: the first visible entry from m on.  (What Seek keeps
\* in saved_key_ meanwhile is not compared with anything.)
SeekForward(m) ==
    /\ loop = "none"
    /\ merge' = m /\ direction' = "forward"
    /\ savedKey' = 0 /\ savedValue' = 0
    /\ IF MergeValid(m) THEN loop' = "next" /\ UNCHANGED valid ELSE Finish(FALSE)
    /\ skipping' = FALSE
    /\ Fixed /\ UNCHANGED found

SeekToFirst == SeekForward(MergeSeekToFirst) /\ wanted' = LeastKey(View)
Seek(k) == SeekForward(MergeSeek(k, sequence)) /\ wanted' = LeastKey({j \in View : j >= k})

SeekToLast ==
    /\ loop = "none"
    /\ merge' = MergeSeekToLast /\ direction' = "reverse"
    /\ savedValue' = 0
    /\ loop' = "prev" /\ found' = FALSE
    /\ wanted' = GreatestKey(View)
    /\ Fixed /\ UNCHANGED <<valid, savedKey, skipping>>

\* Next: forwards, the current key is the one to skip; backwards it is
\* saved_key_, and the merged runs stand just before its entries.
StepForward ==
    LET m == IF direction = "forward" THEN merge
             ELSE IF MergeValid(merge) THEN MergeNext(merge) ELSE MergeSeekToFirst
    IN  /\ loop = "none" /\ valid
        /\ merge' = m /\ direction' = "forward"
        /\ savedKey' = IF ~MergeValid(m) THEN 0 ELSE Key
        /\ IF MergeValid(m) THEN loop' = "next" /\ UNCHANGED valid ELSE Finish(FALSE)
        /\ skipping' = TRUE
        /\ wanted' = LeastKey({k \in View : k > Key})
        /\ Fixed /\ UNCHANGED <<savedValue, found>>

\* A turn of FindNextUserEntry: the entry is yielded, or it is passed over and,
\* a deletion, hides the older ones of its key.
FindNextUserEntry ==
    LET e == MergeKey(merge)
        visible == e.seq <= sequence
        yields == visible /\ ~e.del /\ ~(skipping /\ e.key <= savedKey)
        m == IF yields THEN merge ELSE MergeNext(merge)
        ends == yields \/ ~MergeValid(m)
    IN  /\ loop = "next"
        /\ merge' = m
        /\ skipping' = (skipping \/ (visible /\ e.del))
        /\ savedKey' = IF ends THEN 0 ELSE IF visible /\ e.del THEN e.key ELSE savedKey
        /\ IF ends THEN Finish(yields) ELSE UNCHANGED <<valid, loop>>
        /\ Fixed /\ UNCHANGED <<direction, savedValue, found, wanted>>

\* Prev: forwards, the merged runs stand at the current entry and are first
\* moved back before all entries of its key.
StepBackward ==
    /\ loop = "none" /\ valid
    /\ wanted' = GreatestKey({k \in View : k < Key})
    /\ IF direction = "forward"
       THEN savedKey' = Key /\ loop' = "back" /\ UNCHANGED found
       ELSE loop' = "prev" /\ found' = FALSE /\ UNCHANGED savedKey
    /\ Fixed /\ UNCHANGED <<merge, direction, valid, savedValue, skipping>>

\* A turn of the loop in Prev.
ScanBack ==
    LET m == MergePrev(merge)
        before == MergeValid(m) /\ MergeKey(m).key < savedKey
    IN  /\ loop = "back"
        /\ merge' = m
        /\ IF ~MergeValid(m)
           THEN Finish(FALSE) /\ savedKey' = 0 /\ savedValue' = 0
           ELSE UNCHANGED <<valid, savedKey, savedValue>> /\ loop' = IF before THEN "prev" ELSE "back"
        /\ direction' = IF before THEN "reverse" ELSE direction
        /\ found' = FALSE
        /\ Fixed /\ UNCHANGED <<skipping, wanted>>

\* A turn of FindPrevUserEntry: an entry of a smaller key ends it when a value
\* was seen last; otherwise the entry, the newest so far of its key, is kept.
FindPrevUserEntry ==
    LET e == MergeKey(merge)
        visible == MergeValid(merge) /\ e.seq <= sequence
        ends == ~MergeValid(merge) \/ (visible /\ found /\ e.key < savedKey)
    IN  /\ loop = "prev"
        /\ merge' = IF ends THEN merge ELSE MergePrev(merge)
        /\ IF ends
           THEN /\ Finish(found)
                /\ direction' = IF found THEN "reverse" ELSE "forward"
                /\ savedKey' = (IF found THEN savedKey ELSE 0)
                /\ savedValue' = (IF found THEN savedValue ELSE 0)
                /\ UNCHANGED found
           ELSE /\ found' = IF visible THEN ~e.del ELSE found
                /\ savedKey' = (IF ~visible THEN savedKey ELSE IF e.del THEN 0 ELSE e.key)
                /\ savedValue' = (IF ~visible THEN savedValue ELSE IF e.del THEN 0 ELSE e.seq)
                /\ UNCHANGED <<valid, loop, direction>>
        /\ Fixed /\ UNCHANGED <<skipping, wanted>>

IteratorNext ==
    \/ \E k \in IteratorKeys, d \in BOOLEAN : InsertIntoMemTable(k, d)
    \/ SeekToFirst \/ SeekToLast \/ \E k \in IteratorKeys : Seek(k)
    \/ StepForward \/ FindNextUserEntry
    \/ StepBackward \/ ScanBack \/ FindPrevUserEntry

IteratorSpec == IteratorInit /\ [][IteratorNext]_iteratorVars

-----------------------------------------------------------------------------
\* Whatever calls were made before, in whichever order, and whatever the
\* writer has inserted meanwhile, an iterator ends each call at the key the
\* call asks for of those that have a value at its sequence number, shows that
\* value, and is invalid exactly when there is none; the merged runs stand
\* where the comment on Direction says, at the entry shown or before all
\* entries of its key, which the next change of direction relies on.
IteratorIsTheView ==
    loop = "none" =>
        /\ valid <=> wanted # 0
        /\ valid => Key = wanted /\ Value = ViewOf(wanted)
        /\ valid /\ direction = "reverse" /\ MergeValid(merge) => MergeKey(merge).key < Key
=============================================================================

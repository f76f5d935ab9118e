--------------------------- MODULE StorageProofs ---------------------------
(***************************************************************************)
(* Three of the parts of LevelDB that threads share.                       *)
(*                                                                         *)
(* The cache, for any keys, entries, charges and capacity: an entry is     *)
(* freed exactly when nobody can reach it.  The argument is a count.  The  *)
(* references of an entry are the handles the callers have and one for the *)
(* cache while the entry is in it; it is in it exactly while the hash      *)
(* table has it, and on the list only if nobody holds it besides.  Then no *)
(* reference is left exactly when no caller, neither the table nor the     *)
(* list, has the entry.                                                    *)
(*                                                                         *)
(* The queue of writers, for any threads and writes: the log has what the  *)
(* queue had, in its order, and what was answered with ok.  Only the head  *)
(* of the queue can do more than wait; so one group is written at a time,  *)
(* it is the beginning of the queue, and the queue is the end of all the   *)
(* calls there were: what the log gets next lies right behind what it has. *)
(*                                                                         *)
(* The skip list, for any number of keys and any height: a reader, who     *)
(* takes no lock, passes over no key that was there when it asked.  No     *)
(* induction along the list is needed.  On level 0 every link of a linked  *)
(* node leads to its neighbour: no linked key lies between the two.        *)
(* On the levels above it is enough that a link leads to a greater node    *)
(* that is linked on all levels below, so that a search that stands before *)
(* its target may drop and finds links that are set.  What Insert found in *)
(* prev stays the place of its key, because nobody else writes.            *)
(***************************************************************************)
EXTENDS LRUCache, WriteQueue, SkipList, FiniteSetTheorems, SequenceTheorems,
        WellFoundedInduction, TLAPS

Injective(s) == \A i, j \in 1..Len(s) : s[i] = s[j] => i = j
InList(e, s) == \E i \in 1..Len(s) : s[i] = e

Shapes ==
    /\ keyOf \in [Handles -> CacheKeys]
    /\ refs \in [Handles -> Nat]
    /\ inCache \in [Handles -> BOOLEAN]
    /\ table \in [CacheKeys -> Handles \union {NoHandle}]
    /\ lru \in Seq(Handles)
    /\ held \in [Handles -> Nat]
    /\ allocated \subseteq Handles

\* What the table has is what is in the cache, under its key.
TableIsExact ==
    /\ \A k \in CacheKeys : table[k] # NoHandle => inCache[table[k]] /\ keyOf[table[k]] = k
    /\ \A e \in Handles : inCache[e] => e \in allocated /\ table[keyOf[e]] = e
ListIsIdle ==
    /\ Injective(lru)
    /\ \A i \in 1..Len(lru) : inCache[lru[i]] /\ held[lru[i]] = 0
    /\ \A e \in Handles : inCache[e] /\ held[e] = 0 => InList(e, lru)
RefsCount ==
    \A e \in allocated : /\ refs[e] = held[e] + (IF inCache[e] THEN 1 ELSE 0)
                         /\ e \in freed <=> refs[e] = 0
NotYet == \A e \in Handles \ allocated : e \notin freed /\ held[e] = 0 /\ ~inCache[e]

CacheInvariant == Shapes /\ TableIsExact /\ ListIsIdle /\ RefsCount /\ NotYet

-----------------------------------------------------------------------------
\* Without takes away one entry and keeps the order of the others.
LEMMA WithoutOne ==
    ASSUME NEW S, NEW s \in Seq(S), Injective(s), NEW e
    PROVE  /\ Without(s, e) \in Seq(S)
           /\ Injective(Without(s, e))
           /\ \A i \in 1..Len(Without(s, e)) : Without(s, e)[i] # e /\ InList(Without(s, e)[i], s)
           /\ \A f : f # e /\ InList(f, s) => InList(f, Without(s, e))
  <1>1. CASE ~InList(e, s)
    <2>1. Without(s, e) = s
      BY <1>1 DEF Without, InList
    <2> QED BY <1>1, <2>1 DEF InList
  <1>2. CASE InList(e, s)
    <2>0. \E i \in DOMAIN s : s[i] = e
      BY <1>2 DEF InList
    <2>1. PICK i \in 1..Len(s) : s[i] = e /\ Without(s, e) = RemoveAt(s, i)
      <3> DEFINE c == CHOOSE i \in DOMAIN s : s[i] = e
      <3>1. c \in DOMAIN s /\ s[c] = e
        BY <2>0
      <3>2. Without(s, e) = RemoveAt(s, c)
        BY <2>0 DEF Without
      <3>3. c \in 1..Len(s)
        BY <3>1
      <3> QED BY <3>1, <3>2, <3>3
    <2> DEFINE a == SubSeq(s, 1, i - 1)
               b == SubSeq(s, i + 1, Len(s))
    <2>2. a \in Seq(S) /\ Len(a) = i - 1 /\ \A j \in 1..i - 1 : a[j] = s[j]
      OBVIOUS
    <2>3. b \in Seq(S) /\ Len(b) = Len(s) - i /\ \A j \in 1..Len(s) - i : b[j] = s[j + i]
      OBVIOUS
    <2>4. Without(s, e) = a \o b
      BY <2>1 DEF RemoveAt
    <2> HIDE DEF a, b
    <2>5. /\ a \o b \in Seq(S) /\ Len(a \o b) = Len(s) - 1
          /\ \A j \in 1..Len(s) - 1 : (a \o b)[j] = IF j < i THEN s[j] ELSE s[j + 1]
      <3>1. /\ a \o b \in Seq(S) /\ Len(a \o b) = Len(a) + Len(b)
            /\ \A j \in 1..Len(a) + Len(b) :
                  (a \o b)[j] = IF j <= Len(a) THEN a[j] ELSE b[j - Len(a)]
        BY <2>2, <2>3, ConcatProperties
      <3>2. i \in Nat /\ i >= 1 /\ i <= Len(s) /\ Len(s) \in Nat
        OBVIOUS
      <3>3. Len(a \o b) = Len(s) - 1
        BY <2>2, <2>3, <3>1, <3>2
      <3>4. ASSUME NEW j \in 1..Len(s) - 1
            PROVE  (a \o b)[j] = IF j < i THEN s[j] ELSE s[j + 1]
        <4>0. j \in Nat /\ j >= 1 /\ j <= Len(s) - 1 /\ j \in 1..Len(a) + Len(b)
          BY <2>2, <2>3, <3>2
        <4>1. (a \o b)[j] = IF j <= Len(a) THEN a[j] ELSE b[j - Len(a)]
          BY <3>1, <4>0
        <4>2. CASE j < i
          <5>1. j <= Len(a) /\ j \in 1..i - 1
            BY <2>2, <3>2, <4>0, <4>2
          <5>2. a[j] = s[j]
            BY <2>2, <5>1
          <5> QED BY <4>1, <4>2, <5>1, <5>2
        <4>3. CASE ~(j < i)
          <5>1. ~(j <= Len(a)) /\ j - Len(a) \in 1..Len(s) - i /\ (j - Len(a)) + i = j + 1
            BY <2>2, <3>2, <4>0, <4>3
          <5>2. b[j - Len(a)] = s[j + 1]
            BY <2>3, <5>1
          <5> QED BY <4>1, <4>3, <5>1, <5>2
        <4> QED BY <4>2, <4>3
      <3> QED BY <3>1, <3>3, <3>4
    <2> DEFINE w == Without(s, e)
    <2>6. /\ w \in Seq(S) /\ Len(w) = Len(s) - 1
          /\ \A j \in 1..Len(s) - 1 : w[j] = IF j < i THEN s[j] ELSE s[j + 1]
      BY <2>4, <2>5
    <2> HIDE DEF w
    <2>7. ASSUME NEW j \in 1..Len(w)
          PROVE  \E m \in 1..Len(s) :
                    m # i /\ w[j] = s[m] /\ m = (IF j < i THEN j ELSE j + 1)
      BY <2>6
    <2>8. /\ Injective(w)
          /\ \A j \in 1..Len(w) : w[j] # e /\ InList(w[j], s)
      <3>1. \A j, k \in 1..Len(w) : w[j] = w[k] => j = k
        <4> SUFFICES ASSUME NEW j \in 1..Len(w), NEW k \in 1..Len(w), w[j] = w[k] PROVE j = k
          OBVIOUS
        <4>1. PICK m \in 1..Len(s) : w[j] = s[m] /\ m = (IF j < i THEN j ELSE j + 1)
          BY <2>7
        <4>2. PICK n \in 1..Len(s) : w[k] = s[n] /\ n = (IF k < i THEN k ELSE k + 1)
          BY <2>7
        <4>3. m = n
          BY <4>1, <4>2 DEF Injective
        <4> QED BY <4>1, <4>2, <4>3
      <3>2. \A j \in 1..Len(w) : w[j] # e /\ InList(w[j], s)
        BY <2>1, <2>7 DEF Injective, InList
      <3> QED BY <3>1, <3>2 DEF Injective
    <2>9. ASSUME NEW m \in 1..Len(s), m # i PROVE InList(s[m], w)
      <3>0. m \in Nat /\ i \in Nat /\ Len(s) \in Nat /\ m >= 1 /\ m <= Len(s) /\ i >= 1 /\ i <= Len(s)
        OBVIOUS
      <3>1. CASE m < i
        <4>1. m \in 1..Len(s) - 1 /\ w[m] = s[m]
          BY <2>6, <3>0, <3>1
        <4> QED BY <2>6, <4>1 DEF InList
      <3>2. CASE m > i
        <4>1. m - 1 \in 1..Len(s) - 1 /\ ~(m - 1 < i) /\ (m - 1) + 1 = m
          BY <3>0, <3>2
        <4>2. w[m - 1] = s[m]
          BY <2>6, <4>1
        <4> QED BY <2>6, <4>1, <4>2 DEF InList
      <3> QED BY <2>9, <3>0, <3>1, <3>2
    <2>10. \A f : f # e /\ InList(f, s) => InList(f, w)
      BY <2>1, <2>9 DEF InList
    <2> QED BY <2>6, <2>8, <2>10 DEF w
  <1> QED BY <1>1, <1>2

\* The end of a list has entries of the list, and none of those before it.
LEMMA EndOfList ==
    ASSUME NEW S, NEW s \in Seq(S), Injective(s), NEW n \in 0..Len(s)
    PROVE  /\ SubSeq(s, n + 1, Len(s)) \in Seq(S)
           /\ Injective(SubSeq(s, n + 1, Len(s)))
           /\ \A i \in 1..Len(SubSeq(s, n + 1, Len(s))) :
                 /\ InList(SubSeq(s, n + 1, Len(s))[i], s)
                 /\ SubSeq(s, n + 1, Len(s))[i] \notin {s[j] : j \in 1..n}
           /\ \A f : InList(f, s) => \/ f \in {s[j] : j \in 1..n}
                                    \/ InList(f, SubSeq(s, n + 1, Len(s)))
  <1> DEFINE t == SubSeq(s, n + 1, Len(s))
  <1>1. t \in Seq(S) /\ Len(t) = Len(s) - n /\ \A j \in 1..Len(s) - n : t[j] = s[j + n]
    OBVIOUS
  <1>0. Len(s) \in Nat /\ n \in Nat /\ n <= Len(s)
    OBVIOUS
  <1> HIDE DEF t
  <1>2. Injective(t)
    BY <1>0, <1>1 DEF Injective
  <1>3. \A i \in 1..Len(t) : InList(t[i], s) /\ t[i] \notin {s[j] : j \in 1..n}
    BY <1>0, <1>1 DEF Injective, InList
  <1>4. ASSUME NEW f, InList(f, s) PROVE f \in {s[j] : j \in 1..n} \/ InList(f, t)
    <2>1. PICK m \in 1..Len(s) : s[m] = f
      BY <1>4 DEF InList
    <2>2. CASE m <= n
      BY <1>0, <2>1, <2>2
    <2>3. CASE m > n
      <3>1. m - n \in 1..Len(s) - n /\ (m - n) + n = m
        BY <1>0, <2>3
      <3>2. t[m - n] = s[m]
        BY <1>1, <3>1
      <3> QED BY <1>1, <2>1, <3>1, <3>2 DEF InList
    <2> QED BY <1>0, <2>2, <2>3
  <1> QED BY <1>1, <1>2, <1>3, <1>4 DEF t

\* The empty list holds nothing twice.
LEMMA EmptyList == Injective(<<>>)
  BY DEF Injective

\* LRU_Append of an entry that is not in the list.
LEMMA AppendToList ==
    ASSUME NEW S, NEW s \in Seq(S), NEW e \in S, Injective(s), ~InList(e, s)
    PROVE  /\ Append(s, e) \in Seq(S) /\ Injective(Append(s, e))
           /\ \A i \in 1..Len(Append(s, e)) : InList(Append(s, e)[i], s) \/ Append(s, e)[i] = e
           /\ \A f : InList(f, s) \/ f = e => InList(f, Append(s, e))
  <1>1. PICK t : /\ t = Append(s, e) /\ t \in Seq(S) /\ Len(t) = Len(s) + 1
                 /\ \A i \in 1..Len(s) : t[i] = s[i]
                 /\ t[Len(s) + 1] = e
    <2>1. /\ Append(s, e) \in Seq(S) /\ Len(Append(s, e)) = Len(s) + 1
          /\ \A i \in 1..Len(s) : Append(s, e)[i] = s[i]
          /\ Append(s, e)[Len(s) + 1] = e
      OBVIOUS
    <2> QED BY <2>1
  <1>2. Len(s) \in Nat
    OBVIOUS
  <1>3. Injective(t)
    BY <1>1, <1>2 DEF Injective, InList
  <1>4. \A i \in 1..Len(t) : InList(t[i], s) \/ t[i] = e
    BY <1>1, <1>2 DEF InList
  <1>5. \A f : InList(f, s) \/ f = e => InList(f, t)
    BY <1>1, <1>2 DEF InList
  <1> QED BY <1>1, <1>3, <1>4, <1>5

-----------------------------------------------------------------------------
\* Erasing entries of the cache keeps its table exact and its counts right.
LEMMA ErasingCounts ==
    ASSUME LRUCacheAssumption, CacheInvariant,
           NEW S \in SUBSET Handles, \A e \in S : inCache[e]
    PROVE  /\ RefsAfterErase(S) \in [Handles -> Nat]
           /\ \A e \in allocated :
                 /\ RefsAfterErase(S)[e] =
                        held[e] + (IF InCacheAfterErase(S)[e] THEN 1 ELSE 0)
                 /\ e \in freed \union FreedByErase(S) <=> RefsAfterErase(S)[e] = 0
           /\ \A e \in Handles \ allocated :
                 e \notin freed \union FreedByErase(S) /\ ~InCacheAfterErase(S)[e]
  <1> USE DEF RefsAfterErase, InCacheAfterErase, FreedByErase
  <1>1. \A e \in S : e \in allocated /\ refs[e] = held[e] + 1 /\ refs[e] >= 1
    BY DEF CacheInvariant, Shapes, TableIsExact, RefsCount
  <1>2. RefsAfterErase(S) \in [Handles -> Nat]
    BY <1>1 DEF CacheInvariant, Shapes
  <1>3. ASSUME NEW e \in allocated
        PROVE  /\ RefsAfterErase(S)[e] = held[e] + (IF InCacheAfterErase(S)[e] THEN 1 ELSE 0)
               /\ e \in freed \union FreedByErase(S) <=> RefsAfterErase(S)[e] = 0
    <2>0. /\ e \in Handles /\ refs[e] \in Nat /\ held[e] \in Nat
          /\ refs[e] = held[e] + (IF inCache[e] THEN 1 ELSE 0)
          /\ e \in freed <=> refs[e] = 0
      BY DEF CacheInvariant, Shapes, RefsCount
    <2>1. CASE e \in S
      <3>1. /\ RefsAfterErase(S)[e] = refs[e] - 1 /\ ~InCacheAfterErase(S)[e]
            /\ e \in FreedByErase(S) <=> refs[e] = 1
        BY <2>0, <2>1
      <3> QED BY <1>1, <2>0, <2>1, <3>1
    <2>2. CASE e \notin S
      <3>1. /\ RefsAfterErase(S)[e] = refs[e] /\ InCacheAfterErase(S)[e] <=> inCache[e]
            /\ e \notin FreedByErase(S)
        BY <2>0, <2>2
      <3> QED BY <2>0, <3>1
    <2> QED BY <2>1, <2>2
  <1>4. \A e \in Handles \ allocated :
            e \notin freed \union FreedByErase(S) /\ ~InCacheAfterErase(S)[e]
    BY <1>1 DEF CacheInvariant, NotYet
  <1> QED BY <1>2, <1>3, <1>4

\* The table leads to the entries in the cache after some of them were
\* erased.
LEMMA ErasingKeepsTable ==
    ASSUME LRUCacheAssumption, CacheInvariant, NEW S \in SUBSET Handles
    PROVE  /\ InCacheAfterErase(S) \in [Handles -> BOOLEAN]
           /\ TableAfterErase(S) \in [CacheKeys -> Handles \union {NoHandle}]
           /\ \A k \in CacheKeys :
                 TableAfterErase(S)[k] # NoHandle =>
                    /\ InCacheAfterErase(S)[TableAfterErase(S)[k]]
                    /\ keyOf[TableAfterErase(S)[k]] = k
           /\ \A e \in Handles :
                 InCacheAfterErase(S)[e] =>
                    e \in allocated /\ TableAfterErase(S)[keyOf[e]] = e
  <1> USE DEF InCacheAfterErase, TableAfterErase
  <1>1. NoHandle \notin S /\ NoHandle \notin Handles
    BY DEF LRUCacheAssumption
  <1>2. InCacheAfterErase(S) \in [Handles -> BOOLEAN]
    OBVIOUS
  <1>3. TableAfterErase(S) \in [CacheKeys -> Handles \union {NoHandle}]
    BY DEF CacheInvariant, Shapes
  <1>4. ASSUME NEW k \in CacheKeys, TableAfterErase(S)[k] # NoHandle
        PROVE  /\ InCacheAfterErase(S)[TableAfterErase(S)[k]]
               /\ keyOf[TableAfterErase(S)[k]] = k
    <2>1. TableAfterErase(S)[k] = table[k] /\ table[k] \notin S /\ table[k] \in Handles
      BY <1>4 DEF CacheInvariant, Shapes
    <2>2. inCache[table[k]] /\ keyOf[table[k]] = k
      BY <1>4, <2>1 DEF CacheInvariant, TableIsExact
    <2> QED BY <2>1, <2>2
  <1>5. ASSUME NEW e \in Handles, InCacheAfterErase(S)[e]
        PROVE  e \in allocated /\ TableAfterErase(S)[keyOf[e]] = e
    <2>1. inCache[e] /\ e \notin S /\ keyOf[e] \in CacheKeys
      BY <1>5 DEF CacheInvariant, Shapes
    <2> QED BY <2>1 DEF CacheInvariant, TableIsExact
  <1> QED BY <1>2, <1>3, <1>4, <1>5

\* What Insert, Erase and Prune take away is not on the list they leave.
LEMMA EraseStep ==
    ASSUME LRUCacheAssumption, CacheInvariant,
           NEW S \in SUBSET Handles, \A e \in S : inCache[e],
           refs' = RefsAfterErase(S), inCache' = InCacheAfterErase(S),
           table' = TableAfterErase(S), freed' = freed \union FreedByErase(S),
           lru' \in Seq(Handles), Injective(lru'),
           \A i \in 1..Len(lru') : lru'[i] \notin S /\ InList(lru'[i], lru),
           \A e \in Handles \ S : InList(e, lru) => InList(e, lru'),
           UNCHANGED <<keyOf, held, allocated>>
    PROVE  CacheInvariant'
  <1>1. Shapes'
    BY ErasingCounts, ErasingKeepsTable DEF CacheInvariant, Shapes
  <1>2. TableIsExact'
    BY ErasingKeepsTable DEF TableIsExact
  <1>3. ListIsIdle'
    <2>1. ASSUME NEW i \in 1..Len(lru') PROVE inCache'[lru'[i]] /\ held'[lru'[i]] = 0
      <3>1. lru'[i] \in Handles /\ lru'[i] \notin S
        OBVIOUS
      <3>2. inCache[lru'[i]] /\ held[lru'[i]] = 0
        BY DEF CacheInvariant, ListIsIdle, InList
      <3> QED BY <3>1, <3>2 DEF InCacheAfterErase
    <2>2. ASSUME NEW e \in Handles, inCache'[e], held'[e] = 0 PROVE InList(e, lru')
      <3>1. inCache[e] /\ e \notin S /\ held[e] = 0
        BY <2>2 DEF InCacheAfterErase
      <3>2. InList(e, lru)
        BY <3>1 DEF CacheInvariant, ListIsIdle
      <3> QED BY <3>1, <3>2
    <2> QED BY <2>1, <2>2 DEF ListIsIdle
  <1>4. RefsCount'
    BY ErasingCounts DEF RefsCount
  <1>5. NotYet'
    BY ErasingCounts DEF NotYet, CacheInvariant
  <1> QED BY <1>1, <1>2, <1>3, <1>4, <1>5 DEF CacheInvariant

\* The entries of lru_ are in the cache.
LEMMA ListEntriesInCache ==
    ASSUME CacheInvariant
    PROVE  \A i \in 1..Len(lru) :
              lru[i] \in Handles /\ lru[i] \in allocated /\ inCache[lru[i]] /\ held[lru[i]] = 0
  BY DEF CacheInvariant, Shapes, ListIsIdle, TableIsExact

\* LRUCache::Erase.
LEMMA EraseKeeps ==
    ASSUME LRUCacheAssumption, CacheInvariant, NEW k \in CacheKeys, Erase(k)
    PROVE  CacheInvariant'
  <1> DEFINE e == table[k]
  <1>1. e \in Handles /\ inCache[e] /\ lru \in Seq(Handles) /\ Injective(lru)
    BY DEF Erase, CacheInvariant, Shapes, TableIsExact, ListIsIdle
  <1>2. /\ refs' = RefsAfterErase({e}) /\ inCache' = InCacheAfterErase({e})
        /\ table' = TableAfterErase({e}) /\ freed' = freed \union FreedByErase({e})
        /\ lru' = Without(lru, e)
        /\ UNCHANGED <<keyOf, held, allocated>>
    BY DEF Erase
  <1> HIDE DEF e
  <1>3. /\ lru' \in Seq(Handles) /\ Injective(lru')
        /\ \A i \in 1..Len(lru') : lru'[i] \notin {e} /\ InList(lru'[i], lru)
        /\ \A f \in Handles \ {e} : InList(f, lru) => InList(f, lru')
    BY <1>1, <1>2, WithoutOne
  <1> QED BY <1>1, <1>2, <1>3, EraseStep

\* LRUCache::Prune.
LEMMA PruneKeeps ==
    ASSUME LRUCacheAssumption, CacheInvariant, Prune
    PROVE  CacheInvariant'
  <1> DEFINE gone == {lru[i] : i \in DOMAIN lru}
  <1>1. gone \in SUBSET Handles /\ \A e \in gone : inCache[e]
    <2>1. DOMAIN lru = 1..Len(lru)
      BY DEF CacheInvariant, Shapes
    <2>2. \A i \in 1..Len(lru) : lru[i] \in Handles /\ inCache[lru[i]]
      BY ListEntriesInCache
    <2> HIDE DEF CacheInvariant
    <2> QED BY <2>1, <2>2
  <1>2. /\ refs' = RefsAfterErase(gone) /\ inCache' = InCacheAfterErase(gone)
        /\ table' = TableAfterErase(gone) /\ freed' = freed \union FreedByErase(gone)
        /\ lru' = <<>>
        /\ UNCHANGED <<keyOf, held, allocated>>
    BY DEF Prune
  <1>0. \A e \in Handles \ gone : ~InList(e, lru)
    BY DEF InList, CacheInvariant, Shapes
  <1> HIDE DEF gone
  <1>3. /\ lru' \in Seq(Handles) /\ Injective(lru')
        /\ \A i \in 1..Len(lru') : lru'[i] \notin gone /\ InList(lru'[i], lru)
    BY <1>2, EmptyList
  <1> QED BY <1>0, <1>1, <1>2, <1>3, EraseStep

\* LRUCache::Lookup: the entry leaves lru_ when it is found.
LEMMA LookupKeeps ==
    ASSUME LRUCacheAssumption, CacheInvariant, NEW k \in CacheKeys, Lookup(k)
    PROVE  CacheInvariant'
  <1> DEFINE e == table[k]
  <1>1. e \in allocated /\ e \in Handles /\ inCache[e] /\ refs[e] = held[e] + 1 /\ held[e] \in Nat
    BY DEF Lookup, CacheInvariant, Shapes, TableIsExact, RefsCount
  <1>2. /\ refs' = [refs EXCEPT ![e] = @ + 1] /\ held' = [held EXCEPT ![e] = @ + 1]
        /\ lru' = IF refs[e] = 1 /\ inCache[e] THEN Without(lru, e) ELSE lru
        /\ UNCHANGED <<keyOf, charge, inCache, table, usage, allocated, freed>>
    BY DEF Lookup
  <1> HIDE DEF e
  <1>3. /\ lru' \in Seq(Handles) /\ Injective(lru')
        /\ \A i \in 1..Len(lru') : lru'[i] # e /\ InList(lru'[i], lru)
        /\ \A f : f # e /\ InList(f, lru) => InList(f, lru')
    <2>1. CASE refs[e] = 1
      <3>1. lru' = Without(lru, e)
        BY <1>1, <1>2, <2>1
      <3>2. lru \in Seq(Handles) /\ Injective(lru)
        BY DEF CacheInvariant, Shapes, ListIsIdle
      <3> QED BY <3>1, <3>2, WithoutOne
    <2>2. CASE refs[e] # 1
      <3>1. lru' = lru /\ held[e] # 0
        BY <1>1, <1>2, <2>2
      <3> QED BY <3>1 DEF CacheInvariant, Shapes, ListIsIdle, InList
    <2> QED BY <2>1, <2>2
  <1>4. Shapes'
    BY <1>1, <1>2, <1>3 DEF CacheInvariant, Shapes
  <1>5. TableIsExact'
    BY <1>2 DEF CacheInvariant, TableIsExact
  <1>6. ListIsIdle'
    <2>1. \A i \in 1..Len(lru') : lru'[i] \in Handles
      BY <1>3
    <2>2. \A f \in Handles : f # e => held'[f] = held[f]
      BY <1>2 DEF CacheInvariant, Shapes
    <2>3. \A i \in 1..Len(lru') : inCache'[lru'[i]] /\ held'[lru'[i]] = 0
      BY <1>2, <1>3, <2>1, <2>2 DEF CacheInvariant, ListIsIdle, InList
    <2>4. ASSUME NEW f \in Handles, inCache'[f], held'[f] = 0 PROVE InList(f, lru')
      <3>1. f # e
        BY <1>1, <1>2, <2>4 DEF CacheInvariant, Shapes
      <3>2. InList(f, lru)
        BY <1>2, <2>2, <2>4, <3>1 DEF CacheInvariant, ListIsIdle
      <3> QED BY <1>3, <3>1, <3>2
    <2> QED BY <1>3, <2>3, <2>4 DEF ListIsIdle
  <1>7. RefsCount'
    BY <1>1, <1>2 DEF CacheInvariant, Shapes, RefsCount
  <1>8. NotYet'
    BY <1>1, <1>2 DEF CacheInvariant, Shapes, NotYet
  <1> QED BY <1>4, <1>5, <1>6, <1>7, <1>8 DEF CacheInvariant

\* LRUCache::Release: the entry goes back to lru_, or is freed.
LEMMA ReleaseKeeps ==
    ASSUME LRUCacheAssumption, CacheInvariant, NEW e \in Handles, Release(e)
    PROVE  CacheInvariant'
  <1>1. /\ e \in allocated /\ held[e] \in Nat /\ held[e] > 0
        /\ refs[e] = held[e] + (IF inCache[e] THEN 1 ELSE 0) /\ refs[e] \in Nat
        /\ e \notin freed
    BY DEF Release, CacheInvariant, Shapes, RefsCount, NotYet
  <1>2. /\ refs' = [refs EXCEPT ![e] = @ - 1] /\ held' = [held EXCEPT ![e] = @ - 1]
        /\ freed' = IF refs[e] = 1 THEN freed \union {e} ELSE freed
        /\ lru' = IF refs[e] = 2 /\ inCache[e] THEN Append(lru, e) ELSE lru
        /\ UNCHANGED <<keyOf, charge, inCache, table, usage, allocated>>
    BY DEF Release
  <1>3. ~InList(e, lru)
    BY <1>1 DEF CacheInvariant, ListIsIdle, InList
  <1>4. /\ lru' \in Seq(Handles) /\ Injective(lru')
        /\ \A i \in 1..Len(lru') : \/ InList(lru'[i], lru)
                                   \/ lru'[i] = e /\ inCache[e] /\ held[e] = 1
        /\ \A f : InList(f, lru) => InList(f, lru')
        /\ inCache[e] /\ held[e] = 1 => InList(e, lru')
    <2>1. CASE refs[e] = 2 /\ inCache[e]
      <3>1. lru' = Append(lru, e) /\ held[e] = 1
        BY <1>1, <1>2, <2>1
      <3> QED BY <1>3, <2>1, <3>1, AppendToList DEF CacheInvariant, Shapes, ListIsIdle
    <2>2. CASE ~(refs[e] = 2 /\ inCache[e])
      <3>1. lru' = lru /\ ~(inCache[e] /\ held[e] = 1)
        BY <1>1, <1>2, <2>2
      <3> QED BY <3>1 DEF CacheInvariant, Shapes, ListIsIdle, InList
    <2> QED BY <2>1, <2>2
  <1>5. Shapes'
    <2>1. refs[e] - 1 \in Nat /\ held[e] - 1 \in Nat
      BY <1>1
    <2>2. refs' \in [Handles -> Nat] /\ held' \in [Handles -> Nat]
      BY <1>2, <2>1 DEF CacheInvariant, Shapes
    <2> QED BY <1>2, <1>4, <2>2 DEF CacheInvariant, Shapes
  <1>6. TableIsExact'
    BY <1>2 DEF CacheInvariant, TableIsExact
  <1>7. ListIsIdle'
    <2>1. \A f \in Handles : held'[f] = IF f = e THEN held[e] - 1 ELSE held[f]
      BY <1>2 DEF CacheInvariant, Shapes
    <2>2. ASSUME NEW i \in 1..Len(lru')
          PROVE  inCache'[lru'[i]] /\ held'[lru'[i]] = 0
      <3>1. CASE InList(lru'[i], lru)
        <4>1. lru'[i] # e /\ lru'[i] \in Handles
          BY <1>3, <1>4, <3>1
        <4> QED BY <1>2, <2>1, <3>1, <4>1, ListEntriesInCache DEF InList
      <3>2. CASE lru'[i] = e /\ inCache[e] /\ held[e] = 1
        BY <1>2, <2>1, <3>2
      <3> QED BY <1>4, <3>1, <3>2
    <2>3. ASSUME NEW f \in Handles, inCache'[f], held'[f] = 0 PROVE InList(f, lru')
      <3>1. CASE f = e
        BY <1>1, <1>2, <1>4, <2>1, <2>3, <3>1
      <3>2. CASE f # e
        BY <1>2, <1>4, <2>1, <2>3, <3>2 DEF CacheInvariant, ListIsIdle
      <3> QED BY <3>1, <3>2
    <2> QED BY <1>4, <2>2, <2>3 DEF ListIsIdle
  <1>8. RefsCount'
    <2>1. ASSUME NEW f \in allocated
          PROVE  /\ refs'[f] = held'[f] + (IF inCache'[f] THEN 1 ELSE 0)
                 /\ f \in freed' <=> refs'[f] = 0
      <3>1. f \in Handles
        BY DEF CacheInvariant, Shapes
      <3>2. CASE f = e
        BY <1>1, <1>2, <3>1, <3>2 DEF CacheInvariant, Shapes
      <3>3. CASE f # e
        BY <1>2, <3>1, <3>3 DEF CacheInvariant, Shapes, RefsCount
      <3> QED BY <3>2, <3>3
    <2> QED BY <1>2, <2>1 DEF RefsCount
  <1>9. NotYet'
    BY <1>1, <1>2 DEF CacheInvariant, Shapes, NotYet
  <1> QED BY <1>5, <1>6, <1>7, <1>8, <1>9 DEF CacheInvariant

\* The entry that Insert allocates was nowhere, and nothing else is under its
\* key once the one it replaces is gone.
LEMMA InsertKeeps ==
    ASSUME LRUCacheAssumption, CacheInvariant,
           NEW e \in Handles, NEW k \in CacheKeys, NEW c \in Charges, Insert(e, k, c)
    PROVE  CacheInvariant'
  <1> DEFINE old == IF table[k] = NoHandle THEN {} ELSE {table[k]}
             list == IF table[k] = NoHandle THEN lru ELSE Without(lru, table[k])
             used == usage + c - (IF table[k] = NoHandle THEN 0 ELSE charge[table[k]])
  <1>1. PICK n \in Evictions(list, used) :
            LET gone == old \union {list[i] : i \in 1..n}
            IN  /\ refs' = [RefsAfterErase(gone) EXCEPT ![e] = 2]
                /\ inCache' = [InCacheAfterErase(gone) EXCEPT ![e] = TRUE]
                /\ table' = [TableAfterErase(gone) EXCEPT ![k] = e]
                /\ lru' = SubSeq(list, n + 1, Len(list))
                /\ freed' = freed \union FreedByErase(gone)
    BY DEF Insert
  <1>2. n \in 0..Len(list)
    BY DEF Evictions
  <1>3. /\ e \notin allocated
        /\ allocated' = allocated \union {e}
        /\ keyOf' = [keyOf EXCEPT ![e] = k]
        /\ held' = [held EXCEPT ![e] = 1]
    BY DEF Insert
  <1> DEFINE gone == old \union {list[i] : i \in 1..n}
  <1>4. /\ list \in Seq(Handles) /\ Injective(list)
        /\ \A i \in 1..Len(list) : list[i] \notin old /\ InList(list[i], lru)
        /\ \A f : f \notin old /\ InList(f, lru) => InList(f, list)
    <2>1. lru \in Seq(Handles) /\ Injective(lru)
      BY DEF CacheInvariant, Shapes, ListIsIdle
    <2>2. CASE table[k] = NoHandle
      BY <2>1, <2>2 DEF InList
    <2>3. CASE table[k] # NoHandle
      <3>1. list = Without(lru, table[k]) /\ old = {table[k]}
        BY <2>3
      <3> HIDE DEF list, old
      <3> QED BY <2>1, <3>1, WithoutOne
    <2> QED BY <2>2, <2>3
  <1>5. old \in SUBSET Handles /\ \A f \in old : inCache[f]
    BY DEF CacheInvariant, Shapes, TableIsExact
  <1>6. TableAfterErase(gone)[k] = NoHandle
    BY DEF TableAfterErase
  <1> HIDE DEF old, list, used
  <1>7. gone \in SUBSET Handles /\ \A f \in gone : inCache[f]
    <2>1. ASSUME NEW i \in 1..n PROVE list[i] \in Handles /\ inCache[list[i]]
      <3>1. i \in 1..Len(list)
        BY <1>2, <1>4
      <3>2. list[i] \in Handles /\ InList(list[i], lru)
        BY <1>4, <3>1
      <3> QED BY <3>2, ListEntriesInCache DEF InList
    <2> QED BY <1>5, <2>1
  <1>8. /\ lru' \in Seq(Handles) /\ Injective(lru')
        /\ \A i \in 1..Len(lru') : lru'[i] \notin gone /\ InList(lru'[i], lru)
        /\ \A f : f \notin gone /\ InList(f, lru) => InList(f, lru')
    <2>1. lru' = SubSeq(list, n + 1, Len(list))
      BY <1>1
    <2>2. /\ lru' \in Seq(Handles) /\ Injective(lru')
          /\ \A i \in 1..Len(lru') :
                InList(lru'[i], list) /\ lru'[i] \notin {list[j] : j \in 1..n}
          /\ \A f : InList(f, list) => f \in {list[j] : j \in 1..n} \/ InList(f, lru')
      BY <1>2, <1>4, <2>1, EndOfList
    <2>3. \A f : f \notin gone /\ InList(f, lru) => InList(f, lru')
      BY <1>4, <2>2
    <2>4. ASSUME NEW i \in 1..Len(lru') PROVE lru'[i] \notin gone /\ InList(lru'[i], lru)
      <3>1. lru'[i] \notin {list[j] : j \in 1..n}
        BY <2>2
      <3>2. PICK m \in 1..Len(list) : list[m] = lru'[i]
        BY <2>2 DEF InList
      <3>3. list[m] \notin old /\ InList(list[m], lru)
        BY <1>4
      <3> QED BY <3>1, <3>2, <3>3
    <2> QED BY <2>2, <2>3, <2>4
  <1>9. /\ refs' = [RefsAfterErase(gone) EXCEPT ![e] = 2]
        /\ inCache' = [InCacheAfterErase(gone) EXCEPT ![e] = TRUE]
        /\ table' = [TableAfterErase(gone) EXCEPT ![k] = e]
        /\ freed' = freed \union FreedByErase(gone)
    BY <1>1
  <1> DEFINE R == RefsAfterErase(gone)
             C == InCacheAfterErase(gone)
             T == TableAfterErase(gone)
             F == freed \union FreedByErase(gone)
  <1>10. /\ R \in [Handles -> Nat]
         /\ \A f \in allocated : /\ R[f] = held[f] + (IF C[f] THEN 1 ELSE 0)
                                 /\ f \in F <=> R[f] = 0
         /\ \A f \in Handles \ allocated : f \notin F /\ ~C[f]
    BY <1>7, ErasingCounts
  <1>11. /\ C \in [Handles -> BOOLEAN]
         /\ T \in [CacheKeys -> Handles \union {NoHandle}]
         /\ \A l \in CacheKeys : T[l] # NoHandle => C[T[l]] /\ keyOf[T[l]] = l
         /\ \A f \in Handles : C[f] => f \in allocated /\ T[keyOf[f]] = f
    BY <1>7, ErasingKeepsTable
  <1>12. \A f \in Handles : C[f] => inCache[f] /\ f \notin gone
    BY DEF InCacheAfterErase
  <1>13. \A i \in 1..Len(lru') : C[lru'[i]] /\ held[lru'[i]] = 0 /\ lru'[i] \in Handles \ {e}
    <2>1. ASSUME NEW i \in 1..Len(lru')
          PROVE  /\ lru'[i] \in Handles /\ lru'[i] \notin gone /\ lru'[i] \in allocated
                 /\ inCache[lru'[i]] /\ held[lru'[i]] = 0
      BY <1>8, ListEntriesInCache DEF InList
    <2> QED BY <1>3, <2>1 DEF InCacheAfterErase
  <1>21. \A f \in Handles : C[f] /\ held[f] = 0 => InList(f, lru')
    BY <1>8, <1>12 DEF CacheInvariant, ListIsIdle
  <1>14. /\ refs' = [R EXCEPT ![e] = 2] /\ inCache' = [C EXCEPT ![e] = TRUE]
         /\ table' = [T EXCEPT ![k] = e] /\ freed' = F /\ T[k] = NoHandle
    BY <1>6, <1>9
  <1> HIDE DEF gone, R, C, T, F
  <1>15. NoHandle \notin Handles
    BY DEF LRUCacheAssumption
  <1>16. Shapes'
    BY <1>3, <1>8, <1>10, <1>11, <1>14 DEF CacheInvariant, Shapes
  <1>17. TableIsExact'
    <2>1. ASSUME NEW l \in CacheKeys, table'[l] # NoHandle
          PROVE  inCache'[table'[l]] /\ keyOf'[table'[l]] = l
      <3>0. keyOf \in [Handles -> CacheKeys]
        BY DEF CacheInvariant, Shapes
      <3>1. CASE l = k
        BY <1>3, <1>11, <1>14, <3>0, <3>1
      <3>2. CASE l # k
        <4>1. table'[l] = T[l] /\ T[l] \in Handles /\ C[T[l]] /\ keyOf[T[l]] = l
          BY <1>11, <1>14, <2>1, <3>2
        <4>2. T[l] # e
          BY <1>3, <1>11, <4>1
        <4> QED BY <1>3, <1>11, <1>14, <3>0, <4>1, <4>2
      <3> QED BY <3>1, <3>2
    <2>2. ASSUME NEW f \in Handles, inCache'[f]
          PROVE  f \in allocated' /\ table'[keyOf'[f]] = f
      <3>0. keyOf \in [Handles -> CacheKeys]
        BY DEF CacheInvariant, Shapes
      <3>1. CASE f = e
        BY <1>3, <1>11, <1>14, <3>0, <3>1
      <3>2. CASE f # e
        <4>1. C[f] /\ keyOf'[f] = keyOf[f]
          BY <1>3, <1>11, <1>14, <2>2, <3>0, <3>2
        <4>2. f \in allocated /\ T[keyOf[f]] = f
          BY <1>11, <4>1
        <4>3. keyOf[f] # k
          BY <1>14, <1>15, <4>2
        <4> QED BY <1>3, <1>11, <1>14, <3>0, <4>1, <4>2, <4>3
      <3> QED BY <3>1, <3>2
    <2> QED BY <2>1, <2>2 DEF TableIsExact
  <1>18. ListIsIdle'
    <2>1. ASSUME NEW i \in 1..Len(lru')
          PROVE  inCache'[lru'[i]] /\ held'[lru'[i]] = 0
      <3>1. C[lru'[i]] /\ held[lru'[i]] = 0 /\ lru'[i] \in Handles /\ lru'[i] # e
        BY <1>13
      <3>2. inCache'[lru'[i]] = C[lru'[i]] /\ held'[lru'[i]] = held[lru'[i]]
        BY <1>3, <1>11, <1>14, <3>1 DEF CacheInvariant, Shapes
      <3> QED BY <3>1, <3>2
    <2>2. ASSUME NEW f \in Handles, inCache'[f], held'[f] = 0 PROVE InList(f, lru')
      <3>1. f # e /\ held'[f] = held[f] /\ C[f]
        BY <1>3, <1>11, <1>14, <2>2 DEF CacheInvariant, Shapes
      <3> QED BY <1>21, <2>2, <3>1
    <2> QED BY <1>8, <2>1, <2>2 DEF ListIsIdle
  <1>19. RefsCount'
    <2>1. ASSUME NEW f \in allocated'
          PROVE  /\ refs'[f] = held'[f] + (IF inCache'[f] THEN 1 ELSE 0)
                 /\ f \in freed' <=> refs'[f] = 0
      <3>1. CASE f = e
        <4>1. refs'[f] = 2 /\ held'[f] = 1 /\ inCache'[f]
          BY <1>3, <1>10, <1>11, <1>14, <3>1 DEF CacheInvariant, Shapes
        <4>2. f \notin freed'
          BY <1>3, <1>10, <1>14, <3>1
        <4> QED BY <4>1, <4>2
      <3>2. CASE f # e
        <4>1. f \in allocated /\ f \in Handles
          BY <1>3, <3>2 DEF CacheInvariant, Shapes
        <4>2. refs'[f] = R[f] /\ held'[f] = held[f] /\ inCache'[f] = C[f]
          BY <1>3, <1>10, <1>11, <1>14, <3>2, <4>1 DEF CacheInvariant, Shapes
        <4> QED BY <1>10, <1>14, <4>1, <4>2
      <3> QED BY <3>1, <3>2
    <2> QED BY <2>1 DEF RefsCount
  <1>20. NotYet'
    <2>1. ASSUME NEW f \in Handles \ allocated'
          PROVE  f \notin freed' /\ held'[f] = 0 /\ ~inCache'[f]
      <3>1. f \in Handles \ allocated /\ f # e
        BY <1>3, <2>1
      <3>2. held'[f] = held[f] /\ inCache'[f] = C[f]
        BY <1>3, <1>11, <1>14, <3>1 DEF CacheInvariant, Shapes
      <3> QED BY <1>10, <1>14, <3>1, <3>2 DEF CacheInvariant, NotYet
    <2> QED BY <2>1 DEF NotYet
  <1> QED BY <1>16, <1>17, <1>18, <1>19, <1>20 DEF CacheInvariant

-----------------------------------------------------------------------------
\* The invariant holds at first and every step keeps it.
LEMMA CacheInvariantHolds == LRUCacheSpec => []CacheInvariant
  <1>1. LRUCacheInit => CacheInvariant
    <2> SUFFICES ASSUME LRUCacheInit PROVE CacheInvariant
      OBVIOUS
    <2>1. Shapes
      BY DEF LRUCacheInit, Shapes
    <2>2. ListIsIdle
      BY EmptyList DEF LRUCacheInit, ListIsIdle, InList
    <2>3. TableIsExact /\ RefsCount /\ NotYet
      BY LRUCacheAssumption DEF LRUCacheInit, TableIsExact, RefsCount, NotYet
    <2> QED BY <2>1, <2>2, <2>3 DEF CacheInvariant
  <1>2. CacheInvariant /\ [LRUCacheNext]_cacheVars => CacheInvariant'
    <2> SUFFICES ASSUME CacheInvariant, [LRUCacheNext]_cacheVars PROVE CacheInvariant'
      OBVIOUS
    <2>1. ASSUME NEW e \in Handles, NEW k \in CacheKeys, NEW c \in Charges, Insert(e, k, c)
          PROVE  CacheInvariant'
      BY <2>1, LRUCacheAssumption, InsertKeeps
    <2>2. ASSUME NEW k \in CacheKeys, Lookup(k) PROVE CacheInvariant'
      BY <2>2, LRUCacheAssumption, LookupKeeps
    <2>3. ASSUME NEW k \in CacheKeys, Erase(k) PROVE CacheInvariant'
      BY <2>3, LRUCacheAssumption, EraseKeeps
    <2>4. ASSUME NEW e \in Handles, Release(e) PROVE CacheInvariant'
      BY <2>4, LRUCacheAssumption, ReleaseKeeps
    <2>5. CASE Prune
      BY <2>5, LRUCacheAssumption, PruneKeeps
    <2>6. CASE UNCHANGED cacheVars
      BY <2>6 DEF cacheVars, CacheInvariant, Shapes, TableIsExact, ListIsIdle, RefsCount, NotYet
    <2> QED BY <2>1, <2>2, <2>3, <2>4, <2>5, <2>6 DEF LRUCacheNext
  <1> QED BY <1>1, <1>2, PTL DEF LRUCacheSpec

\* For any cache: a block or a table is freed exactly when neither a caller, nor
\* the hash table, nor the list of what may be erased has it (Ref, Unref and
\* FinishErase count right through every operation).
THEOREM EntriesAreFreedInTime == LRUCacheSpec => []FreedWhenUnreachable
  <1>1. ASSUME CacheInvariant PROVE FreedWhenUnreachable
    <2> DEFINE Unreachable(e) == /\ held[e] = 0
                                 /\ \A k \in CacheKeys : table[k] # e
                                 /\ \A i \in DOMAIN lru : lru[i] # e
    <2>1. ASSUME NEW e \in allocated PROVE (e \in freed) <=> Unreachable(e)
      <3>1. e \in Handles /\ keyOf[e] \in CacheKeys /\ held[e] \in Nat /\ e # NoHandle
        BY <1>1, LRUCacheAssumption DEF CacheInvariant, Shapes
      <3>2. (e \in freed) <=> (held[e] = 0 /\ ~inCache[e])
        BY <1>1, <3>1 DEF CacheInvariant, RefsCount
      <3>3. ~inCache[e] <=> \A k \in CacheKeys : table[k] # e
        BY <1>1, <3>1 DEF CacheInvariant, TableIsExact
      <3>4. ~inCache[e] => \A i \in DOMAIN lru : lru[i] # e
        BY <1>1 DEF CacheInvariant, ListIsIdle, Shapes
      <3> QED BY <3>2, <3>3, <3>4
    <2> QED BY <2>1 DEF FreedWhenUnreachable
  <1> QED BY <1>1, CacheInvariantHolds, PTL

\* For any cache: the list of what may be erased has exactly the entries in the
\* cache that no caller holds, each once (LRU_Append and LRU_Remove in Ref, Unref,
\* FinishErase and Insert).
THEOREM TheListIsExact == LRUCacheSpec => []ListIsExact
  <1>1. ASSUME CacheInvariant PROVE ListIsExact
    <2>1. lru \in Seq(Handles) /\ DOMAIN lru = 1..Len(lru)
      BY <1>1 DEF CacheInvariant, Shapes
    <2>2. IsInjective(lru)
      BY <1>1, <2>1 DEF CacheInvariant, ListIsIdle, Injective, IsInjective
    <2>3. ASSUME NEW e
          PROVE  e \in ToSet(lru) <=> e \in allocated /\ table[keyOf[e]] = e /\ held[e] = 0
      <3>1. e \in ToSet(lru) <=> InList(e, lru)
        BY <2>1 DEF ToSet, InList
      <3>2. ASSUME InList(e, lru) PROVE e \in allocated /\ table[keyOf[e]] = e /\ held[e] = 0
        <4>1. e \in Handles /\ inCache[e] /\ held[e] = 0
          BY <1>1, <3>2, ListEntriesInCache DEF InList
        <4> QED BY <1>1, <4>1 DEF CacheInvariant, TableIsExact
      <3>3. ASSUME e \in allocated, table[keyOf[e]] = e, held[e] = 0 PROVE InList(e, lru)
        <4>1. e \in Handles /\ keyOf[e] \in CacheKeys /\ e # NoHandle
          BY <1>1, <3>3, LRUCacheAssumption DEF CacheInvariant, Shapes, LRUCacheAssumption
        <4>2. inCache[e]
          BY <1>1, <3>3, <4>1 DEF CacheInvariant, TableIsExact
        <4> QED BY <1>1, <3>3, <4>1, <4>2 DEF CacheInvariant, ListIsIdle
      <3> QED BY <3>1, <3>2, <3>3
    <2> QED BY <2>2, <2>3 DEF ListIsExact
  <1> QED BY <1>1, CacheInvariantHolds, PTL

-----------------------------------------------------------------------------
(* The queue of writers.                                                   *)

Queued(t) == \E i \in 1..Len(queue) : queue[i].thread = t

\* A thread is in the queue from its call until it is answered, once; and only
\* the head of the queue does anything but wait.
ThreadsAreQueued ==
    /\ \A i, j \in 1..Len(queue) : queue[i].thread = queue[j].thread => i = j
    /\ \A t \in Threads : Queued(t) <=> stage[t] # "idle" /\ answer[t] = "none"
    /\ \A t \in Threads : answer[t] # "none" => stage[t] \in {"asleep", "signalled"}
    /\ \A t \in Threads : stage[t] \in Leading => Len(queue) > 0 /\ queue[1].thread = t
    /\ \A t \in Threads : holder = t <=> stage[t] = "room"

\* There is a group exactly while it is written, and an outcome when it was; a
\* call that asks for a sync is in a group whose head does.
GroupIsWritten ==
    /\ group > 0 <=> \E t \in Threads : stage[t] \in {"logging", "logged"}
    /\ outcome # "none" <=> \E t \in Threads : stage[t] = "logged"
    /\ \A i \in 2..group : queue[i].sync => queue[1].sync

\* Level 0 gets a table for a full memtable, which takes the place of one that
\* may be there.
RoomAtLevel0 ==
    /\ bg \in {"flushing", "nested"} => imm
    /\ imm => level0 < Stop

ThreadInvariant == WriteQueueTypeOK /\ ThreadsAreQueued /\ GroupIsWritten /\ RoomAtLevel0

-----------------------------------------------------------------------------
(* The log.                                                                *)

\* How many calls have left the queue, and how many the log has reached: those
\* of a group that was written still have to leave.
Left == Len(joined) - Len(queue)
Reached == Left + (IF outcome \in {"ok", "unsynced"} THEN group ELSE 0)

InLog(c) == \E i \in 1..Len(log) : InList(c, log[i]) /\ (c.sync => i <= synced)

\* The queue is what is left of the calls, of which no two are the same.
QueueIsTheRest ==
    /\ Len(queue) <= Len(joined)
    /\ \A i \in 1..Len(queue) : queue[i] = joined[i + Left]
    /\ Injective(joined)
    /\ \A i \in 1..Len(joined) :
          joined[i].number <= Cardinality({j \in DOMAIN joined : joined[j].thread = joined[i].thread})

\* The records have calls at places up to reached, in their order.
LiesWithin(records, calls, reached) ==
    \A i \in 1..Len(records) : \A a \in 1..Len(records[i]) :
        \E p \in 1..Len(calls) : calls[p] = records[i][a] /\ p <= reached
Earlier(i, a, j, b) == i < j \/ (i = j /\ a < b)
FollowsOrder(records, calls) ==
    \A i, j \in 1..Len(records) : \A a \in 1..Len(records[i]), b \in 1..Len(records[j]) :
        \A p, q \in 1..Len(calls) :
            Earlier(i, a, j, b) /\ calls[p] = records[i][a] /\ calls[q] = records[j][b] => p < q

LogIsOrdered == LiesWithin(log, joined, Reached) /\ FollowsOrder(log, joined)

AnsweredIsWritten ==
    /\ \A c \in succeeded : ~c.empty => InLog(c)
    /\ outcome = "ok" => \A i \in 1..group : InLog(queue[i])

LogInvariant == QueueIsTheRest /\ LogIsOrdered /\ AnsweredIsWritten

QueueInvariant == ThreadInvariant /\ LogInvariant

-----------------------------------------------------------------------------
Stages == {"idle", "asleep", "signalled"} \union Leading

\* A step that moves threads without an answer and without a group: the queue
\* and the log are as before.
Quiet ==
    /\ UNCHANGED <<answer, queue, group, outcome, log, synced, joined, succeeded>>
    /\ stage' \in [Threads -> Stages]
    /\ holder' \in Threads \union {NoThread}
    /\ force' \in BOOLEAN /\ allowDelay' \in BOOLEAN
    /\ \A t \in Threads :
          /\ stage'[t] = "idle" <=> stage[t] = "idle"
          /\ answer[t] # "none" => stage'[t] \in {"asleep", "signalled"}
          /\ stage'[t] \in Leading => Len(queue) > 0 /\ queue[1].thread = t
          /\ holder' = t <=> stage'[t] = "room"
          /\ stage'[t] = "logging" <=> stage[t] = "logging"
          /\ stage'[t] = "logged" <=> stage[t] = "logged"

\* What a step does to the memtables and at level 0.
RoomKept ==
    /\ memFull' \in BOOLEAN /\ imm' \in BOOLEAN /\ level0' \in 0..Stop
    /\ bg' \in {"none", "queued", "flushing", "compacting", "nested"}
    /\ bgError' \in BOOLEAN
    /\ RoomAtLevel0'

LEMMA QuietKeeps ==
    ASSUME QueueInvariant, Quiet, RoomKept
    PROVE  QueueInvariant'
  <1>1. /\ answer' = answer /\ queue' = queue /\ group' = group /\ outcome' = outcome
        /\ log' = log /\ synced' = synced /\ joined' = joined /\ succeeded' = succeeded
    BY DEF Quiet
  <1>2. WriteQueueTypeOK'
    BY <1>1 DEF QueueInvariant, ThreadInvariant, WriteQueueTypeOK, Quiet, RoomKept, Stages
  <1>3. ThreadsAreQueued'
    <2>1. \A t \in Threads : Queued(t)' <=> Queued(t)
      BY <1>1 DEF Queued
    <2> QED BY <1>1, <2>1 DEF QueueInvariant, ThreadInvariant, ThreadsAreQueued, Quiet
  <1>4. GroupIsWritten'
    <2>1. \A t \in Threads : /\ stage'[t] = "logging" <=> stage[t] = "logging"
                             /\ stage'[t] = "logged" <=> stage[t] = "logged"
      BY DEF Quiet
    <2> QED BY <1>1, <2>1 DEF QueueInvariant, ThreadInvariant, GroupIsWritten
  <1>5. LogInvariant'
    <2>1. Left' = Left /\ Reached' = Reached
      BY <1>1 DEF Left, Reached
    <2>2. QueueIsTheRest'
      BY <1>1, <2>1 DEF QueueInvariant, LogInvariant, QueueIsTheRest
    <2>3. LogIsOrdered'
      BY <1>1, <2>1 DEF QueueInvariant, LogInvariant, LogIsOrdered
    <2>4. AnsweredIsWritten'
      BY <1>1 DEF QueueInvariant, LogInvariant, AnsweredIsWritten, InLog
    <2> QED BY <2>2, <2>3, <2>4 DEF LogInvariant
  <1> QED BY <1>2, <1>3, <1>4, <1>5 DEF QueueInvariant, ThreadInvariant, RoomKept

\* Only the head of the queue leads.
LEMMA TheHeadLeads ==
    ASSUME QueueInvariant, NEW t \in Threads, stage[t] \in Leading
    PROVE  /\ Len(queue) > 0 /\ queue[1].thread = t /\ answer[t] = "none"
           /\ \A u \in Threads \ {t} : stage[u] \in {"idle", "asleep", "signalled"}
  <1>1. Len(queue) > 0 /\ queue[1].thread = t
    BY DEF QueueInvariant, ThreadInvariant, ThreadsAreQueued
  <1>2. answer[t] = "none"
    BY DEF QueueInvariant, ThreadInvariant, ThreadsAreQueued, Leading
  <1>3. \A u \in Threads \ {t} : stage[u] \in {"idle", "asleep", "signalled"}
    BY <1>1 DEF QueueInvariant, ThreadInvariant, ThreadsAreQueued, WriteQueueTypeOK
  <1> QED BY <1>1, <1>2, <1>3

\* What makes room for its write has no group yet.
LEMMA NoGroupYet ==
    ASSUME QueueInvariant, NEW t \in Threads, stage[t] \in Leading,
           stage[t] \notin {"logging", "logged"}
    PROVE  group = 0 /\ outcome = "none"
  <1>1. \A u \in Threads : stage[u] \notin {"logging", "logged"}
    BY TheHeadLeads
  <1>2. group \in Nat
    BY DEF QueueInvariant, ThreadInvariant, WriteQueueTypeOK
  <1> QED BY <1>1, <1>2 DEF QueueInvariant, ThreadInvariant, GroupIsWritten

-----------------------------------------------------------------------------
\* Steps that leave the memtables alone keep the room there is.
LEMMA RoomUnchanged ==
    ASSUME QueueInvariant, UNCHANGED <<memFull, imm, level0, bg, bgError>>
    PROVE  RoomKept
  BY DEF QueueInvariant, ThreadInvariant, WriteQueueTypeOK, RoomAtLevel0, RoomKept

LEMMA PauseKeeps ==
    ASSUME QueueInvariant, NEW t \in Threads, Delay(t) \/ Stall(t)
    PROVE  QueueInvariant'
  <1>1. PICK s \in {"delayed", "stalled"} :
            /\ stage' = [stage EXCEPT ![t] = s] /\ holder' = NoThread
            /\ stage[t] = "room" /\ allowDelay' \in {FALSE, allowDelay} /\ force' = force
    BY DEF Delay, Stall, Pause, MayGoOn, MakesRoom
  <1>2. UNCHANGED <<answer, queue, group, outcome, log, synced, joined, succeeded>>
    BY DEF Delay, Stall, Pause, fileVars
  <1>3. UNCHANGED <<memFull, imm, level0, bg, bgError>>
    BY DEF Delay, Stall, Pause, roomVars, bgVars
  <1>4. stage[t] \in Leading
    BY <1>1 DEF Leading
  <1>5. Quiet
    <2>1. stage \in [Threads -> Stages] /\ force \in BOOLEAN /\ allowDelay \in BOOLEAN
      BY DEF QueueInvariant, ThreadInvariant, WriteQueueTypeOK, Stages
    <2>2. ASSUME NEW u \in Threads
          PROVE  /\ stage'[u] = "idle" <=> stage[u] = "idle"
                 /\ answer[u] # "none" => stage'[u] \in {"asleep", "signalled"}
                 /\ stage'[u] \in Leading => Len(queue) > 0 /\ queue[1].thread = u
                 /\ holder' = u <=> stage'[u] = "room"
                 /\ stage'[u] = "logging" <=> stage[u] = "logging"
                 /\ stage'[u] = "logged" <=> stage[u] = "logged"
      <3>1. CASE u = t
        BY <1>1, <1>4, <2>1, <3>1, TheHeadLeads, WriteQueueAssumption DEF WriteQueueAssumption
      <3>2. CASE u # t
        <4>1. stage'[u] = stage[u] /\ stage[u] \in {"idle", "asleep", "signalled"}
          BY <1>1, <1>4, <2>1, <3>2, TheHeadLeads
        <4> QED BY <1>1, <4>1, WriteQueueAssumption
                DEF QueueInvariant, ThreadInvariant, ThreadsAreQueued, Leading, WriteQueueAssumption
      <3> QED BY <3>1, <3>2
    <2>3. stage' \in [Threads -> Stages]
      BY <1>1, <2>1 DEF Stages, Leading
    <2> QED BY <1>1, <1>2, <2>1, <2>2, <2>3 DEF Quiet
  <1> QED BY <1>3, <1>5, RoomUnchanged, QuietKeeps

LEMMA ResumeKeeps ==
    ASSUME QueueInvariant, NEW t \in Threads, Resume(t)
    PROVE  QueueInvariant'
  <1>1. /\ stage' = [stage EXCEPT ![t] = "room"] /\ holder' = t
        /\ stage[t] \in {"delayed", "woken"} /\ allowDelay' = allowDelay /\ force' = force
    BY DEF Resume
  <1>2. UNCHANGED <<answer, queue, group, outcome, log, synced, joined, succeeded>>
    BY DEF Resume, fileVars
  <1>3. UNCHANGED <<memFull, imm, level0, bg, bgError>>
    BY DEF Resume, roomVars, bgVars
  <1>4. stage[t] \in Leading
    BY <1>1 DEF Leading
  <1>5. Quiet
    <2>1. stage \in [Threads -> Stages] /\ force \in BOOLEAN /\ allowDelay \in BOOLEAN
      BY DEF QueueInvariant, ThreadInvariant, WriteQueueTypeOK, Stages
    <2>2. ASSUME NEW u \in Threads
          PROVE  /\ stage'[u] = "idle" <=> stage[u] = "idle"
                 /\ answer[u] # "none" => stage'[u] \in {"asleep", "signalled"}
                 /\ stage'[u] \in Leading => Len(queue) > 0 /\ queue[1].thread = u
                 /\ holder' = u <=> stage'[u] = "room"
                 /\ stage'[u] = "logging" <=> stage[u] = "logging"
                 /\ stage'[u] = "logged" <=> stage[u] = "logged"
      <3>1. CASE u = t
        BY <1>1, <1>4, <2>1, <3>1, TheHeadLeads
      <3>2. CASE u # t
        <4>1. stage'[u] = stage[u] /\ stage[u] \in {"idle", "asleep", "signalled"}
          BY <1>1, <1>4, <2>1, <3>2, TheHeadLeads
        <4> QED BY <1>1, <3>2, <4>1
                DEF QueueInvariant, ThreadInvariant, ThreadsAreQueued, Leading
      <3> QED BY <3>1, <3>2
    <2>3. stage' \in [Threads -> Stages]
      BY <1>1, <2>1 DEF Stages, Leading
    <2> QED BY <1>1, <1>2, <2>1, <2>2, <2>3 DEF Quiet
  <1> QED BY <1>3, <1>5, RoomUnchanged, QuietKeeps

\* What is told while it waits only notices.
LEMMA WakingIsQuiet ==
    ASSUME QueueInvariant,
           UNCHANGED <<holder, answer, queue, force, allowDelay, group, outcome, log, synced,
                       joined, succeeded>>,
           \E T \in SUBSET Threads :
              \/ stage' = [u \in Threads |-> IF u \in T THEN Woken(stage[u]) ELSE stage[u]]
    PROVE  Quiet
  <1>1. PICK T \in SUBSET Threads :
            stage' = [u \in Threads |-> IF u \in T THEN Woken(stage[u]) ELSE stage[u]]
    OBVIOUS
  <1>2. /\ stage \in [Threads -> Stages] /\ holder \in Threads \union {NoThread}
        /\ force \in BOOLEAN /\ allowDelay \in BOOLEAN
    BY DEF QueueInvariant, ThreadInvariant, WriteQueueTypeOK, Stages
  <1>3. ASSUME NEW u \in Threads
        PROVE  \/ stage'[u] = stage[u]
               \/ stage[u] = "asleep" /\ stage'[u] = "signalled"
               \/ stage[u] = "stalled" /\ stage'[u] = "woken"
    BY <1>1, <1>2 DEF Woken
  <1>4. stage' \in [Threads -> Stages]
    BY <1>1, <1>2, <1>3 DEF Stages, Leading
  <1>5. ASSUME NEW u \in Threads
        PROVE  /\ stage'[u] = "idle" <=> stage[u] = "idle"
               /\ answer[u] # "none" => stage'[u] \in {"asleep", "signalled"}
               /\ stage'[u] \in Leading => Len(queue) > 0 /\ queue[1].thread = u
               /\ holder = u <=> stage'[u] = "room"
               /\ stage'[u] = "logging" <=> stage[u] = "logging"
               /\ stage'[u] = "logged" <=> stage[u] = "logged"
    BY <1>3 DEF QueueInvariant, ThreadInvariant, ThreadsAreQueued, Leading
  <1> QED BY <1>2, <1>4, <1>5 DEF Quiet

LEMMA SpuriousKeeps ==
    ASSUME QueueInvariant, NEW t \in Threads, Spurious(t)
    PROVE  QueueInvariant'
  <1>1. stage' = [stage EXCEPT ![t] = Woken(stage[t])]
    BY DEF Spurious
  <1>2. stage \in [Threads -> Stages]
    BY DEF QueueInvariant, ThreadInvariant, WriteQueueTypeOK, Stages
  <1>3. stage' = [u \in Threads |-> IF u \in {t} THEN Woken(stage[u]) ELSE stage[u]]
    BY <1>1, <1>2
  <1>4. UNCHANGED <<holder, answer, queue, force, allowDelay, group, outcome, log, synced,
                    joined, succeeded>>
    BY DEF Spurious, fileVars
  <1>5. UNCHANGED <<memFull, imm, level0, bg, bgError>>
    BY DEF Spurious, roomVars, bgVars
  <1>6. Quiet
    <2>1. {t} \in SUBSET Threads
      OBVIOUS
    <2> QED BY <1>3, <1>4, <2>1, WakingIsQuiet
  <1> QED BY <1>5, <1>6, RoomUnchanged, QuietKeeps

LEMMA SwitchKeeps ==
    ASSUME QueueInvariant, NEW t \in Threads, Switch(t)
    PROVE  QueueInvariant'
  <1>1. /\ UNCHANGED <<holder, stage, answer, queue, allowDelay, group, outcome, log, synced,
                       joined, succeeded, level0, bgError>>
        /\ imm' = TRUE /\ memFull' = FALSE /\ force' = FALSE /\ level0 < Stop
        /\ bg' = IF bg = "none" THEN Scheduled(TRUE, level0, bgError) ELSE bg
    BY DEF Switch, MustSwitch, fileVars
  <1>2. Quiet
    BY <1>1 DEF Quiet, QueueInvariant, ThreadInvariant, WriteQueueTypeOK, ThreadsAreQueued, Stages
  <1>3. RoomKept
    BY <1>1 DEF QueueInvariant, ThreadInvariant, WriteQueueTypeOK, RoomAtLevel0, RoomKept, Scheduled
  <1> QED BY <1>2, <1>3, QuietKeeps

\* The background thread tells the writers that wait for it.
LEMMA BackgroundKeeps ==
    ASSUME QueueInvariant, Background
    PROVE  QueueInvariant'
  <1>1. UNCHANGED <<holder, answer, queue, force, allowDelay, group, outcome, log, synced,
                    joined, succeeded, memFull>>
    BY DEF Background, BackgroundBegins, FlushEnds, NestedFlushBegins, NestedFlushEnds,
           CompactionEnds, BackgroundOnly, fileVars
  <1>2. stage' = stage \/ SignalBackground
    BY DEF Background, BackgroundBegins, FlushEnds, NestedFlushBegins, NestedFlushEnds,
           CompactionEnds, BackgroundEnds
  <1>3. Quiet
    <2>0. stage \in [Threads -> Stages]
      BY DEF QueueInvariant, ThreadInvariant, WriteQueueTypeOK, Stages
    <2> DEFINE T == IF stage' = stage THEN {} ELSE {u \in Threads : stage[u] = "stalled"}
    <2>1. stage' = [u \in Threads |-> IF u \in T THEN Woken(stage[u]) ELSE stage[u]]
      <3>1. CASE stage' = stage
        BY <2>0, <3>1
      <3>2. CASE stage' # stage
        BY <1>2, <2>0, <3>2 DEF SignalBackground, Woken
      <3> QED BY <3>1, <3>2
    <2>2. T \in SUBSET Threads
      OBVIOUS
    <2> HIDE DEF T
    <2> QED BY <1>1, <2>1, <2>2, WakingIsQuiet
  <1>4. RoomKept
    <2> DEFINE BG == {"none", "queued", "flushing", "compacting", "nested"}
    <2>1. /\ memFull \in BOOLEAN /\ imm \in BOOLEAN /\ level0 \in 0..Stop /\ bg \in BG
          /\ bgError \in BOOLEAN /\ Stop \in Nat
      BY WriteQueueAssumption
      DEF QueueInvariant, ThreadInvariant, WriteQueueTypeOK, WriteQueueAssumption
    <2>2. (bg \in {"flushing", "nested"} => imm) /\ (imm => level0 < Stop)
      BY DEF QueueInvariant, ThreadInvariant, RoomAtLevel0
    <2>3. ASSUME Flushed, imm
          PROVE  /\ imm' \in BOOLEAN /\ level0' \in 0..Stop /\ bgError' \in BOOLEAN
                 /\ imm' => level0' < Stop
      <3>1. CASE imm' = FALSE /\ level0' \in {level0, level0 + 1} /\ bgError' = bgError
        <4>1. level0 \in 0..Stop /\ level0 < Stop /\ Stop \in Nat
          BY <2>1, <2>2, <2>3
        <4>2. level0' \in 0..Stop
          BY <3>1, <4>1
        <4> QED BY <2>1, <3>1, <4>2
      <3>2. CASE bgError' = TRUE /\ imm' = imm /\ level0' = level0
        BY <2>1, <2>2, <2>3, <3>2
      <3> QED BY <2>3, <3>1, <3>2 DEF Flushed
    <2>4. CASE BackgroundBegins
      BY <1>1, <2>1, <2>2, <2>4 DEF BackgroundBegins, BackgroundEnds, Scheduled, RoomKept, RoomAtLevel0
    <2>5. CASE FlushEnds
      BY <1>1, <2>1, <2>2, <2>3, <2>5 DEF FlushEnds, BackgroundEnds, Scheduled, RoomKept, RoomAtLevel0
    <2>6. CASE NestedFlushBegins
      BY <1>1, <2>1, <2>2, <2>6 DEF NestedFlushBegins, RoomKept, RoomAtLevel0
    <2>7. CASE NestedFlushEnds
      BY <1>1, <2>1, <2>2, <2>3, <2>7 DEF NestedFlushEnds, RoomKept, RoomAtLevel0
    <2>8. CASE CompactionEnds
      <3>1. /\ imm' \in BOOLEAN /\ level0' \in 0..Stop /\ bgError' \in BOOLEAN
            /\ imm' => level0' < Stop
        <4>1. CASE level0' \in 0..level0 - 1 /\ imm' = imm /\ bgError' = bgError
          BY <2>1, <2>2, <4>1
        <4>2. CASE bgError' = TRUE /\ imm' = imm /\ level0' = level0
          BY <2>1, <2>2, <4>2
        <4> QED BY <2>8, <4>1, <4>2 DEF CompactionEnds
      <3>2. bg' = Scheduled(imm', level0', bgError')
        BY <2>8 DEF CompactionEnds, BackgroundEnds
      <3> QED BY <1>1, <2>1, <3>1, <3>2 DEF Scheduled, RoomKept, RoomAtLevel0
    <2> QED BY <2>4, <2>5, <2>6, <2>7, <2>8 DEF Background
  <1> QED BY <1>3, <1>4, QuietKeeps

-----------------------------------------------------------------------------
\* The queue after the first n writers left it.
LEMMA QueueShrinks ==
    ASSUME QueueInvariant, NEW n \in 1..Len(queue),
           queue' = SubSeq(queue, n + 1, Len(queue))
    PROVE  /\ queue' \in Seq(Calls) /\ Len(queue') = Len(queue) - n
           /\ \A i \in 1..Len(queue) - n : queue'[i] = queue[i + n]
  <1>1. queue \in Seq(Calls)
    BY DEF QueueInvariant, ThreadInvariant, WriteQueueTypeOK
  <1> QED BY <1>1

\* The head answers the first n of the queue: those behind it return, when they
\* wake, and the next is told to go on.
LEMMA AnswerKeepsThreads ==
    ASSUME QueueInvariant, NEW t \in Threads, stage[t] \in Leading,
           NEW n \in 1..Len(queue), NEW ok \in BOOLEAN, Answer(t, n, ok),
           UNCHANGED <<log, synced>>, RoomKept
    PROVE  ThreadInvariant'
  <1> DEFINE served == {queue[i].thread : i \in 2..n}
             told == served \union {queue[i].thread : i \in DOMAIN queue \cap {n + 1}}
  <1>1. /\ queue' = SubSeq(queue, n + 1, Len(queue))
        /\ stage' = [u \in Threads |-> IF u = t THEN "idle"
                                       ELSE IF u \in told THEN Woken(stage[u]) ELSE stage[u]]
        /\ answer' = [u \in Threads |-> IF u \in served THEN IF ok THEN "ok" ELSE "failed"
                                        ELSE answer[u]]
        /\ succeeded' = IF ok THEN succeeded \union {queue[i] : i \in 1..n} ELSE succeeded
        /\ holder' = NoThread /\ group' = 0 /\ outcome' = "none"
        /\ force' = force /\ allowDelay' = allowDelay /\ joined' = joined
    BY DEF Answer
  <1>2. /\ queue' \in Seq(Calls) /\ Len(queue') = Len(queue) - n
        /\ \A i \in 1..Len(queue) - n : queue'[i] = queue[i + n]
    BY <1>1, QueueShrinks
  <1>3. /\ queue \in Seq(Calls) /\ stage \in [Threads -> Stages]
        /\ answer \in [Threads -> {"none", "ok", "failed"}] /\ Len(queue) \in Nat /\ n \in Nat
        /\ 1 <= n /\ n <= Len(queue)
    BY DEF QueueInvariant, ThreadInvariant, WriteQueueTypeOK, Stages
  <1>4. /\ queue[1].thread = t /\ answer[t] = "none"
        /\ \A u \in Threads \ {t} : stage[u] \in {"idle", "asleep", "signalled"}
    BY TheHeadLeads
  <1>5. \A i, j \in 1..Len(queue) : queue[i].thread = queue[j].thread => i = j
    BY DEF QueueInvariant, ThreadInvariant, ThreadsAreQueued
  <1>6. \A i \in 1..Len(queue) : queue[i] \in Calls /\ queue[i].thread \in Threads
    <2>1. \A i \in 1..Len(queue) : queue[i] \in Calls
      BY <1>3
    <2>2. \A c \in Calls : c.thread \in Threads
      BY DEF Calls
    <2> QED BY <2>1, <2>2
  <1>7. ASSUME NEW u \in Threads
        PROVE  u \in served <=> \E i \in 2..n : queue[i].thread = u
    OBVIOUS
  <1>8. t \notin served
    <2>1. ASSUME NEW i \in 2..n, queue[i].thread = t PROVE FALSE
      BY <1>3, <1>4, <1>5, <2>1
    <2> QED BY <2>1
  <1> HIDE DEF served, told
  <1>9. stage'[t] = "idle"
    BY <1>1
  <1>10. ASSUME NEW u \in Threads \ {t}
         PROVE  /\ stage'[u] \in {"idle", "asleep", "signalled"}
                /\ stage'[u] = "idle" <=> stage[u] = "idle"
    BY <1>1, <1>4 DEF Woken
  <1>11. \A u \in Threads : Queued(u)' <=> \E i \in n + 1..Len(queue) : queue[i].thread = u
    <2> SUFFICES ASSUME NEW u \in Threads
                 PROVE  Queued(u)' <=> \E i \in n + 1..Len(queue) : queue[i].thread = u
      OBVIOUS
    <2>1. ASSUME NEW i \in 1..Len(queue'), queue'[i].thread = u
          PROVE  \E j \in n + 1..Len(queue) : queue[j].thread = u
      <3>1. i + n \in n + 1..Len(queue) /\ queue[i + n].thread = u
        BY <1>2, <1>3, <2>1
      <3> QED BY <3>1
    <2>2. ASSUME NEW j \in n + 1..Len(queue), queue[j].thread = u
          PROVE  \E i \in 1..Len(queue') : queue'[i].thread = u
      <3>1. j - n \in 1..Len(queue) - n /\ (j - n) + n = j
        BY <1>3
      <3>2. queue'[j - n] = queue[j]
        BY <1>2, <3>1
      <3> QED BY <1>2, <2>2, <3>1, <3>2
    <2> QED BY <2>1, <2>2 DEF Queued
  <1>12. ASSUME NEW u \in Threads
         PROVE  Queued(u) <=> u = t \/ u \in served \/ Queued(u)'
    <2>1. Queued(u) <=> \E i \in 1..Len(queue) : queue[i].thread = u
      BY DEF Queued
    <2>2. \A i \in 1..Len(queue) : i = 1 \/ i \in 2..n \/ i \in n + 1..Len(queue)
      BY <1>3
    <2>3. 1 \in 1..Len(queue) /\ (\A i \in 2..n : i \in 1..Len(queue))
          /\ \A i \in n + 1..Len(queue) : i \in 1..Len(queue)
      BY <1>3
    <2> QED BY <1>4, <1>7, <1>11, <2>1, <2>2, <2>3
  <1>13. ASSUME NEW u \in Threads, Queued(u)' PROVE u # t /\ u \notin served
    <2>1. PICK i \in n + 1..Len(queue) : queue[i].thread = u
      BY <1>11, <1>13
    <2>2. i \in 1..Len(queue) /\ i # 1 /\ i \notin 2..n /\ 1 \in 1..Len(queue)
      BY <1>3
    <2>3. u # t
      BY <1>4, <1>5, <2>1, <2>2
    <2>4. \A j \in 2..n : queue[j].thread # u
      BY <1>3, <1>5, <2>1, <2>2
    <2> QED BY <1>7, <2>3, <2>4
  <1>14. ThreadsAreQueued'
    <2>1. ASSUME NEW i \in 1..Len(queue'), NEW j \in 1..Len(queue'),
                 queue'[i].thread = queue'[j].thread
          PROVE  i = j
      <3>1. /\ i \in Nat /\ j \in Nat /\ i + n \in 1..Len(queue) /\ j + n \in 1..Len(queue)
            /\ queue[i + n].thread = queue[j + n].thread
        BY <1>2, <1>3, <2>1
      <3>2. i + n = j + n
        BY <1>5, <3>1
      <3> QED BY <1>3, <3>1, <3>2
    <2>2. ASSUME NEW u \in Threads
          PROVE  Queued(u)' <=> stage'[u] # "idle" /\ answer'[u] = "none"
      <3>1. Queued(u) <=> stage[u] # "idle" /\ answer[u] = "none"
        BY DEF QueueInvariant, ThreadInvariant, ThreadsAreQueued
      <3>2. CASE u = t
        BY <1>9, <1>13, <3>2
      <3>3. CASE u # t /\ u \in served
        <4>1. answer'[u] # "none"
          BY <1>1, <3>3
        <4> QED BY <1>13, <3>3, <4>1
      <3>4. CASE u # t /\ u \notin served
        <4>1. answer'[u] = answer[u] /\ (stage'[u] = "idle" <=> stage[u] = "idle")
          BY <1>1, <1>10, <3>4
        <4> QED BY <1>12, <3>1, <3>4, <4>1
      <3> QED BY <3>2, <3>3, <3>4
    <2>3. ASSUME NEW u \in Threads, answer'[u] # "none"
          PROVE  stage'[u] \in {"asleep", "signalled"}
      <3>1. u # t
        BY <1>1, <1>4, <1>8, <2>3
      <3>2. stage[u] # "idle"
        <4>1. CASE u \in served
          BY <1>12, <4>1 DEF QueueInvariant, ThreadInvariant, ThreadsAreQueued
        <4>2. CASE u \notin served
          <5>1. answer[u] # "none"
            BY <1>1, <2>3, <4>2
          <5> QED BY <5>1 DEF QueueInvariant, ThreadInvariant, ThreadsAreQueued
        <4> QED BY <4>1, <4>2
      <3> QED BY <1>10, <3>1, <3>2
    <2>4. ASSUME NEW u \in Threads PROVE stage'[u] \notin Leading
      BY <1>9, <1>10 DEF Leading
    <2>5. ASSUME NEW u \in Threads PROVE holder' = u <=> stage'[u] = "room"
      BY <1>1, <2>4, WriteQueueAssumption DEF WriteQueueAssumption, Leading
    <2> QED BY <2>1, <2>2, <2>3, <2>4, <2>5 DEF ThreadsAreQueued
  <1>15. GroupIsWritten'
    <2>1. \A u \in Threads : stage'[u] \notin {"logging", "logged"}
      BY <1>9, <1>10
    <2> QED BY <1>1, <2>1 DEF GroupIsWritten
  <1>16. WriteQueueTypeOK'
    <2>1. stage' \in [Threads -> Stages]
      <3>1. \A u \in Threads : stage'[u] \in Stages
        BY <1>9, <1>10 DEF Stages
      <3> QED BY <1>1, <3>1
    <2>2. answer' \in [Threads -> {"none", "ok", "failed"}]
      BY <1>1, <1>3
    <2>3. succeeded' \subseteq ToSet(joined')
      <3>1. \A i \in 1..n : queue[i] \in ToSet(joined)
        <4>1. ASSUME NEW i \in 1..n PROVE queue[i] \in ToSet(joined)
          <5>1. Len(joined) \in Nat /\ DOMAIN joined = 1..Len(joined)
            BY DEF QueueInvariant, ThreadInvariant, WriteQueueTypeOK
          <5>2. /\ Len(queue) <= Len(joined)
                /\ i \in 1..Len(queue) /\ queue[i] = joined[i + (Len(joined) - Len(queue))]
            BY <1>3 DEF QueueInvariant, LogInvariant, QueueIsTheRest, Left
          <5>3. i + (Len(joined) - Len(queue)) \in 1..Len(joined)
            BY <1>3, <5>1, <5>2
          <5> QED BY <5>1, <5>2, <5>3 DEF ToSet
        <4> QED BY <4>1
      <3>2. succeeded \subseteq ToSet(joined)
        BY DEF QueueInvariant, ThreadInvariant, WriteQueueTypeOK
      <3> QED BY <1>1, <3>1, <3>2
    <2>4. /\ force \in BOOLEAN /\ allowDelay \in BOOLEAN /\ joined \in Seq(Calls)
          /\ log \in Seq(Seq(Calls)) /\ synced \in 0..Len(log)
      BY DEF QueueInvariant, ThreadInvariant, WriteQueueTypeOK
    <2>5. group' \in 0..Len(queue')
      BY <1>1, <1>2, <1>3
    <2>6. force' \in BOOLEAN /\ allowDelay' \in BOOLEAN /\ joined' \in Seq(Calls)
      BY <1>1, <2>4
    <2>7. log' \in Seq(Seq(Calls)) /\ synced' \in 0..Len(log')
      BY <2>4
    <2>8. holder' \in Threads \union {NoThread} /\ outcome' \in {"none", "ok", "failed", "unsynced"}
      BY <1>1
    <2> QED BY <1>2, <2>1, <2>2, <2>3, <2>5, <2>6, <2>7, <2>8
            DEF WriteQueueTypeOK, RoomKept, Stages
  <1> QED BY <1>14, <1>15, <1>16 DEF ThreadInvariant, RoomKept

\* The calls that leave the queue are in the log, when they are answered with ok;
\* a log that reached the end of a group reaches what has left.
LEMMA AnswerKeepsLog ==
    ASSUME QueueInvariant, NEW t \in Threads,
           NEW n \in 1..Len(queue), NEW ok \in BOOLEAN, Answer(t, n, ok),
           UNCHANGED <<log, synced>>,
           outcome # "none" => n = group,
           ok => \A i \in 1..n : queue[i].empty \/ InLog(queue[i])
    PROVE  LogInvariant'
  <1>1. /\ queue' = SubSeq(queue, n + 1, Len(queue))
        /\ succeeded' = IF ok THEN succeeded \union {queue[i] : i \in 1..n} ELSE succeeded
        /\ group' = 0 /\ outcome' = "none" /\ joined' = joined
    BY DEF Answer
  <1>2. /\ Len(queue') = Len(queue) - n
        /\ \A i \in 1..Len(queue) - n : queue'[i] = queue[i + n]
    BY <1>1, QueueShrinks
  <1>3. /\ Len(queue) \in Nat /\ Len(joined) \in Nat /\ n \in Nat /\ 1 <= n /\ n <= Len(queue)
        /\ Len(queue) <= Len(joined) /\ group \in Nat
    BY DEF QueueInvariant, ThreadInvariant, LogInvariant, QueueIsTheRest, WriteQueueTypeOK
  <1>4. Left' = Left + n /\ Left \in Nat
    <2>1. Left = Len(joined) - Len(queue) /\ Left' = Len(joined') - Len(queue')
      BY DEF Left
    <2>2. Len(joined') = Len(joined)
      BY <1>1
    <2>3. Len(queue') = Len(queue) - n
      BY <1>2
    <2> HIDE DEF Left
    <2> QED BY <1>3, <2>1, <2>2, <2>3
  <1>5. Reached <= Reached' /\ Reached \in Nat /\ Reached' \in Nat
    <2>1. Reached' = Left + n
      BY <1>1, <1>4, <1>3 DEF Reached
    <2>2. CASE outcome = "none"
      BY <1>3, <1>4, <2>1, <2>2 DEF Reached
    <2>3. CASE outcome # "none"
      <3>1. Reached = Left \/ Reached = Left + n
        BY <1>3, <1>4, <2>3 DEF Reached
      <3> QED BY <1>3, <1>4, <2>1, <3>1
    <2> QED BY <2>2, <2>3
  <1>6. QueueIsTheRest'
    <2>1. ASSUME NEW i \in 1..Len(queue') PROVE queue'[i] = joined'[i + Left']
      <3>1. i \in Nat /\ i \in 1..Len(queue) - n /\ i + n \in 1..Len(queue)
        BY <1>2, <1>3
      <3>2. queue'[i] = queue[i + n]
        BY <1>2, <3>1
      <3>3. queue[i + n] = joined[(i + n) + Left]
        BY <3>1 DEF QueueInvariant, LogInvariant, QueueIsTheRest
      <3>4. (i + n) + Left = i + Left'
        BY <1>3, <1>4, <3>1
      <3> QED BY <1>1, <3>2, <3>3, <3>4
    <2>2. Len(queue') <= Len(joined')
      BY <1>1, <1>2, <1>3
    <2>3. Injective(joined)' /\ \A i \in 1..Len(joined') :
             joined'[i].number
                <= Cardinality({j \in DOMAIN joined' : joined'[j].thread = joined'[i].thread})
      BY <1>1 DEF QueueInvariant, LogInvariant, QueueIsTheRest, Injective
    <2> QED BY <2>1, <2>2, <2>3 DEF QueueIsTheRest
  <1>7. LogIsOrdered'
    <2>1. LiesWithin(log, joined, Reached')
      <3>1. ASSUME NEW i \in 1..Len(log), NEW a \in 1..Len(log[i])
            PROVE  \E p \in 1..Len(joined) : joined[p] = log[i][a] /\ p <= Reached'
        <4>1. PICK p \in 1..Len(joined) : joined[p] = log[i][a] /\ p <= Reached
          BY DEF QueueInvariant, LogInvariant, LogIsOrdered, LiesWithin
        <4>2. p <= Reached'
          BY <1>3, <1>5, <4>1
        <4> QED BY <4>1, <4>2
      <3> QED BY <3>1 DEF LiesWithin
    <2>2. joined' = joined /\ log' = log
      BY <1>1
    <2>3. FollowsOrder(log, joined)
      BY DEF QueueInvariant, LogInvariant, LogIsOrdered
    <2> QED BY <2>1, <2>2, <2>3 DEF LogIsOrdered
  <1>8. AnsweredIsWritten'
    <2>1. log' = log /\ synced' = synced
      OBVIOUS
    <2>2. ASSUME NEW c \in succeeded', ~c.empty PROVE InLog(c)
      BY <1>1, <2>2 DEF QueueInvariant, LogInvariant, AnsweredIsWritten
    <2>3. ASSUME NEW c \in succeeded', ~c.empty PROVE InLog(c)'
      BY <2>1, <2>2, <2>3 DEF InLog
    <2> QED BY <1>1, <2>3 DEF AnsweredIsWritten
  <1> QED BY <1>6, <1>7, <1>8 DEF LogInvariant

-----------------------------------------------------------------------------
\* Write, Refused and the end of a write: what the head answers.
LEMMA RefusedKeeps ==
    ASSUME QueueInvariant, NEW t \in Threads, Refused(t) \/ SwitchFails(t)
    PROVE  QueueInvariant'
  <1>1. /\ stage[t] = "room" /\ Answer(t, 1, FALSE)
        /\ log' = log /\ synced' = synced
        /\ UNCHANGED <<memFull, imm, level0, bg, bgError>>
    BY DEF Refused, SwitchFails, MustSwitch, MayGoOn, MakesRoom, fileVars, roomVars, bgVars
  <1>2. stage[t] \in Leading /\ stage[t] \notin {"logging", "logged"}
    BY <1>1 DEF Leading
  <1>3. outcome = "none"
    BY <1>2, NoGroupYet
  <1>4. 1 \in 1..Len(queue)
    BY <1>2, TheHeadLeads DEF QueueInvariant, ThreadInvariant, WriteQueueTypeOK
  <1>5. RoomKept
    BY <1>1, RoomUnchanged
  <1>6. ThreadInvariant'
    BY <1>1, <1>2, <1>4, <1>5, AnswerKeepsThreads
  <1>7. LogInvariant'
    BY <1>1, <1>3, <1>4, AnswerKeepsLog
  <1> QED BY <1>6, <1>7 DEF QueueInvariant

\* An empty batch at the head has had its new memtable.
LEMMA EmptyBatchKeeps ==
    ASSUME QueueInvariant, NEW t \in Threads, FindRoom(t), queue[1].empty
    PROVE  QueueInvariant'
  <1>1. /\ stage[t] = "room" /\ Answer(t, 1, TRUE)
        /\ log' = log /\ synced' = synced
        /\ UNCHANGED <<memFull, imm, level0, bg, bgError>>
    BY DEF FindRoom, MayGoOn, MakesRoom, fileVars, roomVars, bgVars
  <1>2. stage[t] \in Leading /\ stage[t] \notin {"logging", "logged"}
    BY <1>1 DEF Leading
  <1>3. outcome = "none"
    BY <1>2, NoGroupYet
  <1>4. 1 \in 1..Len(queue)
    BY <1>2, TheHeadLeads DEF QueueInvariant, ThreadInvariant, WriteQueueTypeOK
  <1>5. RoomKept
    BY <1>1, RoomUnchanged
  <1>6. ThreadInvariant'
    BY <1>1, <1>2, <1>4, <1>5, AnswerKeepsThreads
  <1>7. \A i \in 1..1 : queue[i].empty \/ InLog(queue[i])
    OBVIOUS
  <1>8. LogInvariant'
    BY <1>1, <1>3, <1>4, <1>7, AnswerKeepsLog
  <1> QED BY <1>6, <1>8 DEF QueueInvariant

LEMMA FinishKeeps ==
    ASSUME QueueInvariant, NEW t \in Threads, Finish(t)
    PROVE  QueueInvariant'
  <1> DEFINE ok == outcome = "ok"
  <1>1. /\ stage[t] = "logged" /\ Answer(t, group, ok)
        /\ log' = log /\ synced' = synced
        /\ UNCHANGED <<memFull, imm, level0, bg>> /\ bgError' = (bgError \/ outcome = "unsynced")
    BY DEF Finish, fileVars, roomVars
  <1>2. stage[t] \in Leading /\ ok \in BOOLEAN
    BY <1>1 DEF Leading
  <1>3. group \in 1..Len(queue)
    <2>1. group > 0
      BY <1>1 DEF QueueInvariant, ThreadInvariant, GroupIsWritten
    <2>2. group \in 0..Len(queue) /\ Len(queue) \in Nat
      BY DEF QueueInvariant, ThreadInvariant, WriteQueueTypeOK
    <2> QED BY <2>1, <2>2
  <1>4. RoomKept
    <2>1. bgError' \in BOOLEAN
      BY <1>1 DEF QueueInvariant, ThreadInvariant, WriteQueueTypeOK
    <2> QED BY <1>1, <2>1
            DEF QueueInvariant, ThreadInvariant, WriteQueueTypeOK, RoomAtLevel0, RoomKept
  <1>5. ok => \A i \in 1..group : queue[i].empty \/ InLog(queue[i])
    BY DEF QueueInvariant, LogInvariant, AnsweredIsWritten
  <1>6. ThreadInvariant'
    BY <1>1, <1>2, <1>3, <1>4, AnswerKeepsThreads
  <1>7. LogInvariant'
    BY <1>1, <1>2, <1>3, <1>5, AnswerKeepsLog
  <1> QED BY <1>6, <1>7 DEF QueueInvariant

-----------------------------------------------------------------------------
\* BuildBatchGroup: the head has a group, and lets go of the mutex.
LEMMA GroupKeeps ==
    ASSUME QueueInvariant, NEW t \in Threads, FindRoom(t), ~queue[1].empty
    PROVE  QueueInvariant'
  <1>1. /\ stage[t] = "room" /\ group' \in GroupSizes
        /\ stage' = [stage EXCEPT ![t] = "logging"] /\ holder' = NoThread
        /\ UNCHANGED <<answer, queue, force, allowDelay, outcome, joined, succeeded>>
        /\ UNCHANGED <<log, synced, memFull, imm, level0, bg, bgError>>
    BY DEF FindRoom, MayGoOn, MakesRoom, fileVars, roomVars, bgVars
  <1>2. stage[t] \in Leading /\ stage[t] \notin {"logging", "logged"}
    BY <1>1 DEF Leading
  <1>3. group = 0 /\ outcome = "none"
    BY <1>2, NoGroupYet
  <1>4. /\ group' \in 1..Len(queue)
        /\ \A i \in 2..group' : queue[i].sync => queue[1].sync
    BY <1>1 DEF GroupSizes
  <1>5. stage \in [Threads -> Stages] /\ Len(queue) \in Nat
    BY DEF QueueInvariant, ThreadInvariant, WriteQueueTypeOK, Stages
  <1>6. /\ stage'[t] = "logging" /\ Len(queue) > 0 /\ queue[1].thread = t /\ answer[t] = "none"
        /\ \A u \in Threads \ {t} :
              stage'[u] = stage[u] /\ stage[u] \in {"idle", "asleep", "signalled"}
    BY <1>1, <1>2, <1>5, TheHeadLeads
  <1>7. WriteQueueTypeOK'
    <2>1. stage' \in [Threads -> Stages]
      BY <1>1, <1>5 DEF Stages, Leading
    <2>2. group' \in 0..Len(queue')
      BY <1>1, <1>4, <1>5
    <2> QED BY <1>1, <2>1, <2>2 DEF QueueInvariant, ThreadInvariant, WriteQueueTypeOK, Stages
  <1>8. ThreadsAreQueued'
    <2>1. ASSUME NEW u \in Threads
          PROVE  /\ Queued(u)' <=> Queued(u)
                 /\ stage'[u] = "idle" <=> stage[u] = "idle"
                 /\ answer[u] # "none" => stage'[u] \in {"asleep", "signalled"}
                 /\ stage'[u] \in Leading => Len(queue) > 0 /\ queue[1].thread = u
                 /\ holder' = u <=> stage'[u] = "room"
      <3>0. Queued(u)' <=> Queued(u)
        BY <1>1 DEF Queued
      <3>1. CASE u = t
        BY <1>1, <1>6, <3>0, <3>1, WriteQueueAssumption DEF WriteQueueAssumption
      <3>2. CASE u # t
        <4>1. stage'[u] \notin Leading
          BY <1>6, <3>2 DEF Leading
        <4>2. answer[u] # "none" => stage[u] \in {"asleep", "signalled"}
          BY DEF QueueInvariant, ThreadInvariant, ThreadsAreQueued
        <4> QED BY <1>1, <1>6, <3>0, <3>2, <4>1, <4>2, WriteQueueAssumption
                DEF WriteQueueAssumption, Leading
      <3> QED BY <3>1, <3>2
    <2>2. answer' = answer /\ queue' = queue
      BY <1>1
    <2> QED BY <2>1, <2>2 DEF QueueInvariant, ThreadInvariant, ThreadsAreQueued
  <1>9. GroupIsWritten'
    <2>1. group' > 0 /\ \E u \in Threads : stage'[u] \in {"logging", "logged"}
      BY <1>4, <1>6
    <2>2. outcome' = "none" /\ \A u \in Threads : stage'[u] # "logged"
      BY <1>1, <1>3, <1>6
    <2>3. \A i \in 2..group' : queue'[i].sync => queue'[1].sync
      BY <1>1, <1>4
    <2> QED BY <2>1, <2>2, <2>3 DEF GroupIsWritten
  <1>10. RoomKept
    BY <1>1, RoomUnchanged
  <1>11. LogInvariant'
    <2>0. /\ queue' = queue /\ joined' = joined /\ log' = log /\ synced' = synced
          /\ outcome' = outcome /\ succeeded' = succeeded
      BY <1>1
    <2>1. Left' = Left /\ Reached' = Reached
      BY <1>3, <2>0 DEF Left, Reached
    <2>2. QueueIsTheRest'
      BY <2>0, <2>1 DEF QueueInvariant, LogInvariant, QueueIsTheRest
    <2>3. LogIsOrdered'
      BY <2>0, <2>1 DEF QueueInvariant, LogInvariant, LogIsOrdered
    <2>4. AnsweredIsWritten'
      BY <1>3, <2>0 DEF QueueInvariant, LogInvariant, AnsweredIsWritten, InLog
    <2> QED BY <2>2, <2>3, <2>4 DEF LogInvariant
  <1> QED BY <1>7, <1>8, <1>9, <1>10, <1>11 DEF QueueInvariant, ThreadInvariant, RoomKept

\* The head has written for its group, or failed to.
LEMMA LoggingKeepsThreads ==
    ASSUME QueueInvariant, NEW t \in Threads,
           NEW result \in {"ok", "failed", "unsynced"}, Logging(t, result),
           log' \in Seq(Seq(Calls)), synced' \in 0..Len(log'), memFull' \in BOOLEAN
    PROVE  ThreadInvariant'
  <1>1. /\ stage[t] = "logging" /\ stage' = [stage EXCEPT ![t] = "logged"] /\ outcome' = result
        /\ UNCHANGED <<holder, answer, queue, force, allowDelay, group, imm, level0,
                       bg, bgError, joined, succeeded>>
    BY DEF Logging, bgVars
  <1>2. stage[t] \in Leading
    BY <1>1 DEF Leading
  <1>3. stage \in [Threads -> Stages] /\ Len(queue) \in Nat
    BY DEF QueueInvariant, ThreadInvariant, WriteQueueTypeOK, Stages
  <1>4. /\ stage'[t] = "logged" /\ Len(queue) > 0 /\ queue[1].thread = t /\ answer[t] = "none"
        /\ \A u \in Threads \ {t} :
              stage'[u] = stage[u] /\ stage[u] \in {"idle", "asleep", "signalled"}
    BY <1>1, <1>2, <1>3, TheHeadLeads
  <1>5. WriteQueueTypeOK'
    <2>1. stage' \in [Threads -> Stages]
      BY <1>1, <1>3 DEF Stages, Leading
    <2> QED BY <1>1, <2>1 DEF QueueInvariant, ThreadInvariant, WriteQueueTypeOK, Stages
  <1>6. ThreadsAreQueued'
    <2>1. ASSUME NEW u \in Threads
          PROVE  /\ Queued(u)' <=> Queued(u)
                 /\ stage'[u] = "idle" <=> stage[u] = "idle"
                 /\ answer[u] # "none" => stage'[u] \in {"asleep", "signalled"}
                 /\ stage'[u] \in Leading => Len(queue) > 0 /\ queue[1].thread = u
                 /\ holder' = u <=> stage'[u] = "room"
      <3>0. Queued(u)' <=> Queued(u)
        BY <1>1 DEF Queued
      <3>1. holder = u <=> stage[u] = "room"
        BY DEF QueueInvariant, ThreadInvariant, ThreadsAreQueued
      <3>2. CASE u = t
        BY <1>1, <1>4, <3>0, <3>1, <3>2
      <3>3. CASE u # t
        <4>1. stage'[u] \notin Leading
          BY <1>4, <3>3 DEF Leading
        <4>2. answer[u] # "none" => stage[u] \in {"asleep", "signalled"}
          BY DEF QueueInvariant, ThreadInvariant, ThreadsAreQueued
        <4> QED BY <1>1, <1>4, <3>0, <3>1, <3>3, <4>1, <4>2
      <3> QED BY <3>2, <3>3
    <2>2. answer' = answer /\ queue' = queue
      BY <1>1
    <2> QED BY <2>1, <2>2 DEF QueueInvariant, ThreadInvariant, ThreadsAreQueued
  <1>7. GroupIsWritten'
    <2>1. group > 0 /\ \A i \in 2..group : queue[i].sync => queue[1].sync
      BY <1>1 DEF QueueInvariant, ThreadInvariant, GroupIsWritten
    <2>2. outcome' # "none" /\ group' = group /\ queue' = queue
      BY <1>1
    <2> QED BY <1>4, <2>1, <2>2 DEF GroupIsWritten
  <1>8. RoomAtLevel0'
    BY <1>1 DEF QueueInvariant, ThreadInvariant, RoomAtLevel0
  <1> QED BY <1>5, <1>6, <1>7, <1>8 DEF ThreadInvariant

\* A record of calls that lie right behind those of the others comes after them.
LEMMA RecordFollows ==
    ASSUME NEW records, NEW more, NEW r, NEW calls, NEW reached \in Nat,
           Len(records) \in Nat, Len(r) \in Nat,
           Len(more) = Len(records) + 1, more[Len(records) + 1] = r,
           \A i \in 1..Len(records) : more[i] = records[i],
           \A a \in 1..Len(r) : a + reached \in 1..Len(calls) /\ calls[a + reached] = r[a],
           Injective(calls), LiesWithin(records, calls, reached), FollowsOrder(records, calls)
    PROVE  LiesWithin(more, calls, reached + Len(r)) /\ FollowsOrder(more, calls)
  <1>1. ASSUME NEW a \in 1..Len(r), NEW p \in 1..Len(calls), calls[p] = r[a]
        PROVE  p = a + reached
    BY <1>1 DEF Injective
  <1>2. ASSUME NEW i \in 1..Len(records), NEW a \in 1..Len(records[i]),
               NEW p \in 1..Len(calls), calls[p] = records[i][a]
        PROVE  p <= reached
    BY <1>2 DEF Injective, LiesWithin
  <1>3. ASSUME NEW i \in 1..Len(more)
        PROVE  \/ i \in 1..Len(records) /\ more[i] = records[i]
               \/ i = Len(records) + 1 /\ more[i] = r
    OBVIOUS
  <1>4. ASSUME NEW i \in 1..Len(more), NEW a \in 1..Len(more[i])
        PROVE  \E p \in 1..Len(calls) : calls[p] = more[i][a] /\ p <= reached + Len(r)
    <2>1. CASE i \in 1..Len(records) /\ more[i] = records[i]
      <3>1. a \in 1..Len(records[i])
        BY <2>1
      <3>2. PICK p \in 1..Len(calls) : calls[p] = records[i][a] /\ p <= reached
        BY <2>1, <3>1 DEF LiesWithin
      <3>3. p <= reached + Len(r)
        BY <3>2
      <3> QED BY <2>1, <3>2, <3>3
    <2>2. CASE more[i] = r
      <3>1. a \in 1..Len(r) /\ a + reached <= reached + Len(r)
        BY <2>2
      <3> QED BY <2>2, <3>1
    <2> QED BY <1>3, <2>1, <2>2
  <1>5. ASSUME NEW i \in 1..Len(more), NEW j \in 1..Len(more),
               NEW a \in 1..Len(more[i]), NEW b \in 1..Len(more[j]),
               NEW p \in 1..Len(calls), NEW q \in 1..Len(calls),
               Earlier(i, a, j, b), calls[p] = more[i][a], calls[q] = more[j][b]
        PROVE  p < q
    <2>1. CASE j \in 1..Len(records) /\ more[j] = records[j]
      <3>1. i \in 1..Len(records) /\ more[i] = records[i]
        <4>1. i \in Nat /\ j \in Nat /\ j <= Len(records)
          BY <2>1
        <4>2. i < j \/ i = j
          BY <1>5 DEF Earlier
        <4>3. i <= Len(records)
          BY <4>1, <4>2
        <4>4. i # Len(records) + 1
          BY <4>1, <4>3
        <4> QED BY <1>3, <4>4
      <3>2. a \in 1..Len(records[i]) /\ b \in 1..Len(records[j])
        BY <2>1, <3>1
      <3> QED BY <1>5, <2>1, <3>1, <3>2 DEF FollowsOrder
    <2>2. CASE j = Len(records) + 1 /\ more[j] = r
      <3>1. b \in 1..Len(r) /\ b \in Nat /\ b >= 1
        BY <2>2
      <3>2. q = b + reached
        BY <1>1, <1>5, <2>2, <3>1
      <3>3. CASE i \in 1..Len(records) /\ more[i] = records[i]
        <4>1. p <= reached
          BY <1>2, <1>5, <3>3
        <4> QED BY <3>1, <3>2, <4>1
      <3>4. CASE i = Len(records) + 1 /\ more[i] = r
        <4>1. a \in 1..Len(r) /\ a < b
          BY <1>5, <2>2, <3>4 DEF Earlier
        <4>2. p = a + reached
          BY <1>1, <1>5, <3>4, <4>1
        <4> QED BY <3>1, <3>2, <4>1, <4>2
      <3> QED BY <1>3, <3>3, <3>4
    <2> QED BY <1>3, <2>1, <2>2
  <1>6. LiesWithin(more, calls, reached + Len(r))
    BY <1>4 DEF LiesWithin
  <1>7. FollowsOrder(more, calls)
    BY <1>5 DEF FollowsOrder
  <1> QED BY <1>6, <1>7

\* One more call leaves the places of the others.
LEMMA CallsAreAdded ==
    ASSUME NEW records, NEW calls, NEW more, NEW c, NEW reached,
           Len(calls) \in Nat, Len(more) = Len(calls) + 1, more[Len(calls) + 1] = c,
           \A i \in 1..Len(calls) : more[i] = calls[i] /\ calls[i] # c,
           LiesWithin(records, calls, reached), FollowsOrder(records, calls)
    PROVE  LiesWithin(records, more, reached) /\ FollowsOrder(records, more)
  <1>1. ASSUME NEW i \in 1..Len(records), NEW a \in 1..Len(records[i])
        PROVE  /\ records[i][a] # c
               /\ \E p \in 1..Len(more) : more[p] = records[i][a] /\ p <= reached
    <2>1. PICK p \in 1..Len(calls) : calls[p] = records[i][a] /\ p <= reached
      BY DEF LiesWithin
    <2>2. p \in 1..Len(more) /\ more[p] = calls[p] /\ calls[p] # c
      OBVIOUS
    <2> QED BY <2>1, <2>2
  <1>2. ASSUME NEW p \in 1..Len(more), more[p] # c
        PROVE  p \in 1..Len(calls) /\ more[p] = calls[p]
    BY <1>2
  <1>3. ASSUME NEW i \in 1..Len(records), NEW j \in 1..Len(records),
               NEW a \in 1..Len(records[i]), NEW b \in 1..Len(records[j]),
               NEW p \in 1..Len(more), NEW q \in 1..Len(more),
               Earlier(i, a, j, b), more[p] = records[i][a], more[q] = records[j][b]
        PROVE  p < q
    <2>1. p \in 1..Len(calls) /\ calls[p] = records[i][a]
      BY <1>1, <1>2, <1>3
    <2>2. q \in 1..Len(calls) /\ calls[q] = records[j][b]
      BY <1>1, <1>2, <1>3
    <2> QED BY <1>3, <2>1, <2>2 DEF FollowsOrder
  <1>4. LiesWithin(records, more, reached)
    BY <1>1 DEF LiesWithin
  <1>5. FollowsOrder(records, more)
    BY <1>3 DEF FollowsOrder
  <1> QED BY <1>4, <1>5

\* AddRecord puts the calls of the group at the end of the log, whose places are
\* those right behind what it had reached.
LEMMA RecordIsAdded ==
    ASSUME QueueInvariant, NEW t \in Threads,
           NEW result \in {"ok", "unsynced"}, Logging(t, result),
           log' = Append(log, Record),
           synced' \in {synced, Len(log')}, result = "ok" /\ queue[1].sync => synced' = Len(log')
    PROVE  LogInvariant' /\ log' \in Seq(Seq(Calls)) /\ synced' \in 0..Len(log')
  <1>1. /\ stage[t] = "logging" /\ outcome' = result
        /\ queue' = queue /\ group' = group /\ joined' = joined /\ succeeded' = succeeded
    BY DEF Logging
  <1>2. outcome = "none"
    <2>1. stage[t] \in Leading /\ stage[t] # "logged"
      BY <1>1 DEF Leading
    <2>2. \A u \in Threads : stage[u] # "logged"
      BY <2>1, TheHeadLeads
    <2> QED BY <2>2 DEF QueueInvariant, ThreadInvariant, GroupIsWritten
  <1>3. /\ queue \in Seq(Calls) /\ Len(queue) \in Nat /\ Len(joined) \in Nat
        /\ group \in 0..Len(queue) /\ group \in Nat /\ Len(queue) <= Len(joined)
        /\ log \in Seq(Seq(Calls)) /\ Len(log) \in Nat /\ synced \in 0..Len(log)
    BY DEF QueueInvariant, ThreadInvariant, LogInvariant, QueueIsTheRest, WriteQueueTypeOK
  <1>4. PICK r : /\ r = Record /\ r \in Seq(Calls) /\ Len(r) = group
                 /\ \A a \in 1..group : r[a] = queue[a]
    <2>1. /\ SubSeq(queue, 1, group) \in Seq(Calls) /\ Len(SubSeq(queue, 1, group)) = group
          /\ \A a \in 1..group : SubSeq(queue, 1, group)[a] = queue[a]
      BY <1>3
    <2> QED BY <2>1 DEF Record
  <1>5. /\ log' \in Seq(Seq(Calls)) /\ Len(log') = Len(log) + 1
        /\ \A i \in 1..Len(log) : log'[i] = log[i]
        /\ log'[Len(log) + 1] = r
    BY <1>3, <1>4
  <1>6. /\ Left' = Left /\ Left \in Nat /\ Reached = Left /\ Reached' = Left + group
        /\ Left = Len(joined) - Len(queue)
    BY <1>1, <1>2, <1>3 DEF Left, Reached
  <1>7. synced' \in 0..Len(log') /\ synced <= synced'
    BY <1>3, <1>5
  <1>8. QueueIsTheRest'
    BY <1>1, <1>6 DEF QueueInvariant, LogInvariant, QueueIsTheRest
  <1>9. /\ \A p, q \in 1..Len(joined) : joined[p] = joined[q] => p = q
        /\ \A i \in 1..Len(queue) : queue[i] = joined[i + Left]
    BY DEF QueueInvariant, LogInvariant, QueueIsTheRest, Injective
  <1>10. \A a \in 1..group : a + Left \in 1..Len(joined) /\ joined[a + Left] = r[a]
    <2>1. ASSUME NEW a \in 1..group
          PROVE  a + Left \in 1..Len(joined) /\ joined[a + Left] = r[a]
      <3>1. a \in 1..Len(queue) /\ a \in Nat
        BY <1>3
      <3>2. a + Left \in 1..Len(joined)
        BY <1>3, <1>6, <3>1
      <3> QED BY <1>4, <1>9, <3>1, <3>2
    <2> QED BY <2>1
  <1>11. LiesWithin(log, joined, Left) /\ FollowsOrder(log, joined) /\ Injective(joined)
    BY <1>6 DEF QueueInvariant, LogInvariant, LogIsOrdered, QueueIsTheRest
  <1>12. LiesWithin(log', joined, Left + group) /\ FollowsOrder(log', joined)
    <2>1. PICK records : records = log'
      OBVIOUS
    <2>2. /\ Len(records) = Len(log) + 1
          /\ \A i \in 1..Len(log) : records[i] = log[i]
          /\ records[Len(log) + 1] = r
      BY <1>5, <2>1
    <2>3. \A a \in 1..Len(r) : a + Left \in 1..Len(joined) /\ joined[a + Left] = r[a]
      BY <1>4, <1>10
    <2>4. LiesWithin(records, joined, Left + Len(r)) /\ FollowsOrder(records, joined)
      BY <1>3, <1>4, <1>6, <1>11, <2>2, <2>3, RecordFollows
    <2> QED BY <1>4, <2>1, <2>4
  <1>16. ASSUME NEW c, InLog(c) PROVE InLog(c)'
    <2>1. PICK i \in 1..Len(log) : InList(c, log[i]) /\ (c.sync => i <= synced)
      BY <1>16 DEF InLog
    <2>2. i \in 1..Len(log') /\ log'[i] = log[i]
      BY <1>3, <1>5
    <2>3. synced \in Nat /\ synced' \in Nat /\ i \in Nat
      BY <1>3, <1>5, <1>7
    <2>4. c.sync => i <= synced'
      BY <1>7, <2>1, <2>3
    <2>5. InList(c, log'[i])
      BY <2>1, <2>2
    <2> QED BY <2>2, <2>4, <2>5 DEF InLog
  <1>17. ASSUME result = "ok", NEW i \in 1..group PROVE InLog(queue[i])'
    <2>1. InList(queue[i], r)
      BY <1>4 DEF InList
    <2>2. queue[i].sync => queue[1].sync
      <3>1. i = 1 \/ i \in 2..group
        BY <1>3
      <3> QED BY <3>1 DEF QueueInvariant, ThreadInvariant, GroupIsWritten
    <2>3. Len(log') \in 1..Len(log') /\ log'[Len(log')] = r
      BY <1>3, <1>5
    <2>4. queue[i].sync => Len(log') <= synced'
      <3>1. queue[i].sync => synced' = Len(log')
        BY <1>17, <2>2
      <3>2. Len(log') \in Nat
        BY <1>5
      <3> QED BY <3>1, <3>2
    <2>5. queue' = queue
      BY <1>1
    <2>6. \E k \in 1..Len(log') : InList(queue[i], log'[k]) /\ (queue[i].sync => k <= synced')
      BY <2>1, <2>3, <2>4
    <2> QED BY <2>5, <2>6 DEF InLog
  <1>18. AnsweredIsWritten'
    <2>1. \A c \in succeeded' : ~c.empty => InLog(c)'
      BY <1>1, <1>16 DEF QueueInvariant, LogInvariant, AnsweredIsWritten
    <2>2. outcome' = "ok" => \A i \in 1..group' : InLog(queue[i])'
      BY <1>1, <1>17
    <2> QED BY <2>1, <2>2 DEF AnsweredIsWritten
  <1>19. LogIsOrdered'
    BY <1>1, <1>6, <1>12 DEF LogIsOrdered
  <1> QED BY <1>5, <1>7, <1>8, <1>18, <1>19 DEF LogInvariant

LEMMA LoggingKeeps ==
    ASSUME QueueInvariant, NEW t \in Threads, AddToLog(t) \/ AddFails(t) \/ SyncFails(t)
    PROVE  QueueInvariant'
  <1>0. /\ log \in Seq(Seq(Calls)) /\ Len(log) \in Nat /\ synced \in 0..Len(log)
        /\ memFull \in BOOLEAN
    BY DEF QueueInvariant, ThreadInvariant, WriteQueueTypeOK
  <1>1. CASE AddToLog(t)
    <2>1. /\ Logging(t, "ok") /\ log' = Append(log, Record) /\ memFull' \in BOOLEAN
          /\ synced' \in {synced, Len(log')} /\ (queue[1].sync => synced' = Len(log'))
      BY <1>1 DEF AddToLog
    <2>2. LogInvariant' /\ log' \in Seq(Seq(Calls)) /\ synced' \in 0..Len(log')
      BY <2>1, RecordIsAdded
    <2>3. ThreadInvariant'
      BY <2>1, <2>2, LoggingKeepsThreads
    <2> QED BY <2>2, <2>3 DEF QueueInvariant
  <1>2. CASE SyncFails(t)
    <2>1. /\ Logging(t, "unsynced") /\ log' = Append(log, Record) /\ memFull' = memFull
          /\ synced' \in {synced, Len(log')}
      BY <1>2 DEF SyncFails
    <2>2. LogInvariant' /\ log' \in Seq(Seq(Calls)) /\ synced' \in 0..Len(log')
      BY <2>1, RecordIsAdded
    <2>3. ThreadInvariant'
      BY <1>0, <2>1, <2>2, LoggingKeepsThreads
    <2> QED BY <2>2, <2>3 DEF QueueInvariant
  <1>3. CASE AddFails(t)
    <2>1. Logging(t, "failed") /\ log' = log /\ synced' = synced /\ memFull' = memFull
      BY <1>3 DEF AddFails, fileVars
    <2>2. ThreadInvariant'
      BY <1>0, <2>1, LoggingKeepsThreads
    <2>3. /\ stage[t] = "logging" /\ outcome' = "failed"
          /\ queue' = queue /\ group' = group /\ joined' = joined /\ succeeded' = succeeded
      BY <2>1 DEF Logging
    <2>4. outcome = "none"
      <3>1. stage[t] \in Leading /\ stage[t] # "logged"
        BY <2>3 DEF Leading
      <3>2. \A u \in Threads : stage[u] # "logged"
        BY <3>1, TheHeadLeads
      <3> QED BY <3>2 DEF QueueInvariant, ThreadInvariant, GroupIsWritten
    <2>5. Left' = Left /\ Reached' = Reached
      BY <2>3, <2>4 DEF Left, Reached
    <2>6. QueueIsTheRest'
      BY <2>3, <2>5 DEF QueueInvariant, LogInvariant, QueueIsTheRest
    <2>7. LogIsOrdered'
      BY <2>1, <2>3, <2>5 DEF QueueInvariant, LogInvariant, LogIsOrdered
    <2>8. AnsweredIsWritten'
      BY <2>1, <2>3 DEF QueueInvariant, LogInvariant, AnsweredIsWritten, InLog
    <2> QED BY <2>2, <2>6, <2>7, <2>8 DEF QueueInvariant, LogInvariant
  <1> QED BY <1>1, <1>2, <1>3

-----------------------------------------------------------------------------
\* A thread that was answered returns; one that was not goes back to its place,
\* the first.
LEMMA AwakeKeeps ==
    ASSUME QueueInvariant, NEW t \in Threads, Awake(t)
    PROVE  QueueInvariant'
  <1>1. /\ holder = NoThread /\ stage[t] = "signalled"
        /\ UNCHANGED <<queue, group, outcome, log, synced, joined, succeeded>>
        /\ UNCHANGED <<memFull, imm, level0, bg, bgError>>
    BY DEF Awake, MutexIsFree, fileVars, roomVars, bgVars
  <1>2. /\ stage \in [Threads -> Stages] /\ answer \in [Threads -> {"none", "ok", "failed"}]
        /\ queue \in Seq(Calls) /\ Len(queue) \in Nat
        /\ force \in BOOLEAN /\ allowDelay \in BOOLEAN
    BY DEF QueueInvariant, ThreadInvariant, WriteQueueTypeOK, Stages
  <1>3. RoomKept
    BY <1>1, RoomUnchanged
  <1>4. CASE answer[t] # "none"
    <2>1. /\ stage' = [stage EXCEPT ![t] = "idle"] /\ answer' = [answer EXCEPT ![t] = "none"]
          /\ UNCHANGED <<holder, force, allowDelay>>
      BY <1>4 DEF Awake
    <2>2. WriteQueueTypeOK'
      <3>1. stage' \in [Threads -> Stages] /\ answer' \in [Threads -> {"none", "ok", "failed"}]
        BY <1>2, <2>1 DEF Stages
      <3> QED BY <1>1, <2>1, <3>1
              DEF QueueInvariant, ThreadInvariant, WriteQueueTypeOK, Stages
    <2>3. ThreadsAreQueued'
      <3>1. ASSUME NEW u \in Threads
            PROVE  /\ Queued(u)' <=> Queued(u)
                   /\ Queued(u) <=> stage[u] # "idle" /\ answer[u] = "none"
                   /\ answer[u] # "none" => stage[u] \in {"asleep", "signalled"}
                   /\ stage[u] \in Leading => Len(queue) > 0 /\ queue[1].thread = u
                   /\ holder = u <=> stage[u] = "room"
        BY <1>1 DEF Queued, QueueInvariant, ThreadInvariant, ThreadsAreQueued
      <3>2. ASSUME NEW u \in Threads
            PROVE  /\ Queued(u)' <=> stage'[u] # "idle" /\ answer'[u] = "none"
                   /\ answer'[u] # "none" => stage'[u] \in {"asleep", "signalled"}
                   /\ stage'[u] \in Leading => Len(queue) > 0 /\ queue[1].thread = u
                   /\ holder' = u <=> stage'[u] = "room"
        <4>1. CASE u = t
          BY <1>1, <1>2, <1>4, <2>1, <3>1, <4>1 DEF Leading
        <4>2. CASE u # t
          BY <1>2, <2>1, <3>1, <4>2
        <4> QED BY <4>1, <4>2
      <3>3. queue' = queue
        BY <1>1
      <3>4. \A i, j \in 1..Len(queue) : queue[i].thread = queue[j].thread => i = j
        BY DEF QueueInvariant, ThreadInvariant, ThreadsAreQueued
      <3> QED BY <3>2, <3>3, <3>4 DEF ThreadsAreQueued
    <2>4. GroupIsWritten'
      <3>1. \A u \in Threads : /\ stage'[u] = "logging" <=> stage[u] = "logging"
                               /\ stage'[u] = "logged" <=> stage[u] = "logged"
        BY <1>1, <1>2, <2>1
      <3> QED BY <1>1, <3>1 DEF QueueInvariant, ThreadInvariant, GroupIsWritten
    <2>5. LogInvariant'
      <3>1. Left' = Left /\ Reached' = Reached
        BY <1>1 DEF Left, Reached
      <3>2. QueueIsTheRest'
        BY <1>1, <3>1 DEF QueueInvariant, LogInvariant, QueueIsTheRest
      <3>3. LogIsOrdered'
        BY <1>1, <3>1 DEF QueueInvariant, LogInvariant, LogIsOrdered
      <3>4. AnsweredIsWritten'
        BY <1>1 DEF QueueInvariant, LogInvariant, AnsweredIsWritten, InLog
      <3> QED BY <3>2, <3>3, <3>4 DEF LogInvariant
    <2> QED BY <1>3, <2>2, <2>3, <2>4, <2>5 DEF QueueInvariant, ThreadInvariant, RoomKept
  <1>5. CASE answer[t] = "none"
    <2>1. Len(queue) > 0 /\ queue[1] \in Calls /\ Head(queue) = queue[1]
      <3>1. Queued(t)
        BY <1>1, <1>5 DEF QueueInvariant, ThreadInvariant, ThreadsAreQueued
      <3>2. Len(queue) > 0
        BY <1>2, <3>1 DEF Queued
      <3> QED BY <1>2, <3>2
    <2>2. \/ /\ queue[1].thread = t
             /\ holder' = t /\ stage' = [stage EXCEPT ![t] = "room"]
             /\ force' = queue[1].empty /\ allowDelay' = ~queue[1].empty
          \/ /\ stage' = [stage EXCEPT ![t] = "asleep"]
             /\ UNCHANGED <<holder, force, allowDelay>>
      BY <1>5, <2>1 DEF Awake, Lead
    <2>3. answer' = answer
      BY <1>5 DEF Awake
    <2>4. queue[1].empty \in BOOLEAN
      BY <2>1 DEF Calls
    <2>5. stage' \in [Threads -> Stages]
      BY <1>2, <2>2 DEF Stages, Leading
    <2>6. ASSUME NEW u \in Threads
          PROVE  /\ stage'[u] = "idle" <=> stage[u] = "idle"
                 /\ answer[u] # "none" => stage'[u] \in {"asleep", "signalled"}
                 /\ stage'[u] \in Leading => Len(queue) > 0 /\ queue[1].thread = u
                 /\ holder' = u <=> stage'[u] = "room"
                 /\ stage'[u] = "logging" <=> stage[u] = "logging"
                 /\ stage'[u] = "logged" <=> stage[u] = "logged"
      <3>1. /\ answer[u] # "none" => stage[u] \in {"asleep", "signalled"}
            /\ stage[u] \in Leading => Len(queue) > 0 /\ queue[1].thread = u
            /\ holder = u <=> stage[u] = "room"
        BY DEF QueueInvariant, ThreadInvariant, ThreadsAreQueued
      <3>2. stage[u] # "room"
        BY <1>1, <3>1, WriteQueueAssumption DEF WriteQueueAssumption
      <3>3. CASE u = t
        BY <1>1, <1>2, <1>5, <2>1, <2>2, <3>1, <3>3, WriteQueueAssumption
        DEF Leading, WriteQueueAssumption
      <3>4. CASE u # t
        BY <1>1, <1>2, <2>2, <3>1, <3>2, <3>4, WriteQueueAssumption DEF WriteQueueAssumption
      <3> QED BY <3>3, <3>4
    <2>7. holder' \in Threads \union {NoThread} /\ force' \in BOOLEAN /\ allowDelay' \in BOOLEAN
      BY <1>1, <1>2, <2>2, <2>4
    <2>8. Quiet
      BY <1>1, <2>3, <2>5, <2>6, <2>7 DEF Quiet
    <2> QED BY <1>3, <2>8, QuietKeeps
  <1> QED BY <1>4, <1>5

-----------------------------------------------------------------------------
CallsOf(t, calls) == {i \in DOMAIN calls : calls[i].thread = t}

\* One more call of t, and of nobody else.
LEMMA CountingCalls ==
    ASSUME NEW s \in Seq(Calls), NEW c \in Calls, NEW u \in Threads
    PROVE  /\ Cardinality(CallsOf(u, s)) \in Nat
           /\ Cardinality(CallsOf(u, Append(s, c)))
                 = Cardinality(CallsOf(u, s)) + (IF c.thread = u THEN 1 ELSE 0)
  <1>1. Len(s) \in Nat /\ DOMAIN s = 1..Len(s)
    OBVIOUS
  <1>2. IsFiniteSet(CallsOf(u, s))
    <2>1. IsFiniteSet(1..Len(s))
      BY <1>1, FS_Interval
    <2>2. CallsOf(u, s) \subseteq 1..Len(s)
      BY <1>1 DEF CallsOf
    <2> QED BY <2>1, <2>2, FS_Subset
  <1>3. Cardinality(CallsOf(u, s)) \in Nat
    BY <1>2, FS_CardinalityType
  <1>4. PICK s2 : /\ s2 = Append(s, c) /\ DOMAIN s2 = 1..Len(s) + 1
                  /\ \A i \in 1..Len(s) : s2[i] = s[i]
                  /\ s2[Len(s) + 1] = c
    <2>1. /\ Append(s, c) \in Seq(Calls) /\ Len(Append(s, c)) = Len(s) + 1
          /\ \A i \in 1..Len(s) : Append(s, c)[i] = s[i]
          /\ Append(s, c)[Len(s) + 1] = c
      OBVIOUS
    <2>2. DOMAIN Append(s, c) = 1..Len(s) + 1
      BY <2>1
    <2> QED BY <2>1, <2>2
  <1>5. CASE c.thread = u
    <2>1. CallsOf(u, s2) = CallsOf(u, s) \union {Len(s) + 1}
      <3>1. ASSUME NEW i PROVE i \in CallsOf(u, s2) <=> i \in CallsOf(u, s) \/ i = Len(s) + 1
        BY <1>1, <1>4, <1>5 DEF CallsOf
      <3> QED BY <3>1
    <2>2. Len(s) + 1 \notin CallsOf(u, s)
      BY <1>1 DEF CallsOf
    <2>3. Cardinality(CallsOf(u, s) \union {Len(s) + 1}) = Cardinality(CallsOf(u, s)) + 1
      BY <1>2, <2>2, FS_AddElement
    <2> QED BY <1>3, <1>4, <1>5, <2>1, <2>3
  <1>6. CASE c.thread # u
    <2>1. CallsOf(u, s2) = CallsOf(u, s)
      <3>1. ASSUME NEW i PROVE i \in CallsOf(u, s2) <=> i \in CallsOf(u, s)
        BY <1>1, <1>4, <1>6 DEF CallsOf
      <3> QED BY <3>1
    <2> QED BY <1>3, <1>4, <1>6, <2>1
  <1> QED BY <1>3, <1>5, <1>6

\* Write is called: the call is a new one, and goes to the end.
LEMMA JoinKeeps ==
    ASSUME QueueInvariant, NEW t \in Threads, Join(t)
    PROVE  QueueInvariant'
  <1> DEFINE number == Cardinality(CallsOf(t, joined)) + 1
  <1>1. PICK c : /\ c = Call(t, number)
                 /\ queue' = Append(queue, c) /\ joined' = Append(joined, c)
                 /\ IF queue = <<>> THEN Lead(c)
                    ELSE /\ stage' = [stage EXCEPT ![t] = "asleep"]
                         /\ UNCHANGED <<holder, force, allowDelay>>
    BY DEF Join, CallsOf
  <1>2. /\ holder = NoThread /\ stage[t] = "idle" /\ number \in DOMAIN Requests[t]
        /\ UNCHANGED <<answer, group, outcome, log, synced, succeeded>>
        /\ UNCHANGED <<memFull, imm, level0, bg, bgError>>
    BY DEF Join, CallsOf, MutexIsFree, fileVars, roomVars, bgVars
  <1>3. /\ queue \in Seq(Calls) /\ joined \in Seq(Calls) /\ stage \in [Threads -> Stages]
        /\ Len(queue) \in Nat /\ Len(joined) \in Nat /\ force \in BOOLEAN /\ allowDelay \in BOOLEAN
        /\ Len(queue) <= Len(joined) /\ group \in 0..Len(queue) /\ group \in Nat
    BY DEF QueueInvariant, ThreadInvariant, LogInvariant, QueueIsTheRest, WriteQueueTypeOK, Stages
  <1>4. Cardinality(CallsOf(t, joined)) \in Nat
    <2>1. \A s \in Seq(Calls) : Cardinality(CallsOf(t, s)) \in Nat
      <3>1. ASSUME NEW s \in Seq(Calls) PROVE Cardinality(CallsOf(t, s)) \in Nat
        <4>1. Len(s) \in Nat /\ DOMAIN s = 1..Len(s)
          OBVIOUS
        <4>2. IsFiniteSet(1..Len(s))
          BY <4>1, FS_Interval
        <4>3. CallsOf(t, s) \subseteq 1..Len(s)
          BY <4>1 DEF CallsOf
        <4>4. IsFiniteSet(CallsOf(t, s))
          BY <4>2, <4>3, FS_Subset
        <4> QED BY <4>4, FS_CardinalityType
      <3> QED BY <3>1
    <2> QED BY <1>3, <2>1
  <1> HIDE DEF number
  <1>5. c \in Calls /\ c.thread = t /\ c.number = number /\ number \in Nat
    <2>1. number \in Nat
      BY <1>4 DEF number
    <2>2. Requests[t][number] \in [sync : BOOLEAN, empty : BOOLEAN]
      <3>1. Requests[t] \in Seq([sync : BOOLEAN, empty : BOOLEAN])
        BY WriteQueueAssumption DEF WriteQueueAssumption
      <3>2. \A R : \A r \in Seq(R) : \A i \in DOMAIN r : r[i] \in R
        OBVIOUS
      <3> QED BY <1>2, <3>1, <3>2
    <2> QED BY <1>1, <2>1, <2>2 DEF Call, Calls
  <1>6. /\ joined' \in Seq(Calls) /\ Len(joined') = Len(joined) + 1
        /\ \A i \in 1..Len(joined) : joined'[i] = joined[i]
        /\ joined'[Len(joined) + 1] = c
    BY <1>1, <1>3, <1>5
  <1>7. /\ queue' \in Seq(Calls) /\ Len(queue') = Len(queue) + 1
        /\ \A i \in 1..Len(queue) : queue'[i] = queue[i]
        /\ queue'[Len(queue) + 1] = c
    BY <1>1, <1>3, <1>5
  <1>8. \A u \in Threads : Cardinality(CallsOf(u, joined')) =
            Cardinality(CallsOf(u, joined)) + (IF u = t THEN 1 ELSE 0)
    BY <1>1, <1>3, <1>5, CountingCalls
  <1>9. ASSUME NEW u \in Threads PROVE Cardinality(CallsOf(u, joined)) \in Nat
    BY <1>3, <1>5, CountingCalls
  <1>10. /\ Left' = Left /\ Left \in Nat /\ Reached' = Reached
         /\ Left = Len(joined) - Len(queue)
    <2>1. Left = Len(joined) - Len(queue) /\ Left' = Len(joined') - Len(queue')
      BY DEF Left
    <2> HIDE DEF Left
    <2>2. Left' = Left /\ Left \in Nat
      BY <1>3, <1>6, <1>7, <2>1
    <2>3. Reached' = Reached
      BY <1>2, <2>2 DEF Reached
    <2> QED BY <2>1, <2>2, <2>3
  <1>11. \A i \in 1..Len(joined) :
            /\ joined[i] \in Calls /\ joined[i].thread \in Threads /\ joined[i].number \in Nat
            /\ joined[i].number <= Cardinality(CallsOf(joined[i].thread, joined))
    <2>1. \A i \in 1..Len(joined) :
             joined[i].number <= Cardinality(CallsOf(joined[i].thread, joined))
      BY DEF QueueInvariant, LogInvariant, QueueIsTheRest, CallsOf
    <2>2. \A i \in 1..Len(joined) : joined[i] \in Calls
      BY <1>3
    <2>3. \A d \in Calls : d.thread \in Threads /\ d.number \in Nat
      BY DEF Calls
    <2> QED BY <2>1, <2>2, <2>3
  <1>12. \A i \in 1..Len(joined) : joined[i] # c
    <2>1. ASSUME NEW i \in 1..Len(joined), joined[i] = c PROVE FALSE
      <3>1. number <= Cardinality(CallsOf(t, joined))
        BY <1>5, <1>11, <2>1
      <3> QED BY <1>4, <3>1 DEF number
    <2> QED BY <2>1
  <1>13. ASSUME NEW i \in 1..Len(joined')
         PROVE  \/ i \in 1..Len(joined) /\ joined'[i] = joined[i]
                \/ i = Len(joined) + 1 /\ joined'[i] = c
    BY <1>3, <1>6
  <1>14. ASSUME NEW i \in 1..Len(queue')
         PROVE  \/ i \in 1..Len(queue) /\ queue'[i] = queue[i]
                \/ i = Len(queue) + 1 /\ queue'[i] = c
    BY <1>3, <1>7
  <1>15. QueueIsTheRest'
    <2>1. Injective(joined')
      <3>1. ASSUME NEW i \in 1..Len(joined'), NEW j \in 1..Len(joined'), joined'[i] = joined'[j]
            PROVE  i = j
        <4>1. Injective(joined)
          BY DEF QueueInvariant, LogInvariant, QueueIsTheRest
        <4> QED BY <1>12, <1>13, <3>1, <4>1 DEF Injective
      <3> QED BY <3>1 DEF Injective
    <2>2. ASSUME NEW i \in 1..Len(queue') PROVE queue'[i] = joined'[i + Left']
      <3>1. CASE i \in 1..Len(queue) /\ queue'[i] = queue[i]
        <4>1. queue[i] = joined[i + Left]
          BY <3>1 DEF QueueInvariant, LogInvariant, QueueIsTheRest
        <4>2. i + Left \in 1..Len(joined)
          BY <1>3, <1>10, <3>1
        <4> QED BY <1>6, <1>10, <3>1, <4>1, <4>2
      <3>2. CASE i = Len(queue) + 1 /\ queue'[i] = c
        <4>1. i + Left = Len(joined) + 1
          BY <1>3, <1>10, <3>2
        <4> QED BY <1>6, <1>10, <3>2, <4>1
      <3> QED BY <1>14, <3>1, <3>2
    <2>3. ASSUME NEW i \in 1..Len(joined')
          PROVE  joined'[i].number <= Cardinality(CallsOf(joined'[i].thread, joined'))
      <3>1. CASE i \in 1..Len(joined) /\ joined'[i] = joined[i]
        <4> DEFINE u == joined[i].thread
        <4>1. u \in Threads /\ joined[i].number \in Nat
              /\ joined[i].number <= Cardinality(CallsOf(u, joined))
          BY <1>11, <3>1
        <4> HIDE DEF u
        <4>2. Cardinality(CallsOf(u, joined)) <= Cardinality(CallsOf(u, joined'))
          <5>1. CASE u = t
            BY <1>8, <1>9, <4>1, <5>1
          <5>2. CASE u # t
            BY <1>8, <1>9, <4>1, <5>2
          <5> QED BY <5>1, <5>2
        <4>3. Cardinality(CallsOf(u, joined')) \in Nat
          <5>1. CASE u = t
            BY <1>8, <1>9, <4>1, <5>1
          <5>2. CASE u # t
            BY <1>8, <1>9, <4>1, <5>2
          <5> QED BY <5>1, <5>2
        <4>4. joined[i].number <= Cardinality(CallsOf(u, joined'))
          BY <1>9, <4>1, <4>2, <4>3
        <4> QED BY <3>1, <4>4 DEF u
      <3>2. CASE joined'[i] = c
        <4>1. Cardinality(CallsOf(t, joined')) = number
          BY <1>8 DEF number
        <4> QED BY <1>5, <3>2, <4>1
      <3> QED BY <1>13, <3>1, <3>2
    <2>4. Len(queue') <= Len(joined')
      BY <1>3, <1>6, <1>7
    <2>5. \A i \in 1..Len(joined') : joined'[i].number
             <= Cardinality({j \in DOMAIN joined' : joined'[j].thread = joined'[i].thread})
      BY <2>3 DEF CallsOf
    <2> QED BY <2>1, <2>2, <2>4, <2>5 DEF QueueIsTheRest
  <1>16. LogIsOrdered'
    <2>1. PICK calls : calls = joined'
      OBVIOUS
    <2>2. /\ Len(calls) = Len(joined) + 1 /\ calls[Len(joined) + 1] = c
          /\ \A i \in 1..Len(joined) : calls[i] = joined[i] /\ joined[i] # c
      BY <1>6, <1>12, <2>1
    <2>3. LiesWithin(log, joined, Reached) /\ FollowsOrder(log, joined)
      BY DEF QueueInvariant, LogInvariant, LogIsOrdered
    <2>4. LiesWithin(log, calls, Reached) /\ FollowsOrder(log, calls)
      BY <1>3, <2>2, <2>3, CallsAreAdded
    <2> QED BY <1>2, <1>10, <2>1, <2>4 DEF LogIsOrdered
  <1>17. AnsweredIsWritten'
    <2>1. \A i \in 1..group : queue'[i] = queue[i]
      BY <1>3, <1>7
    <2>2. \A d : InLog(d)' <=> InLog(d)
      BY <1>2 DEF InLog
    <2>3. \A d \in succeeded' : ~d.empty => InLog(d)'
      BY <1>2, <2>2 DEF QueueInvariant, LogInvariant, AnsweredIsWritten
    <2>4. outcome' = "ok" => \A i \in 1..group' : InLog(queue[i])
      BY <1>2 DEF QueueInvariant, LogInvariant, AnsweredIsWritten
    <2>5. ASSUME outcome' = "ok", NEW i \in 1..group' PROVE InLog(queue[i])'
      <3>1. queue'[i] = queue[i]
        BY <1>2, <2>1
      <3>2. InLog(queue[i])
        BY <2>4, <2>5
      <3>3. \E k \in 1..Len(log) : InList(queue[i], log[k]) /\ (queue[i].sync => k <= synced)
        BY <3>2 DEF InLog
      <3>4. \E k \in 1..Len(log') : InList(queue'[i], log'[k]) /\ (queue'[i].sync => k <= synced')
        BY <1>2, <3>1, <3>3
      <3> QED BY <3>4 DEF InLog
    <2> QED BY <2>3, <2>5 DEF AnsweredIsWritten
  <1>18. /\ \A u \in Threads : Queued(u)' <=> Queued(u) \/ u = t
         /\ ~Queued(t) /\ answer[t] = "none"
    <2>1. ASSUME NEW u \in Threads PROVE Queued(u)' <=> Queued(u) \/ u = t
      <3>1. \A i \in 1..Len(queue) : i \in 1..Len(queue')
        BY <1>3, <1>7
      <3>2. Len(queue) + 1 \in 1..Len(queue')
        BY <1>3, <1>7
      <3> QED BY <1>5, <1>7, <1>14, <3>1, <3>2 DEF Queued
    <2> QED BY <1>2, <2>1 DEF QueueInvariant, ThreadInvariant, ThreadsAreQueued
  <1>19. /\ \A u \in Threads :
              /\ Queued(u)' <=> stage'[u] # "idle" /\ answer'[u] = "none"
              /\ answer'[u] # "none" => stage'[u] \in {"asleep", "signalled"}
              /\ stage'[u] \in Leading => Len(queue') > 0 /\ queue'[1].thread = u
              /\ holder' = u <=> stage'[u] = "room"
              /\ stage'[u] = "logging" <=> stage[u] = "logging"
              /\ stage'[u] = "logged" <=> stage[u] = "logged"
         /\ stage' \in [Threads -> Stages] /\ holder' \in Threads \union {NoThread}
         /\ force' \in BOOLEAN /\ allowDelay' \in BOOLEAN
    <2>1. CASE queue = <<>>
      <3>1. /\ holder' = t /\ stage' = [stage EXCEPT ![t] = "room"]
            /\ force' = c.empty /\ allowDelay' = ~c.empty
        BY <1>1, <1>5, <2>1 DEF Lead
      <3>2. Len(queue) = 0 /\ Len(queue') = 1 /\ queue'[1].thread = t
        BY <1>3, <1>5, <1>7, <2>1
      <3>3. ASSUME NEW u \in Threads
            PROVE  /\ Queued(u)' <=> stage'[u] # "idle" /\ answer'[u] = "none"
                   /\ answer'[u] # "none" => stage'[u] \in {"asleep", "signalled"}
                   /\ stage'[u] \in Leading => Len(queue') > 0 /\ queue'[1].thread = u
                   /\ holder' = u <=> stage'[u] = "room"
                   /\ stage'[u] = "logging" <=> stage[u] = "logging"
                   /\ stage'[u] = "logged" <=> stage[u] = "logged"
        <4>1. /\ Queued(u) <=> stage[u] # "idle" /\ answer[u] = "none"
              /\ answer[u] # "none" => stage[u] \in {"asleep", "signalled"}
              /\ stage[u] \notin Leading
          BY <3>2 DEF QueueInvariant, ThreadInvariant, ThreadsAreQueued
        <4>2. CASE u = t
          BY <1>2, <1>3, <1>18, <3>1, <3>2, <4>2
        <4>3. CASE u # t
          BY <1>2, <1>3, <1>18, <3>1, <4>1, <4>3 DEF Leading
        <4> QED BY <4>2, <4>3
      <3>4. stage' \in [Threads -> Stages]
        BY <1>3, <3>1 DEF Stages, Leading
      <3>5. c.empty \in BOOLEAN
        BY <1>5 DEF Calls
      <3> QED BY <3>1, <3>3, <3>4, <3>5
    <2>2. CASE queue # <<>>
      <3>1. /\ stage' = [stage EXCEPT ![t] = "asleep"]
            /\ UNCHANGED <<holder, force, allowDelay>>
        BY <1>1, <2>2
      <3>2. Len(queue) > 0 /\ Len(queue') > 0 /\ queue'[1] = queue[1]
        BY <1>3, <1>7, <2>2
      <3>3. ASSUME NEW u \in Threads
            PROVE  /\ Queued(u)' <=> stage'[u] # "idle" /\ answer'[u] = "none"
                   /\ answer'[u] # "none" => stage'[u] \in {"asleep", "signalled"}
                   /\ stage'[u] \in Leading => Len(queue') > 0 /\ queue'[1].thread = u
                   /\ holder' = u <=> stage'[u] = "room"
                   /\ stage'[u] = "logging" <=> stage[u] = "logging"
                   /\ stage'[u] = "logged" <=> stage[u] = "logged"
        <4>1. /\ Queued(u) <=> stage[u] # "idle" /\ answer[u] = "none"
              /\ answer[u] # "none" => stage[u] \in {"asleep", "signalled"}
              /\ stage[u] \in Leading => queue[1].thread = u
              /\ holder = u <=> stage[u] = "room"
          BY DEF QueueInvariant, ThreadInvariant, ThreadsAreQueued
        <4>2. CASE u = t
          <5>1. stage'[u] = "asleep" /\ holder' # u
            BY <1>2, <1>3, <3>1, <4>2, WriteQueueAssumption DEF WriteQueueAssumption
          <5> QED BY <1>2, <1>18, <4>2, <5>1 DEF Leading
        <4>3. CASE u # t
          BY <1>2, <1>3, <1>18, <3>1, <3>2, <4>1, <4>3
        <4> QED BY <4>2, <4>3
      <3>4. stage' \in [Threads -> Stages]
        BY <1>3, <3>1 DEF Stages
      <3> QED BY <1>2, <1>3, <3>1, <3>3, <3>4
    <2> QED BY <2>1, <2>2
  <1>20. ThreadsAreQueued'
    <2>1. ASSUME NEW i \in 1..Len(queue'), NEW j \in 1..Len(queue'),
                 queue'[i].thread = queue'[j].thread
          PROVE  i = j
      <3>1. \A k \in 1..Len(queue) : queue[k].thread # t
        BY <1>18 DEF Queued
      <3>2. \A k, l \in 1..Len(queue) : queue[k].thread = queue[l].thread => k = l
        BY DEF QueueInvariant, ThreadInvariant, ThreadsAreQueued
      <3> QED BY <1>5, <1>14, <2>1, <3>1, <3>2
    <2> QED BY <1>19, <2>1 DEF ThreadsAreQueued
  <1>21. GroupIsWritten'
    <2>1. \A i \in 2..group : queue[i].sync => queue[1].sync
      BY DEF QueueInvariant, ThreadInvariant, GroupIsWritten
    <2>2. ASSUME NEW i \in 2..group PROVE queue'[i] = queue[i] /\ queue'[1] = queue[1]
      BY <1>3, <1>7
    <2>3. \A i \in 2..group' : queue'[i].sync => queue'[1].sync
      BY <1>2, <2>1, <2>2
    <2>4. \A u \in Threads : /\ stage'[u] = "logging" <=> stage[u] = "logging"
                             /\ stage'[u] = "logged" <=> stage[u] = "logged"
      BY <1>19
    <2>5. /\ group > 0 <=> \E u \in Threads : stage[u] \in {"logging", "logged"}
          /\ outcome # "none" <=> \E u \in Threads : stage[u] = "logged"
      BY DEF QueueInvariant, ThreadInvariant, GroupIsWritten
    <2>6. group' = group /\ outcome' = outcome
      BY <1>2
    <2> QED BY <2>3, <2>4, <2>5, <2>6 DEF GroupIsWritten
  <1>22. WriteQueueTypeOK'
    <2>1. succeeded' \subseteq ToSet(joined')
      <3>1. ASSUME NEW d \in ToSet(joined) PROVE d \in ToSet(joined')
        <4>1. PICK i \in 1..Len(joined) : joined[i] = d
          BY <1>3 DEF ToSet
        <4>2. i \in DOMAIN joined' /\ joined'[i] = d
          BY <1>3, <1>6, <4>1
        <4> QED BY <4>2 DEF ToSet
      <3>2. succeeded \subseteq ToSet(joined) /\ succeeded' = succeeded
        BY <1>2 DEF QueueInvariant, ThreadInvariant, WriteQueueTypeOK
      <3> QED BY <3>1, <3>2
    <2>2. group' \in 0..Len(queue')
      BY <1>2, <1>3, <1>7
    <2> QED BY <1>2, <1>6, <1>7, <1>19, <2>1, <2>2
            DEF QueueInvariant, ThreadInvariant, WriteQueueTypeOK, Stages
  <1>23. RoomAtLevel0'
    BY <1>2 DEF QueueInvariant, ThreadInvariant, RoomAtLevel0
  <1> QED BY <1>15, <1>16, <1>17, <1>20, <1>21, <1>22, <1>23
          DEF QueueInvariant, ThreadInvariant, LogInvariant

-----------------------------------------------------------------------------
LEMMA QueueInvariantHolds == WriteQueueSpec => []QueueInvariant
  <1>1. WriteQueueInit => QueueInvariant
    <2> SUFFICES ASSUME WriteQueueInit PROVE QueueInvariant
      OBVIOUS
    <2>1. /\ holder = NoThread /\ stage = [t \in Threads |-> "idle"]
          /\ answer = [t \in Threads |-> "none"]
          /\ queue = <<>> /\ joined = <<>> /\ log = <<>> /\ Len(queue) = 0 /\ Len(joined) = 0
          /\ Len(log) = 0 /\ group = 0 /\ outcome = "none" /\ synced = 0 /\ succeeded = {}
      BY DEF WriteQueueInit
    <2>2. ThreadsAreQueued
      BY <2>1, WriteQueueAssumption DEF ThreadsAreQueued, Queued, Leading, WriteQueueAssumption
    <2>3. GroupIsWritten
      BY <2>1 DEF GroupIsWritten
    <2>4. RoomAtLevel0
      BY DEF WriteQueueInit, RoomAtLevel0, Scheduled
    <2>5. WriteQueueTypeOK
      <3>1. /\ force \in BOOLEAN /\ allowDelay \in BOOLEAN /\ memFull \in BOOLEAN
            /\ imm \in BOOLEAN /\ level0 \in 0..Stop /\ bgError \in BOOLEAN
            /\ bg \in {"none", "queued", "flushing", "compacting", "nested"}
        BY DEF WriteQueueInit, Scheduled
      <3>2. group \in 0..Len(queue) /\ synced \in 0..Len(log)
        BY <2>1
      <3>3. queue \in Seq(Calls) /\ joined \in Seq(Calls) /\ log \in Seq(Seq(Calls))
        BY <2>1
      <3>4. /\ stage \in [Threads -> Stages] /\ answer \in [Threads -> {"none", "ok", "failed"}]
            /\ holder \in Threads \union {NoThread}
        BY <2>1 DEF Stages
      <3> QED BY <2>1, <3>1, <3>2, <3>3, <3>4 DEF WriteQueueTypeOK, Stages
    <2>6. QueueIsTheRest /\ LogIsOrdered /\ AnsweredIsWritten
      BY <2>1 DEF QueueIsTheRest, Injective, LogIsOrdered, LiesWithin, FollowsOrder,
                  AnsweredIsWritten
    <2> QED BY <2>2, <2>3, <2>4, <2>5, <2>6 DEF QueueInvariant, ThreadInvariant, LogInvariant
  <1>2. QueueInvariant /\ [WriteQueueNext]_writeQueueVars => QueueInvariant'
    <2> SUFFICES ASSUME QueueInvariant, [WriteQueueNext]_writeQueueVars PROVE QueueInvariant'
      OBVIOUS
    <2>1. ASSUME NEW t \in Threads, Join(t) PROVE QueueInvariant'
      BY <2>1, JoinKeeps
    <2>2. ASSUME NEW t \in Threads, Goes(t) PROVE QueueInvariant'
      <3>1. CASE Awake(t)
        BY <3>1, AwakeKeeps
      <3>2. CASE Resume(t)
        BY <3>2, ResumeKeeps
      <3>3. CASE Refused(t) \/ SwitchFails(t)
        BY <3>3, RefusedKeeps
      <3>4. CASE Delay(t) \/ Stall(t)
        BY <3>4, PauseKeeps
      <3>5. CASE Switch(t)
        BY <3>5, SwitchKeeps
      <3>6. CASE FindRoom(t)
        <4>1. CASE queue[1].empty
          BY <3>6, <4>1, EmptyBatchKeeps
        <4>2. CASE ~queue[1].empty
          BY <3>6, <4>2, GroupKeeps
        <4> QED BY <4>1, <4>2
      <3>7. CASE AddToLog(t) \/ AddFails(t) \/ SyncFails(t)
        BY <3>7, LoggingKeeps
      <3>8. CASE Finish(t)
        BY <3>8, FinishKeeps
      <3> QED BY <2>2, <3>1, <3>2, <3>3, <3>4, <3>5, <3>6, <3>7, <3>8
              DEF Goes, MakeRoom, WriteGroup
    <2>3. ASSUME NEW t \in Threads, Spurious(t) PROVE QueueInvariant'
      BY <2>3, SpuriousKeeps
    <2>4. CASE Background
      BY <2>4, BackgroundKeeps
    <2>5. CASE UNCHANGED writeQueueVars
      <3>1. Quiet /\ RoomKept
        BY <2>5 DEF writeQueueVars, queueVars, fileVars, roomVars, bgVars, boundVars, Quiet,
                    RoomKept, QueueInvariant, ThreadInvariant, WriteQueueTypeOK, RoomAtLevel0,
                    ThreadsAreQueued, Stages
      <3> QED BY <3>1, QuietKeeps
    <2> QED BY <2>1, <2>2, <2>3, <2>4, <2>5 DEF WriteQueueNext
  <1> QED BY <1>1, <1>2, PTL DEF WriteQueueSpec

\* For any threads and writes: the type invariant, with level 0 never above the
\* number of tables at which MakeRoomForWrite waits for a compaction.
THEOREM WriteQueueTypeCorrect == WriteQueueSpec => []WriteQueueTypeOK
  <1>1. QueueInvariant => WriteQueueTypeOK
    BY DEF QueueInvariant, ThreadInvariant
  <1> QED BY <1>1, QueueInvariantHolds, PTL

\* For any threads and writes: only the head of the queue leads, the log has each
\* batch once and in the order of the calls, and a call that was answered with ok
\* is in it, under a sync that succeeded if it asked for one (Write,
\* BuildBatchGroup, MakeRoomForWrite).
THEOREM TheLogIsTheQueue == WriteQueueSpec => []LogIsTheQueue
  <1>1. ASSUME QueueInvariant PROVE LogIsTheQueue
    <2>1. /\ queue \in Seq(Calls) /\ joined \in Seq(Calls) /\ log \in Seq(Seq(Calls))
          /\ DOMAIN joined = 1..Len(joined) /\ DOMAIN log = 1..Len(log) /\ Len(queue) \in Nat
      BY <1>1 DEF QueueInvariant, ThreadInvariant, WriteQueueTypeOK
    <2>2. \A i \in DOMAIN log : DOMAIN log[i] = 1..Len(log[i])
      <3>1. ASSUME NEW i \in DOMAIN log PROVE DOMAIN log[i] = 1..Len(log[i])
        <4>1. log[i] \in Seq(Calls)
          BY <2>1
        <4> QED BY <4>1
      <3> QED BY <3>1
    <2>3. ASSUME NEW t \in Threads, stage[t] \in Leading
          PROVE  queue # <<>> /\ Head(queue).thread = t
      <3>1. Len(queue) > 0 /\ queue[1].thread = t
        BY <1>1, <2>3 DEF QueueInvariant, ThreadInvariant, ThreadsAreQueued
      <3> QED BY <2>1, <3>1
    <2>4. ASSUME NEW p \in 1..Len(joined) PROVE Place(joined[p]) = p
      <3>1. \A q \in DOMAIN joined : joined[q] = joined[p] => q = p
        BY <1>1, <2>1 DEF QueueInvariant, LogInvariant, QueueIsTheRest, Injective
      <3>2. p \in DOMAIN joined /\ joined[p] = joined[p]
        BY <2>1
      <3> QED BY <3>1, <3>2 DEF Place
    <2>5. ASSUME NEW i \in DOMAIN log, NEW j \in DOMAIN log,
                 NEW a \in DOMAIN log[i], NEW b \in DOMAIN log[j],
                 i < j \/ (i = j /\ a < b)
          PROVE  Place(log[i][a]) < Place(log[j][b])
      <3>0. /\ i \in 1..Len(log) /\ j \in 1..Len(log)
            /\ a \in 1..Len(log[i]) /\ b \in 1..Len(log[j])
        BY <2>1, <2>2
      <3>1. PICK p \in 1..Len(joined) : joined[p] = log[i][a]
        BY <1>1, <3>0 DEF QueueInvariant, LogInvariant, LogIsOrdered, LiesWithin
      <3>2. PICK q \in 1..Len(joined) : joined[q] = log[j][b]
        BY <1>1, <3>0 DEF QueueInvariant, LogInvariant, LogIsOrdered, LiesWithin
      <3>3. p < q
        BY <1>1, <2>5, <3>0, <3>1, <3>2 DEF QueueInvariant, LogInvariant, LogIsOrdered, FollowsOrder,
             Earlier
      <3>4. Place(log[i][a]) = p /\ Place(log[j][b]) = q
        BY <2>4, <3>1, <3>2
      <3> QED BY <3>3, <3>4
    <2>6. ASSUME NEW c \in succeeded, ~c.empty
          PROVE  \E i \in DOMAIN log : c \in ToSet(log[i]) /\ (c.sync => i <= synced)
      <3>1. InLog(c)
        BY <1>1, <2>6 DEF QueueInvariant, LogInvariant, AnsweredIsWritten
      <3>2. PICK i \in 1..Len(log) : InList(c, log[i]) /\ (c.sync => i <= synced)
        BY <3>1 DEF InLog
      <3>3. c \in ToSet(log[i])
        BY <2>1, <2>2, <3>2 DEF InList, ToSet
      <3> QED BY <2>1, <3>2, <3>3
    <2> QED BY <2>3, <2>5, <2>6 DEF LogIsTheQueue
  <1> QED BY <1>1, QueueInvariantHolds, PTL

-----------------------------------------------------------------------------
(* The skip list *)

InLevel(n, l) == \E m \in Nodes : links[m][l] = n
Stands(n, l) == n = HeadNode \/ (n \in SkipKeys /\ InLevel(n, l))

ListShape ==
    /\ links \in [Nodes -> [Heights -> SkipKeys \union {NullNode, Unset}]]
    /\ maxHeight \in 1..MaxHeight
LinksAscend ==
    \A m \in Nodes, l \in Heights : links[m][l] \in SkipKeys => m < links[m][l]
LevelsNest ==
    /\ \A l \in Heights : links[HeadNode][l] # Unset
    /\ \A k \in SkipKeys, l \in Heights : InLevel(k, l) =>
           \A j \in 0..l : links[k][j] # Unset /\ InLevel(k, j)
    /\ \A k \in SkipKeys, l \in Heights : l >= maxHeight => ~InLevel(k, l)
Neighbours ==
    \A n \in Nodes, k \in SkipKeys :
        Stands(n, 0) /\ InLevel(k, 0) => ~(n < k /\ k < links[n][0])
NotInserted ==
    \A k \in SkipKeys : k # inserting /\ ~InLevel(k, 0) =>
        \A l \in Heights : links[k][l] = Unset

\* The writer: the levels below are done, and on the others prev is right.
Inserting ==
    /\ inserting \in SkipKeys \union {NullNode}
    /\ prev \in [Heights -> Nodes]
    /\ inserting # NullNode =>
        /\ height \in 1..maxHeight /\ level \in 0..height - 1
        /\ \A l \in 0..level - 1 : links[inserting][l] # Unset /\ InLevel(inserting, l)
        /\ \A l \in level..MaxHeight - 1 : ~InLevel(inserting, l)
        /\ \A l \in level + 1..MaxHeight - 1 : links[inserting][l] = Unset
        /\ links[inserting][level] \in {Unset, links[prev[level]][level]}
        /\ \A l \in level..height - 1 :
               /\ Stands(prev[l], l) /\ prev[l] < inserting
               /\ links[prev[l]][l] > inserting

\* The reader: a search stands before its target, on its level.
Searching ==
    /\ node = NullNode \/ node \in Linked
    /\ at \in Nodes /\ atLevel \in Heights
    /\ present \subseteq Linked
    /\ reading \in {"none", "seek", "before"}
    /\ reading # "none" =>
        /\ target \in SkipKeys \union {NullNode}
        /\ Stands(at, atLevel) /\ at < target
        /\ call = [up |-> reading = "seek", bound |-> target]

ListInvariant ==
    ListShape /\ LinksAscend /\ LevelsNest /\ Neighbours /\ NotInserted /\ Inserting
SkipListInvariant == ListInvariant /\ Searching /\ NoKeyIsPassedOver

USE SkipListAssumption DEF HeadNode

-----------------------------------------------------------------------------
\* The nodes are the numbers up to NumKeys; NULL comes after them, an unset
\* link before.
LEMMA Numbers ==
    /\ Nodes = 0..NumKeys /\ SkipKeys \subseteq Nodes /\ 0 \in Nodes /\ 0 \notin SkipKeys
    /\ NullNode \notin Nodes /\ Unset \notin Nodes /\ NullNode # Unset
    /\ 0 \in Heights /\ Heights \subseteq Nat
    /\ \A n \in Nodes : n # 0 => n \in SkipKeys
BY DEF Nodes, SkipKeys, NullNode, Unset, Heights

\* A non-empty set of nodes has a greatest one.
LEMMA GreatestNode ==
    ASSUME NEW S, S \subseteq Nodes, S # {}
    PROVE  Max(S) \in S /\ \A j \in S : j <= Max(S)
<1> DEFINE Less == {ss \in Nat \X Nat : ss[1] < ss[2]}
           T == {NumKeys - i : i \in S}
<1>1. IsWellFoundedOn(Less, Nat)
  BY NatLessThanWellFounded DEF OpToRel
<1>2. T \subseteq Nat /\ T # {}
  <2>1. \A i \in S : NumKeys - i \in Nat
    BY Numbers
  <2> QED BY <2>1
<1>3. PICK x \in T : \A y \in T : ~(<<y, x>> \in Less)
  BY <1>1, <1>2, WFMin
<1>4. \A y \in T : ~(y < x)
  BY <1>2, <1>3
<1>5. PICK i \in S : x = NumKeys - i
  OBVIOUS
<1>6. \A j \in S : i >= j
  <2> SUFFICES ASSUME NEW j \in S PROVE i >= j
    OBVIOUS
  <2>1. ~(NumKeys - j < NumKeys - i)
    BY <1>4, <1>5
  <2> QED BY <2>1, Numbers
<1>7. Max(S) \in S /\ \A j \in S : Max(S) >= j
  BY <1>6 DEF Max
<1> QED BY <1>7, Numbers

\* The links of a node that stands in a level are set, there and below, and
\* lead to NULL or on to a greater node of that level.
LEMMA LinkIsSet ==
    ASSUME ListInvariant, NEW l \in Heights, NEW n \in Nodes, Stands(n, l)
    PROVE  /\ links[n][l] \in SkipKeys \union {NullNode}
           /\ links[n][l] \in SkipKeys => n < links[n][l] /\ InLevel(links[n][l], l)
           /\ \A j \in 0..l : Stands(n, j)
<1>1. links[n][l] # Unset /\ \A j \in 0..l : Stands(n, j)
  BY Numbers DEF ListInvariant, LevelsNest, Stands, Heights
<1>2. links[n][l] \in SkipKeys \union {NullNode}
  BY <1>1 DEF ListInvariant, ListShape
<1> QED
  BY <1>1, <1>2 DEF ListInvariant, LinksAscend, InLevel

-----------------------------------------------------------------------------
(* The writer *)

\* Where Previous finds the place of a key.
LEMMA PreviousIsRight ==
    ASSUME ListInvariant, NEW key \in SkipKeys, key \notin Linked, NEW l \in Heights
    PROVE  LET p == Previous(l, key)
           IN  /\ p \in Nodes /\ Stands(p, l) /\ p < key
               /\ links[p][l] > key
<1> DEFINE S == {n \in Nodes : n < key /\ (n = HeadNode \/ \E m \in Nodes : links[m][l] = n)}
           p == Max(S)
<1>1. S \subseteq Nodes /\ 0 \in S
  BY Numbers DEF SkipKeys
<1>2. p \in S /\ \A j \in S : j <= p
  BY <1>1, GreatestNode
<1>3. p \in Nodes /\ Stands(p, l) /\ p < key
  BY <1>2, Numbers DEF Stands, InLevel
<1>4. links[p][l] \in SkipKeys \union {NullNode}
      /\ (links[p][l] \in SkipKeys => p < links[p][l] /\ InLevel(links[p][l], l))
  BY <1>3, LinkIsSet
<1>5. links[p][l] # key
  <2> SUFFICES ASSUME links[p][l] = key PROVE FALSE
    OBVIOUS
  <2>1. InLevel(key, l)
    BY <1>4
  <2>2. InLevel(key, 0)
    BY <2>1 DEF ListInvariant, LevelsNest, Heights
  <2> QED BY <2>2 DEF Linked, InLevel
<1>6. ~(links[p][l] \in SkipKeys /\ links[p][l] < key)
  <2> SUFFICES ASSUME links[p][l] \in SkipKeys, links[p][l] < key PROVE FALSE
    OBVIOUS
  <2>1. links[p][l] \in S
    BY <1>3, Numbers
  <2>2. links[p][l] <= p
    BY <1>2, <2>1
  <2> QED BY <1>4, <2>2, <1>3 DEF SkipKeys, Nodes
<1>7. links[p][l] > key
  BY <1>4, <1>5, <1>6 DEF SkipKeys, NullNode
<1> QED BY <1>3, <1>7 DEF Previous

\* Linked says the same as InLevel on level 0.
LEMMA LinkedIsInLevel == \A k : k \in Linked <=> k \in SkipKeys /\ InLevel(k, 0)
BY DEF Linked, InLevel

\* Insert up to its loop: the new node is in no level, and prev is its place
\* in each.
LEMMA InsertKeyKeeps ==
    ASSUME ListInvariant, NEW key \in SkipKeys, NEW h \in 1..MaxHeight, InsertKey(key, h)
    PROVE  ListInvariant'
<1> USE DEF InsertKey
<1>1. links' = links /\ inserting' = key /\ height' = h /\ level' = 0 /\ inserting = NullNode
  OBVIOUS
<1>2. maxHeight' \in 1..MaxHeight /\ maxHeight' >= maxHeight /\ h <= maxHeight'
  BY DEF ListInvariant, ListShape
<1>3. ListShape' /\ LinksAscend' /\ Neighbours'
  BY <1>1, <1>2 DEF ListInvariant, ListShape, LinksAscend, Neighbours, Stands, InLevel
<1>4. LevelsNest'
  BY <1>1, <1>2 DEF ListInvariant, LevelsNest, InLevel, ListShape, Heights
<1>5. ~InLevel(key, 0) /\ key # inserting
  BY <1>1, LinkedIsInLevel DEF SkipKeys, NullNode
<1>6. \A l \in Heights : links[key][l] = Unset /\ ~InLevel(key, l)
  BY <1>5 DEF ListInvariant, NotInserted, LevelsNest, Heights
<1>7. NotInserted'
  BY <1>1 DEF ListInvariant, NotInserted, InLevel, SkipKeys, NullNode
<1>8. \A l \in Heights : /\ prev'[l] \in Nodes /\ Stands(prev'[l], l) /\ prev'[l] < key
                         /\ links[prev'[l]][l] > key
  <2> SUFFICES ASSUME NEW l \in Heights
               PROVE  /\ prev'[l] \in Nodes /\ Stands(prev'[l], l) /\ prev'[l] < key
                      /\ links[prev'[l]][l] > key
    OBVIOUS
  <2>1. CASE l < maxHeight
    <3>1. prev'[l] = Previous(l, key)
      BY <2>1
    <3> QED BY <3>1, PreviousIsRight
  <2>2. CASE ~(l < maxHeight)
    <3>1. prev'[l] = 0
      BY <2>2
    <3>2. Stands(0, l)
      BY DEF Stands
    <3>3. links[0][l] \in SkipKeys \union {NullNode}
          /\ (links[0][l] \in SkipKeys => InLevel(links[0][l], l))
      BY <3>2, LinkIsSet, Numbers
    <3>4. l >= maxHeight
      BY <2>2 DEF ListInvariant, ListShape, Heights
    <3>5. links[0][l] = NullNode
      BY <3>3, <3>4 DEF ListInvariant, LevelsNest
    <3> QED BY <3>1, <3>2, <3>5, Numbers DEF SkipKeys, NullNode
  <2> QED BY <2>1, <2>2
<1>9. prev' \in [Heights -> Nodes]
  BY <1>8
<1>10. Inserting'
  <2>1. \A l \in 0..MaxHeight - 1 : ~InLevel(key, l)' /\ links'[key][l] = Unset
    BY <1>1, <1>6 DEF InLevel, Heights
  <2>2. \A l \in 0..h - 1 :
           /\ Stands(prev[l], l)' /\ prev'[l] < key
           /\ links'[prev'[l]][l] > key
    BY <1>1, <1>8 DEF Stands, InLevel, Heights
  <2>3. h \in 1..maxHeight' /\ 0 \in 0..h - 1 /\ 0..0 - 1 = {}
    BY <1>2
  <2> HIDE DEF InsertKey
  <2> QED
    BY <1>1, <1>9, <2>1, <2>2, <2>3 DEF Inserting
<1> QED BY <1>3, <1>4, <1>7, <1>10 DEF ListInvariant

\* What is known while Insert is at work, with the place of the new node.
LEMMA PlaceOfKey ==
    ASSUME ListInvariant, inserting # NullNode
    PROVE  LET p == prev[level]
               v == links[p][level]
           IN  /\ inserting \in SkipKeys /\ level \in Heights /\ level < height
               /\ height \in 1..MaxHeight /\ height <= maxHeight
               /\ p \in Nodes /\ p < inserting /\ Stands(p, level)
               /\ v \in SkipKeys \union {NullNode} /\ inserting < v
               /\ v \in SkipKeys => InLevel(v, level)
               /\ ~InLevel(inserting, level)
<1>1. /\ inserting \in SkipKeys /\ height \in 1..maxHeight /\ level \in 0..height - 1
      /\ maxHeight \in 1..MaxHeight /\ prev \in [Heights -> Nodes]
  BY DEF ListInvariant, Inserting, ListShape
<1>2. level \in Heights /\ level \in level..height - 1 /\ level \in level..MaxHeight - 1
      /\ height \in 1..MaxHeight /\ height <= maxHeight /\ level < height
  BY <1>1 DEF Heights
<1>3. /\ Stands(prev[level], level) /\ prev[level] < inserting
      /\ links[prev[level]][level] > inserting /\ ~InLevel(inserting, level)
  BY <1>1, <1>2 DEF ListInvariant, Inserting
<1>4. prev[level] \in Nodes
  BY <1>1, <1>2
<1>5. /\ links[prev[level]][level] \in SkipKeys \union {NullNode}
      /\ links[prev[level]][level] \in SkipKeys => InLevel(links[prev[level]][level], level)
  BY <1>2, <1>3, <1>4, LinkIsSet
<1>6. inserting < links[prev[level]][level]
  BY <1>1, <1>3, <1>5 DEF SkipKeys, NullNode
<1> QED BY <1>1, <1>2, <1>3, <1>4, <1>5, <1>6

\* The new node's own link is set; nobody can reach it by that.
LEMMA SetOwnLinkKeeps ==
    ASSUME ListInvariant, SetOwnLink
    PROVE  ListInvariant' /\ \A n \in SkipKeys, l \in Heights : InLevel(n, l)' <=> InLevel(n, l)
<1> DEFINE i == inserting
           p == prev[level]
           v == links[p][level]
<1>1. /\ i \in SkipKeys /\ level \in Heights /\ p \in Nodes /\ p < i
      /\ v \in SkipKeys \union {NullNode} /\ i < v /\ (v \in SkipKeys => InLevel(v, level))
      /\ ~InLevel(i, level)
  BY PlaceOfKey DEF SetOwnLink
<1>2. i \in Nodes /\ i # p /\ i # 0 /\ v # Unset /\ links[i][level] = Unset
  BY <1>1, Numbers DEF SetOwnLink, SkipKeys, Nodes
<1>3. links \in [Nodes -> [Heights -> SkipKeys \union {NullNode, Unset}]]
  BY DEF ListInvariant, ListShape
<1>4. /\ links' \in [Nodes -> [Heights -> SkipKeys \union {NullNode, Unset}]]
      /\ links'[i][level] = v
      /\ \A m \in Nodes, l \in Heights : m # i \/ l # level => links'[m][l] = links[m][l]
  BY <1>1, <1>2, <1>3 DEF SetOwnLink
<1>5. \A n \in SkipKeys, l \in Heights : InLevel(n, l)' <=> InLevel(n, l)
  <2> SUFFICES ASSUME NEW n \in SkipKeys, NEW l \in Heights
               PROVE  InLevel(n, l)' <=> InLevel(n, l)
    OBVIOUS
  <2>1. ASSUME InLevel(n, l) PROVE InLevel(n, l)'
    <3>1. PICK m \in Nodes : links[m][l] = n
      BY <2>1 DEF InLevel
    <3>2. m # i \/ l # level
      BY <3>1, <1>2, Numbers
    <3> QED BY <3>1, <3>2, <1>4 DEF InLevel
  <2>2. ASSUME InLevel(n, l)' PROVE InLevel(n, l)
    <3>1. PICK m \in Nodes : links'[m][l] = n
      BY <2>2 DEF InLevel
    <3>2. CASE m = i /\ l = level
      BY <3>1, <3>2, <1>1, <1>4
    <3>3. CASE m # i \/ l # level
      BY <3>1, <3>3, <1>4 DEF InLevel
    <3> QED BY <3>2, <3>3
  <2> QED BY <2>1, <2>2
<1>6. UNCHANGED <<maxHeight, inserting, height, prev, level>>
  BY DEF SetOwnLink
<1>7. ListShape'
  BY <1>4, <1>6 DEF ListInvariant, ListShape
<1>8. LinksAscend'
  BY <1>1, <1>4 DEF ListInvariant, LinksAscend
<1>9. LevelsNest'
  <2>1. \A l \in Heights : links'[0][l] # Unset
    BY <1>2, <1>4, Numbers DEF ListInvariant, LevelsNest
  <2>2. \A k \in Nodes, j \in Heights : links[k][j] # Unset => links'[k][j] # Unset
    BY <1>2, <1>4
  <2>3. \A l \in Heights : \A j \in 0..l : j \in Heights
    BY DEF Heights
  <2> QED BY <1>5, <1>6, <2>1, <2>2, <2>3, Numbers DEF ListInvariant, LevelsNest
<1>10. Neighbours'
  <2> SUFFICES ASSUME NEW n \in Nodes, NEW k \in SkipKeys, Stands(n, 0)', InLevel(k, 0)',
                      n < k, k < links'[n][0]
               PROVE  FALSE
    BY DEF Neighbours
  <2>1. Stands(n, 0) /\ InLevel(k, 0)
    BY <1>5, Numbers DEF Stands
  <2>2. n # i \/ 0 # level
    BY <1>1, <1>2, <2>1 DEF Stands
  <2>3. links'[n][0] = links[n][0]
    BY <1>4, <2>2, Numbers
  <2> QED BY <2>1, <2>3 DEF ListInvariant, Neighbours
<1>11. NotInserted'
  <2> SUFFICES ASSUME NEW k \in SkipKeys, k # i, ~InLevel(k, 0)', NEW l \in Heights
               PROVE  links'[k][l] = Unset
    BY <1>6 DEF NotInserted
  <2>1. ~InLevel(k, 0)
    BY <1>5, Numbers
  <2>2. links[k][l] = Unset
    BY <2>1 DEF ListInvariant, NotInserted
  <2> QED BY <1>4, <2>2, Numbers
<1>12. Inserting'
  <2>1. /\ i \in SkipKeys \union {NullNode} /\ prev \in [Heights -> Nodes]
        /\ height \in 1..maxHeight /\ level \in 0..height - 1 /\ maxHeight \in 1..MaxHeight
        /\ \A l \in 0..level - 1 : links[i][l] # Unset /\ InLevel(i, l)
        /\ \A l \in level..MaxHeight - 1 : ~InLevel(i, l)
        /\ \A l \in level + 1..MaxHeight - 1 : links[i][l] = Unset
        /\ \A l \in level..height - 1 :
               Stands(prev[l], l) /\ prev[l] < i /\ links[prev[l]][l] > i
    BY <1>1, Numbers DEF ListInvariant, Inserting, ListShape
  <2>2. \A l \in 0..MaxHeight - 1 : l \in Heights
    BY DEF Heights
  <2>3. \A l \in 0..level - 1 : links'[i][l] # Unset /\ InLevel(i, l)'
    <3> SUFFICES ASSUME NEW l \in 0..level - 1 PROVE links'[i][l] # Unset /\ InLevel(i, l)'
      OBVIOUS
    <3>1. l \in Heights /\ l # level
      BY <1>1 DEF Heights
    <3>2. InLevel(i, l)' <=> InLevel(i, l)
      BY <1>1, <1>5, <1>6, <3>1 DEF InLevel
    <3> QED BY <1>1, <1>2, <1>4, <2>1, <3>1, <3>2
  <2>4. \A l \in level..MaxHeight - 1 : ~InLevel(i, l)'
    <3> SUFFICES ASSUME NEW l \in level..MaxHeight - 1 PROVE ~InLevel(i, l)'
      OBVIOUS
    <3>1. l \in Heights
      BY <1>1 DEF Heights
    <3>2. InLevel(i, l)' <=> InLevel(i, l)
      BY <1>1, <1>5, <1>6, <3>1 DEF InLevel
    <3> QED BY <2>1, <3>2
  <2>5. \A l \in level + 1..MaxHeight - 1 : links'[i][l] = Unset
    <3> SUFFICES ASSUME NEW l \in level + 1..MaxHeight - 1 PROVE links'[i][l] = Unset
      OBVIOUS
    <3>1. l \in Heights /\ l # level
      BY <1>1 DEF Heights
    <3> QED BY <1>2, <1>4, <2>1, <3>1
  <2>6. links'[i][level] = links'[p][level]
    BY <1>1, <1>2, <1>4
  <2>7. \A l \in level..height - 1 :
           Stands(prev[l], l)' /\ prev[l] < i /\ links'[prev[l]][l] > i
    <3> SUFFICES ASSUME NEW l \in level..height - 1
                 PROVE  Stands(prev[l], l)' /\ prev[l] < i /\ links'[prev[l]][l] > i
      OBVIOUS
    <3>1. l \in Heights
      BY <1>1, <2>1 DEF Heights
    <3>2. prev[l] \in Nodes /\ prev[l] < i /\ Stands(prev[l], l) /\ links[prev[l]][l] > i
      BY <2>1, <3>1
    <3>3. prev[l] # i
      BY <1>1, <3>2 DEF SkipKeys, Nodes
    <3>4. Stands(prev[l], l)'
      BY <1>5, <1>6, <3>1, <3>2 DEF Stands, InLevel
    <3> QED BY <1>4, <1>6, <3>1, <3>2, <3>3, <3>4
  <2> QED BY <1>6, <2>1, <2>3, <2>4, <2>5, <2>6, <2>7 DEF Inserting
<1> QED BY <1>5, <1>7, <1>8, <1>9, <1>10, <1>11, <1>12 DEF ListInvariant

\* The link of the node before leads to the new node, the link of which
\* leads on.
LEMMA PublishKeeps ==
    ASSUME ListInvariant, Publish
    PROVE  ListInvariant' /\ \A n \in SkipKeys, l \in Heights : InLevel(n, l) => InLevel(n, l)'
<1> DEFINE i == inserting
           p == prev[level]
           v == links[p][level]
<1>1. /\ i \in SkipKeys /\ level \in Heights /\ level < height /\ height \in 1..MaxHeight
      /\ height <= maxHeight /\ p \in Nodes /\ p < i /\ Stands(p, level)
      /\ v \in SkipKeys \union {NullNode} /\ i < v /\ (v \in SkipKeys => InLevel(v, level))
      /\ ~InLevel(i, level)
  BY PlaceOfKey DEF Publish
<1>2. /\ prev \in [Heights -> Nodes] /\ level \in 0..height - 1 /\ maxHeight \in 1..MaxHeight
      /\ \A l \in 0..level - 1 : links[i][l] # Unset /\ InLevel(i, l)
      /\ \A l \in level..MaxHeight - 1 : ~InLevel(i, l)
      /\ \A l \in level + 1..MaxHeight - 1 : links[i][l] = Unset
      /\ links[i][level] = v
      /\ \A l \in level..height - 1 :
             Stands(prev[l], l) /\ prev[l] < i /\ links[prev[l]][l] > i
  BY <1>1 DEF ListInvariant, Inserting, ListShape, Publish
<1>3. i \in Nodes /\ i # p /\ i # 0 /\ i # Unset
  BY <1>1, Numbers DEF SkipKeys, Nodes, Unset
<1>4. links \in [Nodes -> [Heights -> SkipKeys \union {NullNode, Unset}]]
  BY DEF ListInvariant, ListShape
<1>5. /\ links' \in [Nodes -> [Heights -> SkipKeys \union {NullNode, Unset}]]
      /\ links'[p][level] = i
      /\ \A m \in Nodes, l \in Heights : m # p \/ l # level => links'[m][l] = links[m][l]
  BY <1>1, <1>3, <1>4 DEF Publish
<1>6. links'[i][level] = v
  BY <1>1, <1>2, <1>3, <1>5
<1>7. \A n \in SkipKeys, l \in Heights :
          InLevel(n, l)' <=> InLevel(n, l) \/ (n = i /\ l = level)
  <2> SUFFICES ASSUME NEW n \in SkipKeys, NEW l \in Heights
               PROVE  InLevel(n, l)' <=> InLevel(n, l) \/ (n = i /\ l = level)
    OBVIOUS
  <2>1. ASSUME InLevel(n, l) PROVE InLevel(n, l)'
    <3>1. PICK m \in Nodes : links[m][l] = n
      BY <2>1 DEF InLevel
    <3>2. CASE m = p /\ l = level
      BY <3>1, <3>2, <1>3, <1>6 DEF InLevel
    <3>3. CASE m # p \/ l # level
      BY <3>1, <3>3, <1>5 DEF InLevel
    <3> QED BY <3>2, <3>3
  <2>2. ASSUME InLevel(n, l)' PROVE InLevel(n, l) \/ (n = i /\ l = level)
    <3>1. PICK m \in Nodes : links'[m][l] = n
      BY <2>2 DEF InLevel
    <3>2. CASE m = p /\ l = level
      BY <3>1, <3>2, <1>5
    <3>3. CASE m # p \/ l # level
      BY <3>1, <3>3, <1>5 DEF InLevel
    <3> QED BY <3>2, <3>3
  <2>3. ASSUME n = i, l = level PROVE InLevel(n, l)'
    BY <2>3, <1>1, <1>5 DEF InLevel
  <2> QED BY <2>1, <2>2, <2>3
<1>8. /\ UNCHANGED <<maxHeight, height, prev>>
      /\ \/ level + 1 < height /\ level' = level + 1 /\ inserting' = i
         \/ ~(level + 1 < height) /\ level' = level /\ inserting' = NullNode
  BY DEF Publish
<1>9. ListShape'
  BY <1>5, <1>8 DEF ListInvariant, ListShape
<1>10. LinksAscend'
  BY <1>1, <1>5 DEF ListInvariant, LinksAscend
<1>11. LevelsNest'
  <2>1. \A k \in Nodes, j \in Heights : links[k][j] # Unset => links'[k][j] # Unset
    BY <1>3, <1>5
  <2>2. \A l \in Heights : links'[0][l] # Unset
    BY <2>1, Numbers DEF ListInvariant, LevelsNest
  <2>3. ASSUME NEW k \in SkipKeys, NEW l \in Heights, InLevel(k, l)', NEW j \in 0..l
        PROVE  links'[k][j] # Unset /\ InLevel(k, j)'
    <3>1. j \in Heights /\ k \in Nodes
      BY Numbers DEF Heights
    <3>2. links[k][j] # Unset /\ (InLevel(k, j) \/ (k = i /\ j = level))
      <4>1. CASE InLevel(k, l)
        BY <4>1 DEF ListInvariant, LevelsNest
      <4>2. CASE k = i /\ l = level /\ j = level
        BY <4>2, <1>1, <1>2, Numbers
      <4>3. CASE k = i /\ l = level /\ j # level
        <5>1. j \in 0..level - 1
          BY <4>3, <1>1 DEF Heights
        <5> QED BY <5>1, <4>3, <1>2
      <4> QED BY <2>3, <1>7, <4>1, <4>2, <4>3
    <3> QED BY <1>7, <2>1, <3>1, <3>2
  <2>4. ASSUME NEW k \in SkipKeys, NEW l \in Heights, l >= maxHeight'
        PROVE  ~InLevel(k, l)'
    <3>1. ~InLevel(k, l) /\ l # level
      BY <2>4, <1>1, <1>2, <1>8 DEF ListInvariant, LevelsNest, Heights
    <3> QED BY <3>1, <1>7
  <2> QED BY <2>2, <2>3, <2>4 DEF LevelsNest
<1>12. Neighbours'
  <2> SUFFICES ASSUME NEW n \in Nodes, NEW k \in SkipKeys, Stands(n, 0)', InLevel(k, 0)',
                      n < k, k < links'[n][0]
               PROVE  FALSE
    BY DEF Neighbours
  <2>1. /\ Stands(n, 0) \/ (n = i /\ level = 0)
        /\ InLevel(k, 0) \/ (k = i /\ level = 0)
    BY <1>7, Numbers DEF Stands
  <2>2. CASE level # 0
    <3>1. links'[n][0] = links[n][0]
      BY <1>5, <2>2, Numbers
    <3> QED BY <2>1, <2>2, <3>1 DEF ListInvariant, Neighbours
  <2>3. CASE level = 0
    <3>1. Stands(p, 0) /\ \A m \in SkipKeys : InLevel(m, 0) => ~(p < m /\ m < v)
      BY <1>1, <2>3 DEF ListInvariant, Neighbours
    <3>2. n \in 0..NumKeys /\ k \in 1..NumKeys /\ p \in 0..NumKeys /\ i \in 1..NumKeys
          /\ v \in 1..NumKeys + 1
      BY <1>1, Numbers DEF SkipKeys, NullNode
    <3>3. CASE n = p
      <4>1. k < i /\ InLevel(k, 0)
        BY <3>3, <1>5, <2>1, <2>3, <3>2
      <4> QED BY <4>1, <3>1, <3>2, <3>3, <1>1
    <3>4. CASE n = i
      <4>1. k < v /\ InLevel(k, 0)
        BY <3>4, <1>6, <2>1, <2>3, <3>2
      <4>2. p < k
        BY <3>4, <1>1, <3>2
      <4> QED BY <4>1, <4>2, <3>1
    <3>5. CASE n # p /\ n # i
      <4>1. links'[n][0] = links[n][0] /\ Stands(n, 0)
        BY <3>5, <1>5, <2>1, Numbers
      <4>2. ~InLevel(k, 0)
        BY <4>1 DEF ListInvariant, Neighbours
      <4>3. k = i
        BY <2>1, <4>2
      <4>4. CASE p < n
        <5>1. n < v
          BY <4>3, <1>1, <3>2
        <5>2. n \in SkipKeys /\ InLevel(n, 0)
          BY <4>1, <4>4, <3>2 DEF Stands, SkipKeys
        <5> QED BY <5>1, <5>2, <4>4, <3>1
      <4>5. CASE n < p
        <5>1. p \in SkipKeys /\ InLevel(p, 0)
          BY <3>1, <4>5, <3>2 DEF Stands, SkipKeys
        <5>2. links[n][0] \in SkipKeys \union {NullNode}
          BY <4>1, LinkIsSet, Numbers
        <5>3. p < links[n][0]
          BY <4>1, <4>3, <5>2, <1>1, <3>2 DEF SkipKeys, NullNode
        <5> QED BY <4>1, <4>5, <5>1, <5>3 DEF ListInvariant, Neighbours
      <4> QED BY <3>2, <3>5, <4>4, <4>5
    <3> QED BY <3>3, <3>4, <3>5
  <2> QED BY <2>2, <2>3
<1>13. NotInserted'
  <2> SUFFICES ASSUME NEW k \in SkipKeys, k # inserting', ~InLevel(k, 0)', NEW l \in Heights
               PROVE  links'[k][l] = Unset
    BY DEF NotInserted
  <2>1. ~InLevel(k, 0)
    BY <1>7, Numbers
  <2>2. k # i
    <3> SUFFICES ASSUME k = i PROVE FALSE
      OBVIOUS
    <3>1. ~(level = 0)
      BY <1>7, Numbers
    <3>2. 0 \in 0..level - 1
      BY <3>1, <1>2
    <3> QED BY <3>2, <2>1, <1>2
  <2>3. k # p
    <3> SUFFICES ASSUME k = p PROVE FALSE
      OBVIOUS
    <3>1. InLevel(k, level)
      BY <1>1, Numbers DEF Stands
    <3>2. 0 \in 0..level
      BY <1>2
    <3> QED BY <3>1, <3>2, <2>1, <1>1 DEF ListInvariant, LevelsNest
  <2>4. links[k][l] = Unset
    BY <2>1, <2>2 DEF ListInvariant, NotInserted
  <2> QED BY <1>5, <2>3, <2>4, Numbers
<1>14. Inserting'
  <2>1. CASE inserting' = NullNode
    BY <2>1, <1>2, <1>8 DEF Inserting
  <2>2. CASE level + 1 < height /\ level' = level + 1 /\ inserting' = i
    <3>1. /\ level' \in 0..height - 1 /\ height \in 1..maxHeight
          /\ \A l \in 0..level' - 1 : l \in Heights /\ (l = level \/ l \in 0..level - 1)
          /\ \A l \in level'..MaxHeight - 1 :
                 l \in Heights /\ l # level /\ l \in level + 1..MaxHeight - 1
                 /\ l \in level..MaxHeight - 1
          /\ \A l \in level' + 1..MaxHeight - 1 : l \in level'..MaxHeight - 1
          /\ \A l \in level'..height - 1 :
                 l \in Heights /\ l # level /\ l \in level..height - 1
          /\ level' \in level'..MaxHeight - 1
      BY <2>2, <1>1, <1>2 DEF Heights
    <3>2. \A l \in Heights : links'[i][l] = links[i][l]
      BY <1>3, <1>5
    <3>3. \A l \in 0..level' - 1 : links'[i][l] # Unset /\ InLevel(inserting, l)'
      <4> SUFFICES ASSUME NEW l \in 0..level' - 1
                   PROVE  links'[i][l] # Unset /\ InLevel(inserting, l)'
        OBVIOUS
      <4>1. l \in Heights /\ (l = level \/ l \in 0..level - 1)
        BY <3>1
      <4>2. links'[i][l] # Unset
        BY <4>1, <3>2, <1>1, <1>2, Numbers
      <4>3. InLevel(i, l) \/ l = level
        BY <4>1, <1>2
      <4> QED BY <4>1, <4>2, <4>3, <1>1, <1>7, <2>2 DEF InLevel
    <3>4. \A l \in level'..MaxHeight - 1 : ~InLevel(inserting, l)' /\ links'[i][l] = Unset
      <4> SUFFICES ASSUME NEW l \in level'..MaxHeight - 1
                   PROVE  ~InLevel(inserting, l)' /\ links'[i][l] = Unset
        OBVIOUS
      <4>1. l \in Heights /\ l # level /\ ~InLevel(i, l) /\ links[i][l] = Unset
        BY <3>1, <1>2
      <4> QED BY <4>1, <3>2, <1>1, <1>7, <2>2 DEF InLevel
    <3>5. \A l \in level'..height - 1 :
              Stands(prev[l], l)' /\ prev[l] < i /\ links'[prev[l]][l] > i
      <4> SUFFICES ASSUME NEW l \in level'..height - 1
                   PROVE  Stands(prev[l], l)' /\ prev[l] < i /\ links'[prev[l]][l] > i
        OBVIOUS
      <4>1. l \in Heights /\ l # level /\ l \in level..height - 1
        BY <3>1
      <4>2. prev[l] \in Nodes /\ Stands(prev[l], l) /\ prev[l] < i /\ links[prev[l]][l] > i
        BY <4>1, <1>2
      <4>3. Stands(prev[l], l)'
        BY <4>1, <4>2, <1>7, <1>8 DEF Stands, InLevel
      <4> QED BY <4>1, <4>2, <4>3, <1>5
    <3>6. links'[i][level'] = Unset
      BY <3>1, <3>4
    <3> QED BY <2>2, <1>1, <1>2, <1>8, <3>1, <3>3, <3>4, <3>5, <3>6 DEF Inserting
  <2> QED BY <1>8, <2>1, <2>2
<1> QED BY <1>7, <1>9, <1>10, <1>11, <1>12, <1>13, <1>14 DEF ListInvariant

-----------------------------------------------------------------------------
(* The reader *)

\* No key lies between a node of level 0 and the one its link leads to.
LEMMA NothingBetween ==
    ASSUME ListInvariant, NEW n \in Nodes, Stands(n, 0), NEW k \in Linked
    PROVE  k <= n \/ links[n][0] <= k
<1>1. k \in SkipKeys /\ InLevel(k, 0)
  BY LinkedIsInLevel
<1>2. ~(n < k /\ k < links[n][0])
  BY <1>1 DEF ListInvariant, Neighbours
<1>3. links[n][0] \in SkipKeys \union {NullNode}
  BY LinkIsSet, Numbers
<1> QED BY <1>1, <1>2, <1>3 DEF SkipKeys, Nodes, NullNode

\* A node the reader can be at stands in level 0.
LEMMA NodeStands ==
    ASSUME Searching
    PROVE  (node \in SkipKeys => Stands(node, 0)) /\ node # Unset /\ at # Unset
<1>1. NullNode \notin SkipKeys /\ \A k \in Linked : k \in SkipKeys /\ InLevel(k, 0)
  BY LinkedIsInLevel, Numbers DEF Nodes
<1> QED BY <1>1, Numbers DEF Searching, Stands

\* What the writer does takes no key away, so it disturbs no reader.
LEMMA WriterDisturbsNobody ==
    ASSUME Searching, NoKeyIsPassedOver, ReaderUnchanged,
           \A n \in SkipKeys, l \in Heights : InLevel(n, l) => InLevel(n, l)'
    PROVE  Searching' /\ NoKeyIsPassedOver'
<1>1. Linked \subseteq Linked'
  BY Numbers DEF Linked, InLevel
<1>2. UNCHANGED <<node, reading, at, atLevel, target, call, present>>
  BY DEF ReaderUnchanged
<1>3. Stands(at, atLevel) /\ atLevel \in Heights => Stands(at, atLevel)'
  BY <1>2 DEF Stands, InLevel
<1>4. Searching'
  BY <1>1, <1>2, <1>3 DEF Searching
<1>5. NoKeyIsPassedOver'
  BY <1>1, <1>2 DEF NoKeyIsPassedOver
<1> QED BY <1>4, <1>5

\* What a reader does leaves the list as it is.
LEMMA ReaderKeepsTheList ==
    ASSUME ListInvariant, WriterUnchanged
    PROVE  ListInvariant' /\ Linked' = Linked /\ links' = links
BY DEF ListInvariant, WriterUnchanged, ListShape, LinksAscend, LevelsNest, Neighbours,
       NotInserted, Inserting, Stands, InLevel, Linked

\* A search begins at head_, which stands before any target in every level.
LEMMA SearchBegins ==
    ASSUME ListInvariant, Searching, NoKeyIsPassedOver, WriterUnchanged, node' = node,
           NEW kind \in {"seek", "before"}, NEW key \in SkipKeys \union {NullNode},
           Search(kind, key), AskFor(kind = "seek", key)
    PROVE  Searching' /\ NoKeyIsPassedOver'
<1>1. Linked' = Linked
  BY ReaderKeepsTheList
<1>2. /\ reading' = kind /\ target' = key /\ at' = 0
      /\ call' = [up |-> kind = "seek", bound |-> key] /\ present' = Linked
      /\ kind # "none"
  BY DEF Search, AskFor
<1>3. atLevel' \in Heights
  <2>1. PICK h \in 1..maxHeight : atLevel' = h - 1
    BY DEF Search
  <2> QED BY <2>1 DEF ListInvariant, ListShape, Heights
<1>4. 0 < key
  BY DEF SkipKeys, NullNode
<1>5. Searching'
  BY <1>1, <1>2, <1>3, <1>4, Numbers DEF Searching, Stands
<1>6. NoKeyIsPassedOver'
  BY <1>2, NodeStands, Numbers DEF NoKeyIsPassedOver
<1> QED BY <1>5, <1>6

\* SeekToFirst and Next end at the neighbour, the nearest linked key.
LEMMA LoadNextKeeps ==
    ASSUME ListInvariant, Searching, NEW n \in Nodes, Stands(n, 0), reading = "none", LoadNext(n)
    PROVE  Searching' /\ NoKeyIsPassedOver'
<1>1. /\ Linked' = Linked /\ node' = links[n][0]
      /\ call' = [up |-> TRUE, bound |-> n + 1] /\ present' = Linked
      /\ reading' = "none" /\ at' = at /\ atLevel' = atLevel
  BY ReaderKeepsTheList DEF LoadNext, AskFor
<1>2. /\ links[n][0] \in SkipKeys \union {NullNode}
      /\ links[n][0] \in SkipKeys => n < links[n][0] /\ links[n][0] \in Linked
  BY LinkIsSet, LinkedIsInLevel, Numbers
<1>3. \A k \in Linked : k \in SkipKeys /\ (k <= n \/ links[n][0] <= k)
  BY NothingBetween, LinkedIsInLevel
<1>4. Searching'
  BY <1>1, <1>2 DEF Searching
<1>5. at' # Unset /\ node' # Unset
  BY <1>1, <1>2, NodeStands, Numbers
<1>6. CASE links[n][0] = NullNode
  <2>1. \A k \in Linked : k < n + 1
    BY <1>3, <1>6 DEF SkipKeys, NullNode, Nodes
  <2> QED BY <1>1, <1>4, <1>5, <1>6, <2>1 DEF NoKeyIsPassedOver
<1>7. CASE links[n][0] \in SkipKeys
  <2>1. links[n][0] >= n + 1 /\ \A k \in Linked : k >= n + 1 => links[n][0] <= k
    BY <1>2, <1>3, <1>7 DEF SkipKeys, Nodes
  <2> QED BY <1>1, <1>2, <1>4, <1>5, <1>7, <2>1 DEF NoKeyIsPassedOver
<1> QED BY <1>2, <1>6, <1>7

\* A turn of a search goes on, drops or ends at the neighbours of its
\* target.
LEMMA SearchTurnKeeps ==
    ASSUME ListInvariant, Searching, NoKeyIsPassedOver, SearchTurn
    PROVE  Searching' /\ NoKeyIsPassedOver'
<1> DEFINE next == links[at][atLevel]
<1>1. /\ Linked' = Linked /\ links' = links
      /\ UNCHANGED <<target, call, present>> /\ reading # "none"
  BY ReaderKeepsTheList DEF SearchTurn
<1>2. /\ at \in Nodes /\ atLevel \in Heights /\ target \in SkipKeys \union {NullNode}
      /\ Stands(at, atLevel) /\ at < target /\ present \subseteq Linked
      /\ reading \in {"seek", "before"}
      /\ call = [up |-> reading = "seek", bound |-> target]
      /\ node = NullNode \/ node \in Linked
  BY <1>1 DEF Searching
<1>3. /\ next \in SkipKeys \union {NullNode}
      /\ next \in SkipKeys => InLevel(next, atLevel)
      /\ \A j \in 0..atLevel : Stands(at, j)
  BY <1>2, LinkIsSet
<1>4. at # Unset /\ node # Unset
  BY NodeStands
<1>5. CASE next < target
  <2>1. at' = next /\ UNCHANGED <<atLevel, reading, node>>
    BY <1>5 DEF SearchTurn
  <2>2. next \in SkipKeys
    BY <1>2, <1>3, <1>5 DEF SkipKeys, NullNode
  <2>3. next \in Nodes /\ Stands(next, atLevel) /\ next # Unset
    BY <1>3, <2>2, Numbers DEF Stands
  <2>4. Stands(at, atLevel)'
    BY <1>1, <2>1, <2>3 DEF Stands, InLevel
  <2>5. Searching'
    BY <1>1, <1>2, <1>5, <2>1, <2>3, <2>4 DEF Searching
  <2> QED BY <1>1, <1>4, <2>1, <2>3, <2>5 DEF NoKeyIsPassedOver
<1>6. CASE ~(next < target) /\ atLevel > 0
  <2>1. atLevel' = atLevel - 1 /\ UNCHANGED <<at, reading, node>>
    BY <1>6 DEF SearchTurn
  <2>2. atLevel - 1 \in Heights /\ Stands(at, atLevel - 1)
    BY <1>2, <1>3, <1>6 DEF Heights
  <2>3. Stands(at, atLevel)'
    BY <1>1, <2>1, <2>2 DEF Stands, InLevel
  <2>4. Searching'
    BY <1>1, <1>2, <2>1, <2>2, <2>3 DEF Searching
  <2> QED BY <1>1, <1>4, <2>1, <2>4 DEF NoKeyIsPassedOver
<1>7. CASE ~(next < target) /\ ~(atLevel > 0)
  <2>1. /\ node' = (IF reading = "seek" THEN next ELSE IF at = 0 THEN NullNode ELSE at)
        /\ reading' = "none" /\ at' = at /\ atLevel' = atLevel
    BY <1>7 DEF SearchTurn
  <2>2. atLevel = 0
    BY <1>2, <1>7 DEF Heights
  <2>3. Stands(at, 0) /\ (next \in SkipKeys => next \in Linked)
    BY <1>2, <1>3, <2>2, LinkedIsInLevel
  <2>4. at # 0 => at \in Linked
    BY <2>3, LinkedIsInLevel DEF Stands
  <2>5. \A k \in Linked : k \in SkipKeys /\ (k <= at \/ next <= k)
    BY <1>2, <2>2, <2>3, NothingBetween, LinkedIsInLevel
  <2>6. at < target /\ target <= next /\ at \in 0..NumKeys
        /\ target \in 1..NumKeys + 1 /\ next \in 1..NumKeys + 1
    BY <1>2, <1>3, <1>7 DEF SkipKeys, NullNode, Nodes
  <2>7. Searching'
    BY <1>1, <1>2, <1>3, <2>1, <2>3, <2>4 DEF Searching
  <2>8. at' # Unset /\ node' # Unset
    BY <1>3, <1>4, <2>1, Numbers
  <2>9. CASE reading = "seek" /\ next = NullNode
    <3>1. \A k \in Linked : k < target
      BY <2>5, <2>6, <2>9 DEF SkipKeys, NullNode
    <3> QED BY <1>1, <1>2, <2>1, <2>7, <2>8, <2>9, <3>1 DEF NoKeyIsPassedOver
  <2>10. CASE reading = "seek" /\ next \in SkipKeys
    <3>1. next >= target /\ \A k \in Linked : k >= target => next <= k
      BY <2>5, <2>6 DEF SkipKeys
    <3>2. call'.up = TRUE /\ call'.bound = target
      BY <1>1, <1>2, <2>10
    <3>3. node' \in Linked'
      BY <1>1, <2>1, <2>3, <2>10
    <3>4. node' = next
      BY <2>1, <2>10
    <3> QED BY <1>1, <1>2, <2>7, <2>8, <3>1, <3>2, <3>3, <3>4 DEF NoKeyIsPassedOver
  <2>11. CASE reading = "before" /\ at = 0
    <3>1. \A k \in Linked : k >= target
      BY <2>5, <2>6, <2>11 DEF SkipKeys
    <3> QED BY <1>1, <1>2, <2>1, <2>7, <2>8, <2>11, <3>1 DEF NoKeyIsPassedOver
  <2>12. CASE reading = "before" /\ at # 0
    <3>1. at < target /\ \A k \in Linked : k < target => k <= at
      BY <2>5, <2>6 DEF SkipKeys
    <3>2. call'.up = FALSE /\ call'.bound = target
      BY <1>1, <1>2, <2>12
    <3>3. node' \in Linked' /\ node' = at
      BY <1>1, <2>1, <2>4, <2>12
    <3> QED BY <1>1, <1>2, <2>7, <2>8, <3>1, <3>2, <3>3 DEF NoKeyIsPassedOver
  <2> QED BY <1>2, <1>3, <2>7, <2>9, <2>10, <2>11, <2>12
<1> QED BY <1>5, <1>6, <1>7

-----------------------------------------------------------------------------
\* The invariant holds at first and every step keeps it.
LEMMA SkipListInvariantHolds == SkipListSpec => []SkipListInvariant
<1>1. SkipListInit => SkipListInvariant
  <2> SUFFICES ASSUME SkipListInit PROVE SkipListInvariant
    OBVIOUS
  <2> USE DEF SkipListInit
  <2>1. /\ \A l \in Heights : links[0][l] = NullNode
        /\ \A k \in SkipKeys, l \in Heights : links[k][l] = Unset
        /\ \A n \in Nodes, l \in Heights : links[n][l] \in {NullNode, Unset}
    BY Numbers
  <2>2. \A k \in SkipKeys, l \in Heights : ~InLevel(k, l)
    BY <2>1, Numbers DEF InLevel
  <2>3. Linked = {}
    BY <2>2, LinkedIsInLevel, Numbers
  <2>4. ListShape /\ LinksAscend
    <3>1. \A n \in Nodes, l \in Heights : links[n][l] \notin SkipKeys
      BY <2>1, Numbers
    <3> QED BY <3>1 DEF ListShape, LinksAscend
  <2>5. LevelsNest /\ Neighbours /\ NotInserted
    BY <2>1, <2>2, Numbers DEF LevelsNest, Neighbours, NotInserted
  <2>6. Inserting
    BY Numbers DEF Inserting
  <2>7. Searching
    BY Numbers DEF Searching
  <2>8. NoKeyIsPassedOver
    BY Numbers DEF NoKeyIsPassedOver
  <2> QED BY <2>4, <2>5, <2>6, <2>7, <2>8 DEF SkipListInvariant, ListInvariant
<1>2. SkipListInvariant /\ [SkipListNext]_skipListVars => SkipListInvariant'
  <2> SUFFICES ASSUME ListInvariant, Searching, NoKeyIsPassedOver, [SkipListNext]_skipListVars
               PROVE  ListInvariant' /\ Searching' /\ NoKeyIsPassedOver'
    BY DEF SkipListInvariant
  <2>1. ASSUME NEW key \in SkipKeys, NEW h \in 1..MaxHeight, InsertKey(key, h)
        PROVE  ListInvariant' /\ Searching' /\ NoKeyIsPassedOver'
    <3>1. ReaderUnchanged /\ links' = links
      BY <2>1 DEF InsertKey
    <3>2. \A n \in SkipKeys, l \in Heights : InLevel(n, l) => InLevel(n, l)'
      BY <3>1 DEF InLevel
    <3> QED BY <2>1, <3>1, <3>2, InsertKeyKeeps, WriterDisturbsNobody
  <2>2. CASE SetOwnLink
    <3>1. ReaderUnchanged
      BY <2>2 DEF SetOwnLink
    <3> QED BY <2>2, <3>1, SetOwnLinkKeeps, WriterDisturbsNobody
  <2>3. CASE Publish
    <3>1. ReaderUnchanged
      BY <2>3 DEF Publish
    <3> QED BY <2>3, <3>1, PublishKeeps, WriterDisturbsNobody
  <2>4. ASSUME NEW key \in SkipKeys, SeekKey(key)
        PROVE  ListInvariant' /\ Searching' /\ NoKeyIsPassedOver'
    <3>1. WriterUnchanged /\ node' = node /\ Search("seek", key) /\ AskFor("seek" = "seek", key)
      BY <2>4 DEF SeekKey, AskFor
    <3> QED BY <3>1, SearchBegins, ReaderKeepsTheList
  <2>5. CASE PrevNode
    <3>1. /\ WriterUnchanged /\ node' = node /\ node \in SkipKeys
          /\ Search("before", node) /\ AskFor("before" = "seek", node)
      BY <2>5 DEF PrevNode, AskFor
    <3> QED BY <3>1, SearchBegins, ReaderKeepsTheList
  <2>6. CASE SeekToLastNode
    <3>1. /\ WriterUnchanged /\ node' = node
          /\ Search("before", NullNode) /\ AskFor("before" = "seek", NullNode)
      BY <2>6 DEF SeekToLastNode, AskFor
    <3> QED BY <3>1, SearchBegins, ReaderKeepsTheList
  <2>7. CASE SeekToFirstNode
    <3>1. reading = "none" /\ LoadNext(0) /\ 0 \in Nodes /\ Stands(0, 0) /\ WriterUnchanged
      BY <2>7, Numbers DEF SeekToFirstNode, LoadNext, Stands
    <3> QED BY <3>1, LoadNextKeeps, ReaderKeepsTheList
  <2>8. CASE NextNode
    <3>1. reading = "none" /\ LoadNext(node) /\ node \in Nodes /\ Stands(node, 0) /\ WriterUnchanged
      BY <2>8, Numbers, NodeStands DEF NextNode, LoadNext
    <3> QED BY <3>1, LoadNextKeeps, ReaderKeepsTheList
  <2>9. CASE SearchTurn
    <3>1. WriterUnchanged
      BY <2>9 DEF SearchTurn
    <3> QED BY <2>9, <3>1, SearchTurnKeeps, ReaderKeepsTheList
  <2>10. CASE UNCHANGED skipListVars
    <3>1. WriterUnchanged /\ ReaderUnchanged /\ links' = links
      BY <2>10 DEF skipListVars, WriterUnchanged, ReaderUnchanged
    <3>2. \A n \in SkipKeys, l \in Heights : InLevel(n, l) => InLevel(n, l)'
      BY <3>1 DEF InLevel
    <3> QED BY <3>1, <3>2, ReaderKeepsTheList, WriterDisturbsNobody
  <2> QED
    BY <2>1, <2>2, <2>3, <2>4, <2>5, <2>6, <2>7, <2>8, <2>9, <2>10 DEF SkipListNext
<1> QED BY <1>1, <1>2, PTL DEF SkipListSpec

\* A reader without a lock, whatever the writer is in the middle of, passes
\* over no key that was in the list when its call began and follows no link
\* that was not set: Insert may store its links one after the other.
THEOREM NoKeyIsMissed == SkipListSpec => []NoKeyIsPassedOver
BY SkipListInvariantHolds, PTL DEF SkipListInvariant
=============================================================================

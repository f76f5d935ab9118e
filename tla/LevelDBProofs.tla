---------------------------- MODULE LevelDBProofs ----------------------------
(***************************************************************************)
(* For any keys, batches, levels, readers and restarts: a Get answers what *)
(* was written, a reader sees what was written when it was opened, and the *)
(* files alone give everything back.                                       *)
(*                                                                         *)
(* The argument does not count versions of a key.  A version is in order   *)
(* (Good) if whatever Version::Get looks at first covers what comes after  *)
(* it, key by key, and the tables of a level do not meet.  A version under *)
(* the logs from a number on is Consistent with what was written if it is  *)
(* in order, older than the logs, and Complete: of every entry written,    *)
(* and not in those logs, a newer one or the entry itself is stored, or    *)
(* the key was deleted and nothing of it is left.  The version in use, the *)
(* one CURRENT leads to and the one it is about to lead to are Consistent  *)
(* at every step, each under its own log number; a flush, a compaction and *)
(* Open each replace such a version by another.                            *)
(*                                                                         *)
(* Once a write has failed the same memtable may be flushed twice: its     *)
(* table is in the manifest's version, its log is still replayed, and the  *)
(* next Open builds the same table again.  Twins says that this is so.     *)
(***************************************************************************)
EXTENDS LevelDBFilesProofs

-----------------------------------------------------------------------------
(* When a version under some logs gives everything that was written *)

\* What the logs hold, and what replaying them from number ln on gives.
Logged(L) == [n \in DOMAIN L |-> LogEntries(L[n])]
Replay(G, ln) == UNION {G[n] : n \in {n \in DOMAIN G : n >= ln}}
Stored(T, v) == Holds(T, Files(v))

\* The order of the tables of a version: what is looked at first is newer, and
\* below level 0 the tables of a level do not meet (but for a table built twice).
Good(T, v, tw) ==
    /\ \A l, m \in Levels : \A a \in v[l], b \in v[m] : Rank(l, a) < Rank(m, b) => Covers(T[a], T[b])
    /\ \A l \in Levels \ {0} : \A a, b \in v[l] : a # b => Apart(T[a], T[b]) \/ (tw /\ T[a] = T[b])

\* Of the entries H nothing is missing in A: a newer entry of the key is there,
\* or the key was deleted and nothing of it is left.
Kept(h, A, H) == \/ \E e \in A : e.key = h.key /\ e.seq >= h.seq
                 \/ /\ \E d \in H : d.key = h.key /\ d.seq >= h.seq /\ d.del
                    /\ \A e \in A : e.key # h.key
Complete(A, H) == \A h \in H : Kept(h, A, H)

Inside(T, H, v, last) ==
    Stored(T, v) \subseteq H /\ (\A n \in Files(v) : T[n] # {}) /\ \A e \in Stored(T, v) : e.seq <= last
Follows(T, G, H, v, ln, tw) ==
    /\ \A a, b \in DOMAIN G : ln <= a /\ a < b => Older(G[a], G[b])
    /\ \A a \in DOMAIN G, t \in Files(v) : ln <= a => Older(T[t], G[a]) \/ (tw /\ T[t] = G[a])
    /\ Older(H \ Replay(G, ln), Replay(G, ln))

\* Version v under the logs from ln on gives the entries H.
Consistent(T, G, H, v, last, ln, tw) ==
    /\ Replay(G, ln) \subseteq H /\ Inside(T, H, v, last)
    /\ \A h \in H : h.seq <= last \/ h \in Replay(G, ln)
    /\ Follows(T, G, H, v, ln, tw)
    /\ Good(T, v, tw)
    /\ Complete(Stored(T, v), H \ Replay(G, ln))

Distinct(H) == \A e, f \in H : e.seq = f.seq => e = f

\* An entry's parts, and the bound on its number.
LEMMA EntryIs ==
    /\ MaxSeq \in Nat
    /\ \A e \in Entry : /\ e.key \in Int /\ e.seq \in Nat /\ e.del \in BOOLEAN
                        /\ 1 <= e.seq /\ e.seq <= MaxSeq
<1>1. UserKeys \subseteq Int
  <2>1. ASSUME NEW b \in Batches, NEW i \in DOMAIN b PROVE b[i].key \in Int
    <3> DEFINE S == [key : Int, del : BOOLEAN]
    <3>1. b \in Seq(S)
      BY LevelsAssumption
    <3> HIDE DEF S
    <3>2. b[i] \in S
      BY <3>1, ElementOfSeq
    <3> QED BY <3>2 DEF S
  <2> QED BY <2>1 DEF UserKeys
<1>2. MaxSeq \in Nat
  BY LevelsAssumption
<1>3. ASSUME NEW e \in Entry PROVE e.key \in UserKeys /\ e.seq \in 1..MaxSeq /\ e.del \in BOOLEAN
  BY <1>3 DEF Entry
<1>4. ASSUME NEW e \in Entry PROVE e.key \in Int /\ e.seq \in Nat /\ 1 <= e.seq /\ e.seq <= MaxSeq
  <2>1. e.key \in UserKeys /\ e.seq \in 1..MaxSeq
    BY <1>3
  <2>2. e.key \in Int
    BY <1>1, <2>1
  <2> QED BY <1>2, <2>1, <2>2
<1> QED BY <1>2, <1>3, <1>4

\* What a version's tables hold, table by table.
LEMMA StoredIs ==
    ASSUME NEW T, NEW v
    PROVE  /\ \A e \in Stored(T, v) : \E n \in Files(v) : e \in T[n]
           /\ \A n \in Files(v) : T[n] \subseteq Stored(T, v)
BY DEF Stored, Holds

\* What some tables hold, table by table.
LEMMA HoldsIs ==
    ASSUME NEW T, NEW N
    PROVE  /\ \A e \in Holds(T, N) : \E n \in N : e \in T[n]
           /\ \A n \in N : T[n] \subseteq Holds(T, N)
BY DEF Holds

\* What is replayed, log by log.
LEMMA ReplayIs ==
    ASSUME NEW G, NEW ln
    PROVE  /\ \A e \in Replay(G, ln) : \E n \in DOMAIN G : n >= ln /\ e \in G[n]
           /\ \A n \in DOMAIN G : n >= ln => G[n] \subseteq Replay(G, ln)
BY DEF Replay

\* A table of a level is a table of the version.
LEMMA InFiles ==
    ASSUME NEW v \in Versions, NEW l \in Levels, NEW n \in v[l]
    PROVE  n \in Files(v) /\ n \in Nat /\ l \in Nat
BY FilesAre, LevelNumbers

\* Newer entries cover older ones of their keys.
LEMMA CoversOlder ==
    ASSUME NEW A, NEW B, A \subseteq Entry, B \subseteq Entry, Older(B, A) \/ B = A
    PROVE  Covers(A, B)
BY EntryIs DEF Covers, Older

\* Groups that do not meet cover each other: they share no key.
LEMMA CoversApart ==
    ASSUME NEW A, NEW B, A \subseteq Entry, B \subseteq Entry, Apart(A, B) \/ A = B
    PROVE  Covers(A, B)
BY EntryIs DEF Covers, Apart

\* Whether two groups meet does not depend on their order, and parts of them do not either.
LEMMA ApartTurns ==
    ASSUME NEW A, NEW B, NEW C, A \subseteq Entry, B \subseteq Entry, C \subseteq B, Apart(A, B)
    PROVE  Apart(A, C) /\ Apart(C, A) /\ \A a \in A, c \in C : a.key # c.key
BY EntryIs DEF Apart

\* What a version stores depends on its own tables only.
LEMMA SameStored ==
    ASSUME NEW T, NEW U, NEW v, \A n \in Files(v) : U[n] = T[n]
    PROVE  Stored(U, v) = Stored(T, v)
<1>1. \A e \in Stored(U, v) : e \in Stored(T, v)
  BY StoredIs
<1>2. \A e \in Stored(T, v) : e \in Stored(U, v)
  BY StoredIs
<1> QED BY <1>1, <1>2

\* So does the order of its tables.
LEMMA SameGood ==
    ASSUME NEW T, NEW U, NEW v \in Versions, NEW tw, NEW tx, tw => tx,
           \A n \in Files(v) : U[n] = T[n], Good(T, v, tw)
    PROVE  Good(U, v, tx)
<1>1. \A l \in Levels : \A n \in v[l] : U[n] = T[n]
  BY InFiles
<1> QED BY <1>1 DEF Good

\* With fewer tables a version stays in order.
LEMMA SubGood ==
    ASSUME NEW T, NEW v, NEW w, NEW tw, \A l \in Levels : w[l] \subseteq v[l], Good(T, v, tw)
    PROVE  Good(T, w, tw)
BY DEF Good

\* Logs that are not replayed, and empty ones, make no difference.
LEMMA SameReplay ==
    ASSUME NEW G, NEW K, NEW ln,
           \A n \in DOMAIN G : n >= ln => n \in DOMAIN K /\ K[n] = G[n],
           \A n \in DOMAIN K : n >= ln => (n \in DOMAIN G /\ K[n] = G[n]) \/ K[n] = {}
    PROVE  Replay(K, ln) = Replay(G, ln)
<1>1. \A e \in Replay(K, ln) : e \in Replay(G, ln)
  BY ReplayIs
<1>2. \A e \in Replay(G, ln) : e \in Replay(K, ln)
  BY ReplayIs
<1> QED BY <1>1, <1>2

\* Neither other tables nor other logs, nor new empty ones, make a difference.
LEMMA SameConsistent ==
    ASSUME NEW T, NEW U, NEW G, NEW K, NEW H, NEW v \in Versions, NEW last \in Nat, NEW next \in Nat,
           NEW ln \in Nat, NEW tw, NEW tx, tw => tx, last <= next, H \subseteq Entry,
           DOMAIN G \subseteq Nat, DOMAIN K \subseteq Nat,
           \A n \in Files(v) : U[n] = T[n],
           \A n \in DOMAIN G : n >= ln => n \in DOMAIN K /\ K[n] = G[n],
           \A n \in DOMAIN K : n >= ln => (n \in DOMAIN G /\ K[n] = G[n]) \/ K[n] = {},
           Consistent(T, G, H, v, last, ln, tw)
    PROVE  Consistent(U, K, H, v, next, ln, tx)
<1>1. Stored(U, v) = Stored(T, v) /\ Replay(K, ln) = Replay(G, ln) /\ Good(U, v, tx)
  <2>1. Good(T, v, tw)
    BY DEF Consistent
  <2> QED BY <2>1, SameStored, SameReplay, SameGood
<1>2. Inside(U, H, v, next)
  <2>1. Stored(T, v) \subseteq Entry /\ \A e \in Stored(T, v) : e.seq <= last
    BY DEF Consistent, Inside
  <2>2. \A e \in Stored(T, v) : e.seq <= next
    BY <2>1, EntryIs
  <2> QED BY <1>1, <2>2 DEF Consistent, Inside
<1>3. \A h \in H : h.seq <= next \/ h \in Replay(K, ln)
  BY <1>1, EntryIs DEF Consistent
<1>4. Follows(U, K, H, v, ln, tx)
  <2>1. Follows(T, G, H, v, ln, tw)
    BY DEF Consistent
  <2>2. ASSUME NEW a \in DOMAIN K, NEW b \in DOMAIN K, ln <= a, a < b PROVE Older(K[a], K[b])
    <3>1. CASE K[a] = {} \/ K[b] = {}
      BY <3>1 DEF Older
    <3>2. CASE K[a] # {} /\ K[b] # {}
      <4>1. a \in DOMAIN G /\ K[a] = G[a]
        BY <2>2, <3>2
      <4>2. b >= ln
        BY <2>2
      <4>3. b \in DOMAIN G /\ K[b] = G[b]
        BY <4>2, <3>2
      <4> QED BY <2>1, <2>2, <4>1, <4>3 DEF Follows
    <3> QED BY <3>1, <3>2
  <2>3. ASSUME NEW a \in DOMAIN K, NEW t \in Files(v), ln <= a
        PROVE  Older(U[t], K[a]) \/ (tx /\ U[t] = K[a])
    <3>1. CASE K[a] = {}
      BY <3>1 DEF Older
    <3>2. CASE a \in DOMAIN G /\ K[a] = G[a]
      BY <2>1, <2>3, <3>2 DEF Follows
    <3> QED BY <2>3, <3>1, <3>2
  <2> QED BY <1>1, <2>1, <2>2, <2>3 DEF Follows
<1> QED BY <1>1, <1>2, <1>3, <1>4 DEF Consistent

-----------------------------------------------------------------------------
(* What an answer depends on *)

\* The entries of a key: the newest of them, and what it answers.
LEMMA NewestIs ==
    ASSUME NEW S, S \subseteq Entry, S # {}
    PROVE  \E e \in S : \A f \in S : f.seq <= e.seq
<1> DEFINE N == {e.seq : e \in S}
<1>1. N \subseteq 1..MaxSeq
  BY EntryIs
<1>2. IsFiniteSet(N) /\ N \subseteq Int
  <2>1. 1 \in Int /\ MaxSeq \in Int
    BY EntryIs
  <2>2. IsFiniteSet(1..MaxSeq)
    BY <2>1, FS_Interval
  <2>3. IsFiniteSet(N)
    BY <1>1, <2>2, FS_Subset
  <2> QED BY <1>1, <2>3
<1>3. N # {}
  OBVIOUS
<1>4. \A x \in N : \E e \in S : x = e.seq
  OBVIOUS
<1>5. \A e \in S : e.seq \in N
  OBVIOUS
<1> HIDE DEF N
<1>6. Max(N) \in N /\ \A y \in N : y <= Max(N)
  BY <1>2, <1>3, GreatestIs
<1>7. PICK e \in S : e.seq = Max(N)
  BY <1>4, <1>6
<1>8. \A f \in S : f.seq <= e.seq
  BY <1>5, <1>6, <1>7
<1> QED BY <1>8

\* The newest of some entries with numbers of their own decides the answer.
LEMMA AnswerIs ==
    ASSUME NEW S, S \subseteq Entry, Distinct(S), NEW e \in S, \A f \in S : f.seq <= e.seq
    PROVE  Newest(S) = e /\ Answer(S) = (IF e.del THEN 0 ELSE e.seq)
<1>1. \A f \in S : f.seq \in Nat
  BY EntryIs
<1>2. \A f \in S : (\A g \in S : g.seq <= f.seq) => f = e
  BY <1>1 DEF Distinct
<1>3. Newest(S) = e
  BY <1>2 DEF Newest
<1> QED BY <1>3 DEF Answer

\* Of the entries S, what X tells is enough.
Tells(X, S) == \/ \E e \in X : e \in S /\ (\A f \in S : f.seq <= e.seq) /\ \A f \in X : f.seq <= e.seq
               \/ X = {} /\ (S = {} \/ \E e \in S : e.del /\ \A f \in S : f.seq <= e.seq)

\* Enough of the entries gives the same answer as all of them.
LEMMA SameAnswer ==
    ASSUME NEW X, NEW S, X \subseteq Entry, S \subseteq Entry, Distinct(X), Distinct(S), Tells(X, S)
    PROVE  Answer(X) = Answer(S)
<1>1. CASE \E e \in X : e \in S /\ (\A f \in S : f.seq <= e.seq) /\ \A f \in X : f.seq <= e.seq
  <2>1. PICK e \in X : e \in S /\ (\A f \in S : f.seq <= e.seq) /\ \A f \in X : f.seq <= e.seq
    BY <1>1
  <2>2. Answer(X) = (IF e.del THEN 0 ELSE e.seq)
    BY <2>1, AnswerIs
  <2>3. Answer(S) = (IF e.del THEN 0 ELSE e.seq)
    BY <2>1, AnswerIs
  <2> QED BY <2>2, <2>3
<1>2. CASE X = {} /\ S = {}
  BY <1>2
<1>3. CASE X = {} /\ \E e \in S : e.del /\ \A f \in S : f.seq <= e.seq
  <2>1. PICK e \in S : e.del /\ \A f \in S : f.seq <= e.seq
    BY <1>3
  <2>2. Answer(S) = 0
    BY <2>1, AnswerIs
  <2>3. Answer(X) = 0
    BY <1>3 DEF Answer
  <2> QED BY <2>2, <2>3
<1> QED BY <1>1, <1>2, <1>3 DEF Tells

\* Newer entries come on top.
LEMMA CompleteNewer ==
    ASSUME NEW A, NEW B, NEW H, NEW J, NEW N, A \subseteq Entry, H \subseteq Entry, N \subseteq Entry,
           Complete(A, H), A \cup N \subseteq B, B \subseteq A \cup N,
           Older(H, N), H \subseteq J, J \subseteq H \cup N
    PROVE  Complete(B, J)
<1> SUFFICES ASSUME NEW h \in J PROVE Kept(h, B, J)
  BY DEF Complete
<1>1. CASE h \in N
  <2>1. h \in B /\ h.seq >= h.seq
    BY <1>1, EntryIs
  <2> QED BY <2>1 DEF Kept
<1>2. CASE h \in H
  <2>1. Kept(h, A, H)
    BY <1>2 DEF Complete
  <2>2. CASE \E e \in A : e.key = h.key /\ e.seq >= h.seq
    BY <2>2 DEF Kept
  <2>3. CASE \E n \in N : n.key = h.key
    <3>1. PICK n \in N : n.key = h.key
      BY <2>3
    <3>2. h.seq < n.seq /\ n \in B
      BY <1>2, <3>1 DEF Older
    <3>3. n.seq >= h.seq
      BY <1>2, <3>2, EntryIs
    <3> QED BY <3>1, <3>2, <3>3 DEF Kept
  <2>4. CASE /\ \E d \in H : d.key = h.key /\ d.seq >= h.seq /\ d.del
             /\ \A e \in A : e.key # h.key
             /\ ~\E n \in N : n.key = h.key
    <3>1. \A e \in B : e.key # h.key
      BY <2>4
    <3> QED BY <2>4, <3>1 DEF Kept
  <2> QED BY <2>1, <2>2, <2>3, <2>4 DEF Kept
<1> QED BY <1>1, <1>2

\* A memtable's table is added to a level.
WhereNew(T, v, j, f, E, tw) ==
    /\ \A i \in Levels : \A n \in v[i] : Older(T[n], E) \/ (tw /\ T[n] = E)
    /\ j > 0 => \A i \in Levels : i <= j => \A n \in v[i] : Apart(E, T[n]) \/ (tw /\ T[n] = E)
    /\ \A i \in Levels : \A n \in v[i] : n < f

\* With the memtable's table where WriteLevel0Table puts it the order stays.
LEMMA GoodFlush ==
    ASSUME NEW T, NEW v \in Versions, NEW j \in Levels, NEW f \in Nat, NEW E, E \subseteq Entry, NEW tw,
           \A n \in Files(v) : T[n] \subseteq Entry, T[f] = E,
           Good(T, v, tw), WhereNew(T, v, j, f, E, tw)
    PROVE  Good(T, WithTables(v, j, {f}), tw)
<1> DEFINE w == WithTables(v, j, {f})
<1>1. \A i \in Levels : \A n \in w[i] : n \in v[i] \/ (i = j /\ n = f)
  BY DEF WithTables
<1>2. \A i \in Levels : \A n \in v[i] : T[n] \subseteq Entry /\ n \in Nat
  BY InFiles
<1> HIDE DEF w
<1>3. ASSUME NEW l \in Levels, NEW m \in Levels, NEW a \in w[l], NEW b \in w[m], Rank(l, a) < Rank(m, b)
      PROVE  Covers(T[a], T[b])
  <2>1. CASE a \in v[l] /\ b \in v[m]
    BY <1>3, <2>1 DEF Good
  <2>2. CASE l = j /\ a = f /\ b \in v[m]
    <3>1. Older(T[b], E) \/ T[b] = E
      BY <2>2 DEF WhereNew
    <3> QED BY <1>2, <2>2, <3>1, CoversOlder
  <2>3. CASE m = j /\ b = f /\ a \in v[l]
    <3>1. l <= j
      BY <1>2, <1>3, <2>3, LevelNumbers DEF Rank
    <3>2. CASE j > 0
      <4>1. Apart(E, T[a]) \/ T[a] = E
        BY <2>3, <3>1, <3>2 DEF WhereNew
      <4>2. Apart(T[a], E) \/ T[a] = E
        BY <1>2, <2>3, <4>1, EntryIs DEF Apart
      <4> QED BY <1>2, <2>3, <4>2, CoversApart
    <3>3. CASE j = 0
      <4>1. l = 0 /\ a < f
        BY <2>3, <3>1, <3>3, LevelNumbers DEF WhereNew
      <4> QED BY <1>2, <1>3, <2>3, <3>3, <4>1 DEF Rank
    <3> QED BY <3>2, <3>3, LevelNumbers
  <2>4. CASE l = j /\ m = j /\ a = f /\ b = f
    BY <1>3, <2>4, LevelNumbers DEF Rank
  <2> QED BY <1>1, <2>1, <2>2, <2>3, <2>4
<1>4. ASSUME NEW l \in Levels \ {0}, NEW a \in w[l], NEW b \in w[l], a # b
      PROVE  Apart(T[a], T[b]) \/ (tw /\ T[a] = T[b])
  <2>1. CASE a \in v[l] /\ b \in v[l]
    BY <1>4, <2>1 DEF Good
  <2>2. ASSUME l = j, NEW n \in v[l] PROVE (Apart(T[n], E) /\ Apart(E, T[n])) \/ (tw /\ T[n] = E)
    <3>1. j > 0 /\ l <= j
      BY <2>2, LevelNumbers
    <3>2. Apart(E, T[n]) \/ (tw /\ T[n] = E)
      BY <2>2, <3>1 DEF WhereNew
    <3> QED BY <1>2, <3>2, EntryIs DEF Apart
  <2>3. CASE l = j /\ a = f /\ b \in v[l]
    BY <2>2, <2>3
  <2>4. CASE l = j /\ b = f /\ a \in v[l]
    BY <2>2, <2>4
  <2> QED BY <1>1, <1>4, <2>1, <2>3, <2>4
<1> QED BY <1>3, <1>4 DEF Good, w

-----------------------------------------------------------------------------
(* A flush, and the tables built of logs *)

\* A version with more tables stores what it stored and what they hold.
LEMMA StoredMore ==
    ASSUME NEW T, NEW v \in Versions, NEW j \in Levels, NEW N \in SUBSET Nat
    PROVE  /\ WithTables(v, j, N) \in Versions /\ Files(WithTables(v, j, N)) = Files(v) \cup N
           /\ Stored(T, WithTables(v, j, N)) = Stored(T, v) \cup Holds(T, N)
<1> DEFINE w == WithTables(v, j, N)
<1>1. w \in Versions /\ Files(w) = Files(v) \cup N
  <2> DEFINE e == [del |-> {}, add |-> Pairs(j, N)]
  <2>1. e.del = {} /\ e.add = Pairs(j, N)
    OBVIOUS
  <2> HIDE DEF e
  <2> QED BY <2>1, EditedAdds
<1> HIDE DEF w
<1>2. \A e \in Stored(T, w) : e \in Stored(T, v) \cup Holds(T, N)
  <2> SUFFICES ASSUME NEW e \in Stored(T, w) PROVE e \in Stored(T, v) \cup Holds(T, N)
    OBVIOUS
  <2>1. PICK n \in Files(w) : e \in T[n]
    BY StoredIs
  <2> QED BY <1>1, <2>1, StoredIs, HoldsIs
<1>3. \A e \in Stored(T, v) \cup Holds(T, N) : e \in Stored(T, w)
  <2> SUFFICES ASSUME NEW e \in Stored(T, v) \cup Holds(T, N) PROVE e \in Stored(T, w)
    OBVIOUS
  <2>1. PICK n \in Files(w) : e \in T[n]
    BY <1>1, StoredIs, HoldsIs
  <2> QED BY <2>1, StoredIs
<1>4. Stored(T, w) = Stored(T, v) \cup Holds(T, N)
  BY <1>2, <1>3
<1> QED BY <1>1, <1>4 DEF w

\* What a single table holds.
LEMMA HoldsOne ==
    ASSUME NEW T, NEW f
    PROVE  Holds(T, {f}) = T[f]
<1>1. \A e \in Holds(T, {f}) : e \in T[f]
  BY HoldsIs
<1>2. \A e \in T[f] : e \in Holds(T, {f})
  BY HoldsIs
<1> QED BY <1>1, <1>2

\* A flush: from log m on the version with the memtable's table is consistent.
LEMMA ConsistentFlush ==
    ASSUME NEW T, NEW G, NEW H, NEW v \in Versions, NEW last \in Nat, NEW next \in Nat,
           NEW im \in DOMAIN G, NEW m \in DOMAIN G, NEW tw, NEW j \in Levels, NEW f \in Nat, NEW E,
           H \subseteq Entry, DOMAIN G \subseteq Nat, last <= next,
           Consistent(T, G, H, v, last, im, tw), WhereNew(T, v, j, f, E, tw),
           T[f] = E, E # {}, G[im] = E, im < m, \A n \in DOMAIN G : n >= im => n = im \/ n = m,
           \A h \in H : h.seq <= next \/ h \in G[m]
    PROVE  Consistent(T, G, H, WithTables(v, j, {f}), next, m, tw)
<1> DEFINE w == WithTables(v, j, {f})
<1>1. w \in Versions /\ Files(w) = Files(v) \cup {f} /\ Stored(T, w) = Stored(T, v) \cup E
  <2>1. {f} \in SUBSET Nat
    OBVIOUS
  <2> HIDE DEF w
  <2>2. w \in Versions /\ Files(w) = Files(v) \cup {f} /\ Stored(T, w) = Stored(T, v) \cup Holds(T, {f})
    BY <2>1, StoredMore DEF w
  <2> QED BY <2>2, HoldsOne
<1>2. Replay(G, m) = G[m]
  <2>1. \A e \in Replay(G, m) : e \in G[m]
    <3> SUFFICES ASSUME NEW e \in Replay(G, m) PROVE e \in G[m]
      OBVIOUS
    <3>1. PICK n \in DOMAIN G : n >= m /\ e \in G[n]
      BY ReplayIs
    <3>2. n = m
      BY <3>1
    <3> QED BY <3>1, <3>2
  <2>2. \A e \in G[m] : e \in Replay(G, m)
    BY ReplayIs
  <2> QED BY <2>1, <2>2
<1>3. Replay(G, im) = E \cup G[m]
  <2>1. \A e \in Replay(G, im) : e \in E \cup G[m]
    BY ReplayIs
  <2>2. \A e \in E \cup G[m] : e \in Replay(G, im)
    BY ReplayIs
  <2> QED BY <2>1, <2>2
<1>4. E \subseteq H /\ G[m] \subseteq H /\ Stored(T, v) \subseteq H
  BY <1>3 DEF Consistent, Inside
<1>5. Older(E, G[m]) /\ Older(H \ (E \cup G[m]), E \cup G[m])
  <2>1. Follows(T, G, H, v, im, tw)
    BY DEF Consistent
  <2>2. im <= im /\ im < m
    OBVIOUS
  <2>3. Older(G[im], G[m])
    BY <2>1, <2>2 DEF Follows
  <2>4. Older(H \ Replay(G, im), Replay(G, im))
    BY <2>1 DEF Follows
  <2> QED BY <1>3, <2>3, <2>4
<1>6. Inside(T, H, w, next)
  <2>1. \A e \in Stored(T, v) : e.seq <= next
    <3>1. \A e \in Stored(T, v) : e.seq <= last /\ e.seq \in Nat
      BY <1>4, EntryIs DEF Consistent, Inside
    <3> QED BY <3>1
  <2>2. \A e \in E : e.seq <= next
    <3> SUFFICES ASSUME NEW e \in E, e \in G[m] PROVE FALSE
      BY <1>4
    <3>1. e.seq < e.seq /\ e.seq \in Nat
      BY <1>4, <1>5, EntryIs DEF Older
    <3> QED BY <3>1
  <2>3. \A n \in Files(v) : T[n] # {}
    BY DEF Consistent, Inside
  <2> QED BY <1>1, <1>4, <2>1, <2>2, <2>3 DEF Inside
<1>7. Follows(T, G, H, w, m, tw)
  <2>1. Follows(T, G, H, v, im, tw)
    BY DEF Consistent
  <2>2. ASSUME NEW a \in DOMAIN G, NEW b \in DOMAIN G, m <= a, a < b PROVE Older(G[a], G[b])
    <3>1. im <= a
      BY <2>2
    <3> QED BY <2>1, <2>2, <3>1 DEF Follows
  <2>3. ASSUME NEW a \in DOMAIN G, NEW t \in Files(w), m <= a PROVE Older(T[t], G[a]) \/ (tw /\ T[t] = G[a])
    <3>1. a = m /\ im <= m
      BY <2>3
    <3>2. CASE t \in Files(v)
      BY <2>1, <3>1, <3>2 DEF Follows
    <3>3. CASE t = f
      BY <1>5, <3>1, <3>3
    <3> QED BY <1>1, <3>2, <3>3
  <2>4. Older(H \ G[m], G[m])
    BY <1>5 DEF Older
  <2> QED BY <1>2, <2>2, <2>3, <2>4 DEF Follows
<1>8. Good(T, w, tw)
  <2>1. \A n \in Files(v) : T[n] \subseteq Entry
    BY <1>4, StoredIs
  <2>2. E \subseteq Entry
    BY <1>4
  <2>3. Good(T, v, tw)
    BY DEF Consistent
  <2> QED BY <2>1, <2>2, <2>3, GoodFlush
<1>9. Complete(Stored(T, w), H \ G[m])
  <2> DEFINE A == Stored(T, v)
             J == H \ (E \cup G[m])
             L == H \ G[m]
  <2>1. Complete(A, J)
    BY <1>3 DEF Consistent
  <2>2. /\ Older(J, E) /\ J \subseteq L /\ L \subseteq J \cup E
        /\ A \subseteq Entry /\ J \subseteq Entry /\ E \subseteq Entry
    BY <1>4, <1>5 DEF Older
  <2> HIDE DEF A, J, L
  <2>3. Complete(A \cup E, L)
    BY <2>1, <2>2, CompleteNewer
  <2> QED BY <1>1, <2>3 DEF A, L
<1> QED BY <1>2, <1>4, <1>6, <1>7, <1>8, <1>9 DEF Consistent

\* The tables R hold what the logs gave, each a log, on top of version v.
Rebuilt(T, R, v, E, tw) ==
    /\ Holds(T, R) = E
    /\ \A r \in R : T[r] # {}
    /\ \A r, s \in R : r < s => Older(T[r], T[s])
    /\ \A r \in R, t \in Files(v) : t < r /\ (Older(T[t], T[r]) \/ (tw /\ T[t] = T[r]))

\* With the tables RecoverLogFile built at level 0 the order stays.
LEMMA GoodRecovered ==
    ASSUME NEW T, NEW v \in Versions, NEW R \in SUBSET Nat, NEW E, E \subseteq Entry, NEW tw,
           \A n \in Files(v) : T[n] \subseteq Entry,
           Good(T, v, tw), Rebuilt(T, R, v, E, tw)
    PROVE  Good(T, WithTables(v, 0, R), tw)
<1> DEFINE w == WithTables(v, 0, R)
<1>1. \A i \in Levels : \A n \in w[i] : n \in v[i] \/ (i = 0 /\ n \in R)
  BY DEF WithTables
<1>2. \A i \in Levels : \A n \in v[i] : T[n] \subseteq Entry /\ n \in Nat /\ n \in Files(v)
  BY InFiles
<1>3. \A r \in R : T[r] \subseteq Entry /\ r \in Nat
  BY HoldsIs DEF Rebuilt
<1> HIDE DEF w
<1>4. ASSUME NEW l \in Levels, NEW m \in Levels, NEW a \in w[l], NEW b \in w[m], Rank(l, a) < Rank(m, b)
      PROVE  Covers(T[a], T[b])
  <2>1. CASE a \in v[l] /\ b \in v[m]
    BY <1>4, <2>1 DEF Good
  <2>2. CASE l = 0 /\ a \in R /\ b \in v[m]
    <3>1. Older(T[b], T[a]) \/ T[b] = T[a]
      BY <1>2, <2>2 DEF Rebuilt
    <3> QED BY <1>2, <1>3, <2>2, <3>1, CoversOlder
  <2>3. CASE m = 0 /\ b \in R /\ a \in v[l]
    <3>1. a < b /\ a \in Nat /\ b \in Nat
      BY <1>2, <1>3, <2>3 DEF Rebuilt
    <3> QED BY <1>4, <2>3, <3>1, LevelNumbers DEF Rank
  <2>4. CASE l = 0 /\ m = 0 /\ a \in R /\ b \in R
    <3>1. b < a
      BY <1>3, <1>4, <2>4 DEF Rank
    <3>2. Older(T[b], T[a])
      BY <2>4, <3>1 DEF Rebuilt
    <3> QED BY <1>3, <2>4, <3>2, CoversOlder
  <2> QED BY <1>1, <2>1, <2>2, <2>3, <2>4
<1>5. ASSUME NEW l \in Levels \ {0}, NEW a \in w[l], NEW b \in w[l], a # b
      PROVE  Apart(T[a], T[b]) \/ (tw /\ T[a] = T[b])
  <2>1. a \in v[l] /\ b \in v[l]
    BY <1>1, <1>5
  <2> QED BY <1>5, <2>1 DEF Good
<1> QED BY <1>4, <1>5 DEF Good, w

\* The version Open writes gives, without the old logs, what the old one gave with them.
LEMMA ConsistentRecovered ==
    ASSUME NEW T, NEW G, NEW H, NEW v \in Versions, NEW last \in Nat, NEW next \in Nat,
           NEW ln \in Nat, NEW m \in DOMAIN G, NEW tw, NEW R \in SUBSET Nat,
           H \subseteq Entry, DOMAIN G \subseteq Nat, last <= next,
           Consistent(T, G, H, v, last, ln, tw), Rebuilt(T, R, v, Replay(G, ln), tw),
           G[m] = {}, \A n \in DOMAIN G : n <= m, \A h \in H : h.seq <= next
    PROVE  Consistent(T, G, H, WithTables(v, 0, R), next, m, tw)
<1> DEFINE w == WithTables(v, 0, R)
           E == Replay(G, ln)
<1>1. w \in Versions /\ Files(w) = Files(v) \cup R /\ Stored(T, w) = Stored(T, v) \cup E
  <2> HIDE DEF w, E
  <2>1. w \in Versions /\ Files(w) = Files(v) \cup R /\ Stored(T, w) = Stored(T, v) \cup Holds(T, R)
    BY StoredMore, LevelNumbers DEF w
  <2>2. Holds(T, R) = E
    BY DEF Rebuilt, E
  <2> QED BY <2>1, <2>2
<1>2. Replay(G, m) = {}
  <2> SUFFICES ASSUME NEW e \in Replay(G, m) PROVE FALSE
    OBVIOUS
  <2>1. PICK n \in DOMAIN G : n >= m /\ e \in G[n]
    BY ReplayIs
  <2>2. n = m
    BY <2>1
  <2> QED BY <2>1, <2>2
<1>3. E \subseteq H /\ Stored(T, v) \subseteq H /\ Older(H \ E, E)
  BY DEF Consistent, Inside, Follows
<1> HIDE DEF E, w
<1>4. Inside(T, H, w, next)
  <2>1. \A n \in Files(w) : T[n] # {}
    BY <1>1 DEF Consistent, Inside, Rebuilt
  <2> QED BY <1>1, <1>3, <2>1 DEF Inside
<1>5. Follows(T, G, H, w, m, tw)
  <2>1. ASSUME NEW a \in DOMAIN G, m <= a PROVE a = m
    BY <2>1
  <2>2. ASSUME NEW a \in DOMAIN G, NEW b \in DOMAIN G, m <= a, a < b PROVE FALSE
    <3>1. a = m /\ b <= m
      BY <2>1, <2>2
    <3> QED BY <2>2, <3>1
  <2>3. \A a \in DOMAIN G, t \in Files(w) : m <= a => Older(T[t], G[a])
    BY <2>1 DEF Older
  <2>4. Older(H \ Replay(G, m), Replay(G, m))
    BY <1>2 DEF Older
  <2> QED BY <2>2, <2>3, <2>4 DEF Follows
<1>6. Good(T, w, tw)
  <2>1. \A n \in Files(v) : T[n] \subseteq Entry
    BY <1>3, StoredIs
  <2>2. E \subseteq Entry
    BY <1>3
  <2>3. Good(T, v, tw)
    BY DEF Consistent
  <2> QED BY <2>1, <2>2, <2>3, GoodRecovered DEF E, w
<1>7. Complete(Stored(T, w), H)
  <2> DEFINE A == Stored(T, v)
             J == H \ E
  <2>1. Complete(A, J)
    BY DEF Consistent, E
  <2>2. /\ Older(J, E) /\ J \subseteq H /\ H \subseteq J \cup E
        /\ A \subseteq Entry /\ J \subseteq Entry /\ E \subseteq Entry
    BY <1>3
  <2> HIDE DEF A, J
  <2>3. Complete(A \cup E, H)
    BY <2>1, <2>2, CompleteNewer
  <2> QED BY <1>1, <2>3 DEF A
<1>8. H \ Replay(G, m) = H
  BY <1>2
<1> QED BY <1>2, <1>4, <1>5, <1>6, <1>7, <1>8 DEF Consistent, w

-----------------------------------------------------------------------------
(* A write, and a power cut *)

\* What is older is not the same.
LEMMA OlderApart ==
    ASSUME NEW A, NEW B, A \subseteq Entry, B \subseteq Entry, Older(A, B)
    PROVE  \A e \in A : e \notin B
BY EntryIs DEF Older

\* A write: the newest log gets the entries N.
LEMMA ConsistentWrite ==
    ASSUME NEW T, NEW G, NEW K, NEW H, NEW N, NEW v, NEW last, NEW ln \in Nat, NEW m \in DOMAIN G, NEW tw,
           H \subseteq Entry, N \subseteq Entry, DOMAIN G \subseteq Nat,
           DOMAIN K = DOMAIN G, K[m] = G[m] \cup N, \A n \in DOMAIN G : n # m => K[n] = G[n],
           ln <= m, \A n \in DOMAIN G : n >= ln => n <= m,
           Older(H, N), Older(Stored(T, v), G[m]),
           Consistent(T, G, H, v, last, ln, tw)
    PROVE  Consistent(T, K, H \cup N, v, last, ln, tw)
<1> DEFINE P == Replay(G, ln)
           Q == Replay(K, ln)
           J == H \cup N
<1>1. Q = P \cup N
  <2>1. \A e \in Q : e \in P \cup N
    BY ReplayIs
  <2>2. \A e \in P : e \in Q
    BY ReplayIs
  <2>3. \A e \in N : e \in Q
    BY ReplayIs
  <2> QED BY <2>1, <2>2, <2>3
<1>2. \A h \in H : h \notin N
  BY OlderApart
<1>3. P \subseteq H /\ Stored(T, v) \subseteq H
  BY DEF Consistent, Inside
<1>4. J \ Q = H \ P
  BY <1>1, <1>2, <1>3
<1>5. Follows(T, G, H, v, ln, tw)
  BY DEF Consistent
<1> HIDE DEF P, Q, J
<1>6. \A n \in DOMAIN G : n >= ln => G[n] \subseteq H
  BY <1>3, ReplayIs DEF P
<1>7. Follows(T, K, J, v, ln, tw)
  <2>1. ASSUME NEW a \in DOMAIN K, NEW b \in DOMAIN K, ln <= a, a < b PROVE Older(K[a], K[b])
    <3>1. a \in Nat /\ b \in Nat /\ b <= m /\ a # m /\ a >= ln
      BY <2>1
    <3>2. K[a] = G[a] /\ Older(G[a], G[b]) /\ G[a] \subseteq H
      BY <1>5, <1>6, <2>1, <3>1 DEF Follows
    <3>3. CASE b = m
      BY <3>2, <3>3 DEF Older
    <3>4. CASE b # m
      BY <3>2, <3>4
    <3> QED BY <3>3, <3>4
  <2>2. ASSUME NEW a \in DOMAIN K, NEW t \in Files(v), ln <= a PROVE Older(T[t], K[a]) \/ (tw /\ T[t] = K[a])
    <3>1. CASE a = m
      <4>1. T[t] \subseteq Stored(T, v)
        BY StoredIs
      <4>2. K[a] = G[m] \cup N
        BY <3>1
      <4> QED BY <1>3, <4>1, <4>2 DEF Older
    <3>2. CASE a # m
      BY <1>5, <2>2, <3>2 DEF Follows
    <3> QED BY <3>1, <3>2
  <2>3. Older(H \ P, P)
    BY <1>5 DEF Follows, P
  <2>4. Older(J \ Q, Q)
    BY <1>1, <1>4, <2>3 DEF Older
  <2> QED BY <2>1, <2>2, <2>4 DEF Follows, Q
<1>8. Q \subseteq J /\ Inside(T, J, v, last) /\ (\A h \in J : h.seq <= last \/ h \in Q)
  <2>1. Inside(T, H, v, last) /\ \A h \in H : h.seq <= last \/ h \in P
    BY DEF Consistent, P
  <2> QED BY <1>1, <1>3, <2>1 DEF Inside, J
<1>9. Good(T, v, tw) /\ Complete(Stored(T, v), J \ Q)
  BY <1>4 DEF Consistent, P
<1> QED BY <1>7, <1>8, <1>9 DEF Consistent, J, Q

\* A power cut: from each log that is replayed the entries at its end go, none
\* of which a table holds.
LEMMA ConsistentCut ==
    ASSUME NEW T, NEW G, NEW K, NEW H, NEW v, NEW last, NEW ln \in Nat, NEW tw, NEW gone,
           H \subseteq Entry, DOMAIN G \subseteq Nat, DOMAIN K = DOMAIN G,
           \A n \in DOMAIN G : K[n] \subseteq G[n],
           \A e : e \in gone <=> \E n \in DOMAIN G : n >= ln /\ e \in G[n] /\ e \notin K[n],
           gone \cap Stored(T, v) = {},
           Consistent(T, G, H, v, last, ln, tw)
    PROVE  Consistent(T, K, H \ gone, v, last, ln, tw)
<1> DEFINE P == Replay(G, ln)
           Q == Replay(K, ln)
           J == H \ gone
<1>1. Follows(T, G, H, v, ln, tw) /\ P \subseteq H /\ Inside(T, H, v, last)
  BY DEF Consistent
<1>2. \A n \in DOMAIN G : n >= ln => G[n] \subseteq H
  BY <1>1, ReplayIs
<1>3. \A e \in Q : e \in P /\ e \notin gone
  <2> SUFFICES ASSUME NEW e \in Q PROVE e \in P /\ e \notin gone
    OBVIOUS
  <2>1. PICK n \in DOMAIN G : n >= ln /\ e \in K[n]
    BY ReplayIs
  <2>2. e \in P
    BY <2>1, ReplayIs
  <2>3. ASSUME e \in gone PROVE FALSE
    <3>1. PICK a \in DOMAIN G : a >= ln /\ e \in G[a] /\ e \notin K[a]
      BY <2>3
    <3>2. a # n /\ e \in G[n] /\ e \in Entry /\ a \in Nat /\ n \in Nat
      BY <1>2, <2>1, <3>1
    <3>3. Older(G[a], G[n]) \/ Older(G[n], G[a])
      <4>1. CASE a < n
        BY <1>1, <3>1, <3>2, <2>1, <4>1 DEF Follows
      <4>2. CASE n < a
        BY <1>1, <3>1, <3>2, <2>1, <4>2 DEF Follows
      <4> QED BY <3>2, <4>1, <4>2
    <3>4. e.seq < e.seq
      BY <3>1, <3>2, <3>3 DEF Older
    <3> QED BY <3>2, <3>4, EntryIs
  <2> QED BY <2>2, <2>3
<1>4. \A e \in P : e \in Q \/ e \in gone
  BY ReplayIs
<1>5. J \ Q = H \ P
  <2>1. \A e \in gone : e \in P
    BY ReplayIs
  <2> QED BY <1>3, <1>4, <2>1
<1>6. Q \subseteq J
  BY <1>1, <1>3
<1> HIDE DEF P, Q, J
<1>7. Follows(T, K, J, v, ln, tw)
  <2>1. ASSUME NEW a \in DOMAIN K, NEW b \in DOMAIN K, ln <= a, a < b PROVE Older(K[a], K[b])
    <3>1. Older(G[a], G[b])
      BY <1>1, <2>1 DEF Follows
    <3>2. K[a] \subseteq G[a] /\ K[b] \subseteq G[b]
      OBVIOUS
    <3> QED BY <3>1, <3>2 DEF Older
  <2>2. ASSUME NEW a \in DOMAIN K, NEW t \in Files(v), ln <= a PROVE Older(T[t], K[a]) \/ (tw /\ T[t] = K[a])
    <3>1. K[a] \subseteq G[a]
      OBVIOUS
    <3>2. CASE Older(T[t], G[a])
      BY <3>1, <3>2 DEF Older
    <3>3. CASE tw /\ T[t] = G[a]
      <4>1. \A e \in G[a] : e \in Stored(T, v)
        BY <3>3, StoredIs
      <4>2. \A e \in G[a] : e \notin gone
        BY <4>1
      <4>3. \A e \in G[a] : e \in K[a]
        BY <2>2, <4>2
      <4>4. K[a] = G[a]
        BY <3>1, <4>3
      <4> QED BY <3>3, <4>4
    <3>4. Older(T[t], G[a]) \/ (tw /\ T[t] = G[a])
      BY <1>1, <2>2 DEF Follows
    <3> QED BY <3>2, <3>3, <3>4
  <2>3. Older(H \ P, P)
    BY <1>1 DEF Follows, P
  <2>4. Older(J \ Q, Q)
    BY <1>3, <1>5, <2>3 DEF Older
  <2> QED BY <2>1, <2>2, <2>4 DEF Follows, Q
<1>8. Inside(T, J, v, last) /\ (\A h \in J : h.seq <= last \/ h \in Q)
  <2>1. \A h \in H : h.seq <= last \/ h \in P
    BY DEF Consistent, P
  <2>2. \A h \in J : h \in H /\ h \notin gone
    BY DEF J
  <2>3. \A h \in J : h.seq <= last \/ h \in Q
    BY <1>4, <2>1, <2>2
  <2>4. Stored(T, v) \subseteq J
    BY <1>1 DEF Inside, J
  <2>5. Inside(T, J, v, last)
    BY <1>1, <2>4 DEF Inside
  <2> QED BY <2>3, <2>5
<1>9. Good(T, v, tw) /\ Complete(Stored(T, v), J \ Q)
  BY <1>5 DEF Consistent, P
<1> QED BY <1>6, <1>7, <1>8, <1>9 DEF Consistent, J, Q

-----------------------------------------------------------------------------
(* What makes a compaction safe to install *)

\* What a compaction reads, and what makes it safe to install in version v.
In(T, c) == Holds(T, c.in0 \cup c.in1)
SpansKey(A, k) == (\E x \in A : x.key <= k) /\ (\E y \in A : k <= y.key)
Connected(T, c) ==
    \A e, f \in In(T, c), k \in Int : e.key <= k /\ k <= f.key => \E n \in c.in0 \cup c.in1 : SpansKey(T[n], k)
CompFits(T, c, v) ==
    /\ c.in0 \subseteq v[c.level] /\ c.in1 \subseteq v[c.level + 1]
    /\ c.level = 0 => \A x \in v[0] \ c.in0, n \in c.in0 : x < n => Apart(T[x], T[n])
    /\ \A m \in v[c.level + 1] \ c.in1 : Apart(T[m], In(T, c))
    /\ \A j \in Levels : j >= c.level + 2 => \A n \in v[j] : n \in c.version[j] \/ Apart(T[n], In(T, c))
Deep(T, c, k) == \E j \in Levels : j >= c.level + 2 /\ \E n \in c.version[j] : SpansKey(T[n], k)

\* The outputs tell of every key what the inputs told of it.
NewestIn(T, c, f) == f \in In(T, c) /\ \A g \in In(T, c) : g.key = f.key => g.seq <= f.seq
Telling(T, c, O) ==
    /\ \A o \in O : T[o] # {} /\ T[o] \subseteq In(T, c)
    /\ \A o \in O : \A e \in T[o] : \E f \in T[o] : f.key = e.key /\ NewestIn(T, c, f)
    /\ \A a, b \in O : a # b => Apart(T[a], T[b])
    /\ \A f \in In(T, c) : \/ \E o \in O : \E e \in T[o] : e.key = f.key
                           \/ \E d \in In(T, c) : /\ d.key = f.key /\ d.del /\ NewestIn(T, c, d)
                                                  /\ ~Deep(T, c, f.key)

\* Levels are numbers.
LEMMA LevelOf ==
    ASSUME NEW i \in Levels
    PROVE  i \in Nat /\ i # i + 1 /\ i >= 0
BY LevelNumbers

\* What a compaction reads, table by table.
LEMMA InIs ==
    ASSUME NEW T, NEW c
    PROVE  /\ \A e \in In(T, c) : \E n \in c.in0 \cup c.in1 : e \in T[n]
           /\ \A n \in c.in0 \cup c.in1 : T[n] \subseteq In(T, c)
BY DEF In, Holds

\* Where the tables of the version after a compaction come from.
LEMMA OutputsAt ==
    ASSUME NEW v \in Versions, NEW c \in CompRecord, c.level \in Levels
    PROVE  \A i \in Levels : \A n \in WithOutputs(v, c)[i] :
              \/ n \in v[i] /\ (i = c.level => n \notin c.in0) /\ (i = c.level + 1 => n \notin c.in1)
              \/ i = c.level + 1 /\ n \in Outs(c)
<1> SUFFICES ASSUME NEW i \in Levels, NEW n \in WithOutputs(v, c)[i]
             PROVE  \/ n \in v[i] /\ (i = c.level => n \notin c.in0) /\ (i = c.level + 1 => n \notin c.in1)
                    \/ i = c.level + 1 /\ n \in Outs(c)
  OBVIOUS
<1>1. n \in IF i = c.level THEN v[i] \ c.in0
            ELSE IF i = c.level + 1 THEN (v[i] \ c.in1) \cup Outs(c) ELSE v[i]
  BY DEF WithOutputs
<1>2. c.level # c.level + 1
  BY LevelOf
<1> QED BY <1>1, <1>2

\* A table that was no input is still there.
LEMMA OutputsKeep ==
    ASSUME NEW v \in Versions, NEW c \in CompRecord, c.level \in Levels, NEW i \in Levels, NEW n \in v[i],
           i = c.level => n \notin c.in0, i = c.level + 1 => n \notin c.in1
    PROVE  n \in WithOutputs(v, c)[i]
BY LevelNumbers DEF WithOutputs

\* The outputs are one level down.
LEMMA OutputsNew ==
    ASSUME NEW v \in Versions, NEW c \in CompRecord, c.level \in Levels, c.level + 1 \in Levels, NEW n \in Outs(c)
    PROVE  n \in WithOutputs(v, c)[c.level + 1]
<1>1. c.level + 1 # c.level
  BY LevelOf
<1> QED BY <1>1 DEF WithOutputs

\* What is looked at before an input covers it, whatever the compaction.
LEMMA AboveInputs ==
    ASSUME NEW T, NEW v \in Versions, NEW c \in CompRecord, NEW tw,
           c.level \in Levels, c.level + 1 \in Levels,
           \A n \in Files(v) : T[n] \subseteq Entry, Good(T, v, tw), CompFits(T, c, v),
           NEW i \in Levels, i <= c.level, NEW a \in v[i], i = c.level => a \notin c.in0
    PROVE  Covers(T[a], In(T, c))
<1>1. \A l \in Levels : \A n \in v[l] : T[n] \subseteq Entry /\ n \in Nat
  BY InFiles
<1>2. c.in0 \subseteq v[c.level] /\ c.in1 \subseteq v[c.level + 1]
  BY DEF CompFits
<1>3. ASSUME NEW n \in c.in0 \cup c.in1 PROVE Covers(T[a], T[n])
  <2>0. i \in Nat /\ c.level \in Nat /\ a \in Nat
    BY <1>1, LevelOf
  <2>1. CASE n \in c.in1
    <3>1. Rank(i, a) < Rank(c.level + 1, n)
      BY <2>0 DEF Rank
    <3>2. n \in v[c.level + 1]
      BY <1>2, <2>1
    <3> QED BY <3>1, <3>2 DEF Good
  <2>2. CASE n \in c.in0 /\ Rank(i, a) < Rank(c.level, n)
    BY <1>2, <2>2 DEF Good
  <2>3. CASE n \in c.in0 /\ ~(Rank(i, a) < Rank(c.level, n))
    <3>1. i = c.level
      <4>1. n \in Nat
        BY <1>1, <1>2, <2>3
      <4> QED BY <2>0, <2>3, <4>1 DEF Rank
    <3>2. a # n /\ n \in v[c.level] /\ a \in v[c.level]
      BY <1>2, <2>3, <3>1
    <3>3. CASE c.level = 0
      <4>1. a < n
        BY <1>1, <2>3, <3>1, <3>2, <3>3 DEF Rank
      <4>2. Apart(T[a], T[n])
        BY <2>3, <3>1, <3>2, <3>3, <4>1 DEF CompFits
      <4> QED BY <1>1, <3>2, <4>2, CoversApart
    <3>4. CASE c.level # 0
      <4>1. Apart(T[a], T[n]) \/ T[a] = T[n]
        BY <3>2, <3>4 DEF Good
      <4> QED BY <1>1, <3>2, <4>1, CoversApart
    <3> QED BY <3>3, <3>4
  <2> QED BY <2>1, <2>2, <2>3
<1>4. ASSUME NEW e \in In(T, c), \E x \in T[a] : x.key = e.key
      PROVE  \E x \in T[a] : x.key = e.key /\ x.seq >= e.seq
  <2>1. PICK n \in c.in0 \cup c.in1 : e \in T[n]
    BY InIs
  <2> QED BY <1>3, <1>4, <2>1 DEF Covers
<1> QED BY <1>4 DEF Covers

\* What is deeper is covered by the inputs, or away from them.
LEMMA BelowInputs ==
    ASSUME NEW T, NEW v \in Versions, NEW c \in CompRecord, NEW tw,
           c.level \in Levels, c.level + 1 \in Levels,
           \A n \in Files(v) : T[n] \subseteq Entry, Good(T, v, tw), CompFits(T, c, v),
           NEW i \in Levels, i >= c.level + 2, NEW b \in v[i], NEW e \in T[b],
           NEW f \in In(T, c), f.key = e.key
    PROVE  \E x \in In(T, c) : x.key = e.key /\ x.seq >= e.seq
<1>1. \A l \in Levels : \A n \in v[l] : T[n] \subseteq Entry /\ n \in Nat
  BY InFiles
<1>2. c.in0 \subseteq v[c.level] /\ c.in1 \subseteq v[c.level + 1]
  BY DEF CompFits
<1>3. PICK n \in c.in0 \cup c.in1 : f \in T[n]
  BY InIs
<1>4. \E l \in Levels : n \in v[l] /\ l < i
  <2>1. i \in Nat /\ c.level \in Nat
    BY LevelOf
  <2>2. c.level < i /\ c.level + 1 < i
    BY <2>1
  <2> QED BY <1>2, <2>2
<1>5. PICK l \in Levels : n \in v[l] /\ l < i
  BY <1>4
<1>6. Rank(l, n) < Rank(i, b)
  BY <1>1, <1>5, LevelNumbers DEF Rank
<1>7. Covers(T[n], T[b])
  BY <1>5, <1>6 DEF Good
<1> QED BY <1>3, <1>7, InIs DEF Covers

\* With the outputs in place of the inputs the order stays.
LEMMA GoodOutputs ==
    ASSUME NEW T, NEW v \in Versions, NEW c \in CompRecord, NEW tw,
           c.level \in Levels, c.level + 1 \in Levels,
           \A n \in Files(v) : T[n] \subseteq Entry, Good(T, v, tw), CompFits(T, c, v), Telling(T, c, Outs(c))
    PROVE  Good(T, WithOutputs(v, c), tw)
<1> DEFINE w == WithOutputs(v, c)
           O == Outs(c)
<1>1. \A l \in Levels : \A n \in v[l] : T[n] \subseteq Entry /\ n \in Nat
  BY InFiles
<1>2. c.in0 \subseteq v[c.level] /\ c.in1 \subseteq v[c.level + 1]
  BY DEF CompFits
<1>3. In(T, c) \subseteq Entry
  BY <1>1, <1>2, InIs
<1>4. \A o \in O : T[o] \subseteq Entry /\ T[o] \subseteq In(T, c)
  BY <1>3 DEF Telling
<1>5. \A i \in Levels : \A n \in w[i] :
         \/ n \in v[i] /\ (i = c.level => n \notin c.in0) /\ (i = c.level + 1 => n \notin c.in1)
         \/ i = c.level + 1 /\ n \in O
  BY OutputsAt
<1> HIDE DEF w, O
<1>6. ASSUME NEW l \in Levels, NEW m \in Levels, NEW a \in w[l], NEW b \in w[m], Rank(l, a) < Rank(m, b)
      PROVE  Covers(T[a], T[b])
  <2>1. CASE a \in v[l] /\ b \in v[m]
    BY <1>6, <2>1 DEF Good
  <2>2. CASE a \in v[l] /\ a \notin O /\ m = c.level + 1 /\ b \in O
    <3>1. l <= c.level
      <4>1. l \in Nat /\ m \in Nat /\ c.level \in Nat
        BY LevelOf
      <4>2. a \in Nat
        BY <1>1, <2>2
      <4> QED BY <1>6, <2>2, <4>1, <4>2 DEF Rank
    <3>2. l = c.level => a \notin c.in0
      BY <1>5, <2>2
    <3>3. Covers(T[a], In(T, c))
      BY <2>2, <3>1, <3>2, AboveInputs
    <3> QED BY <1>4, <2>2, <3>3 DEF Covers
  <2>3. CASE l = c.level + 1 /\ a \in O /\ b \in v[m]
    <3>1. l > 0 /\ m >= c.level + 2
      <4>1. l \in Nat /\ m \in Nat /\ c.level \in Nat
        BY LevelOf
      <4>2. b \in Nat
        BY <1>1, <2>3
      <4> QED BY <1>6, <2>3, <4>1, <4>2 DEF Rank
    <3>2. ASSUME NEW e \in T[b], NEW x \in T[a], x.key = e.key
          PROVE  \E y \in T[a] : y.key = e.key /\ y.seq >= e.seq
      <4>1. x \in In(T, c)
        BY <1>4, <2>3
      <4>2. PICK g \in In(T, c) : g.key = e.key /\ g.seq >= e.seq
        BY <2>3, <3>1, <3>2, <4>1, BelowInputs
      <4>3. PICK y \in T[a] : y.key = x.key /\ NewestIn(T, c, y)
        BY <2>3 DEF Telling, O
      <4>4. g.seq <= y.seq
        BY <3>2, <4>2, <4>3 DEF NewestIn
      <4>5. y.seq >= e.seq
        BY <1>1, <1>3, <2>3, <4>1, <4>2, <4>3, <4>4, EntryIs DEF NewestIn
      <4> QED BY <3>2, <4>3, <4>5
    <3> QED BY <3>2 DEF Covers
  <2>4. CASE l = c.level + 1 /\ a \in O /\ m = c.level + 1 /\ b \in O
    BY <1>6, <2>4, LevelNumbers DEF Rank
  <2>5. CASE a \in v[l] /\ a \in O /\ m = c.level + 1 /\ b \in O /\ ~(l = c.level + 1)
    <3>1. l <= c.level
      <4>1. l \in Nat /\ m \in Nat /\ c.level \in Nat
        BY LevelOf
      <4>2. a \in Nat
        BY <1>1, <2>5
      <4> QED BY <1>6, <2>5, <4>1, <4>2 DEF Rank
    <3>2. l = c.level => a \notin c.in0
      BY <1>5, <2>5
    <3>3. Covers(T[a], In(T, c))
      BY <2>5, <3>1, <3>2, AboveInputs
    <3> QED BY <1>4, <2>5, <3>3 DEF Covers
  <2> QED BY <1>5, <2>1, <2>2, <2>3, <2>4, <2>5
<1>7. ASSUME NEW l \in Levels \ {0}, NEW a \in w[l], NEW b \in w[l], a # b
      PROVE  Apart(T[a], T[b]) \/ (tw /\ T[a] = T[b])
  <2>1. CASE a \in v[l] /\ b \in v[l]
    BY <1>7, <2>1 DEF Good
  <2>2. ASSUME l = c.level + 1, NEW o \in O, NEW n \in v[l], n \notin c.in1 PROVE Apart(T[n], T[o]) /\ Apart(T[o], T[n])
    <3>1. Apart(T[n], In(T, c))
      BY <2>2 DEF CompFits
    <3> QED BY <1>1, <1>3, <1>4, <2>2, <3>1, ApartTurns
  <2>3. CASE l = c.level + 1 /\ a \in O /\ b \in O
    BY <1>7, <2>3 DEF Telling, O
  <2>4. CASE l = c.level + 1 /\ a \in O /\ b \notin O
    <3>1. b \in v[l] /\ b \notin c.in1
      BY <1>5, <2>4
    <3> QED BY <2>2, <2>4, <3>1
  <2>5. CASE l = c.level + 1 /\ b \in O /\ a \notin O
    <3>1. a \in v[l] /\ a \notin c.in1
      BY <1>5, <2>5
    <3> QED BY <2>2, <2>5, <3>1
  <2> QED BY <1>5, <1>7, <2>1, <2>3, <2>4, <2>5
<1> QED BY <1>6, <1>7 DEF Good, w

\* What the new version stores: what was not compacted, and the outputs.
LEMMA StoredOutputs ==
    ASSUME NEW T, NEW v \in Versions, NEW c \in CompRecord, c.level \in Levels, c.level + 1 \in Levels,
           CompFits(T, c, v), Telling(T, c, Outs(c))
    PROVE  /\ WithOutputs(v, c) \in Versions
           /\ Stored(T, WithOutputs(v, c)) \subseteq Stored(T, v) /\ In(T, c) \subseteq Stored(T, v)
           /\ \A n \in Files(WithOutputs(v, c)) : n \in Files(v) \/ n \in Outs(c)
           /\ \A e \in Stored(T, v) : e \in Stored(T, WithOutputs(v, c)) \/ e \in In(T, c)
           /\ \A n \in Outs(c) : T[n] \subseteq Stored(T, WithOutputs(v, c))
<1> DEFINE w == WithOutputs(v, c)
<1>1. w \in Versions /\ Files(w) \subseteq Files(v) \cup Outs(c)
  BY EditedCompaction
<1>2. c.in0 \subseteq v[c.level] /\ c.in1 \subseteq v[c.level + 1]
  BY DEF CompFits
<1>3. \A n \in c.in0 \cup c.in1 : n \in Files(v)
  BY <1>2, InFiles
<1>4. In(T, c) \subseteq Stored(T, v)
  <2> SUFFICES ASSUME NEW e \in In(T, c) PROVE e \in Stored(T, v)
    OBVIOUS
  <2>1. PICK n \in c.in0 \cup c.in1 : e \in T[n]
    BY InIs
  <2> QED BY <1>3, <2>1, StoredIs
<1> HIDE DEF w
<1>5. Stored(T, w) \subseteq Stored(T, v)
  <2> SUFFICES ASSUME NEW e \in Stored(T, w) PROVE e \in Stored(T, v)
    OBVIOUS
  <2>1. PICK n \in Files(w) : e \in T[n]
    BY StoredIs
  <2>2. n \in Files(v) \/ n \in Outs(c)
    BY <1>1, <2>1
  <2> QED BY <1>4, <2>1, <2>2, StoredIs DEF Telling
<1>6. ASSUME NEW e \in Stored(T, v), e \notin In(T, c) PROVE e \in Stored(T, w)
  <2>1. PICK n \in Files(v) : e \in T[n]
    BY StoredIs
  <2>2. PICK i \in Levels : n \in v[i]
    BY FilesAre
  <2>3. n \notin c.in0 \cup c.in1
    BY <1>6, <2>1, InIs
  <2>4. n \in w[i]
    BY <2>2, <2>3, OutputsKeep DEF w
  <2>5. n \in Files(w)
    BY <1>1, <2>4, InFiles
  <2> QED BY <2>1, <2>5, StoredIs
<1>7. ASSUME NEW n \in Outs(c) PROVE T[n] \subseteq Stored(T, w)
  <2>1. n \in w[c.level + 1]
    BY OutputsNew DEF w
  <2>2. n \in Files(w)
    BY <1>1, <2>1, InFiles
  <2> QED BY <2>2, StoredIs
<1> QED BY <1>1, <1>4, <1>5, <1>6, <1>7 DEF w

\* Nothing is lost by it.
LEMMA CompleteOutputs ==
    ASSUME NEW T, NEW v \in Versions, NEW c \in CompRecord, NEW tw, NEW H,
           c.level \in Levels, c.level + 1 \in Levels,
           \A n \in Files(v) : T[n] \subseteq Entry, Good(T, v, tw), CompFits(T, c, v), Telling(T, c, Outs(c)),
           H \subseteq Entry, In(T, c) \subseteq H, Complete(Stored(T, v), H)
    PROVE  Complete(Stored(T, WithOutputs(v, c)), H)
<1> DEFINE A == Stored(T, v)
           B == Stored(T, WithOutputs(v, c))
           I == In(T, c)
<1>1. /\ B \subseteq A /\ I \subseteq A /\ (\A e \in A : e \in B \/ e \in I)
      /\ \A n \in Outs(c) : T[n] \subseteq B
  BY StoredOutputs
<1>2. \A l \in Levels : \A n \in v[l] : T[n] \subseteq Entry
  BY InFiles
<1>3. A \subseteq Entry
  <2> SUFFICES ASSUME NEW e \in A PROVE e \in Entry
    OBVIOUS
  <2>1. PICK n \in Files(v) : e \in T[n]
    BY StoredIs
  <2> QED BY <2>1
\* An entry of the inputs, or a newer one, is among the outputs; or a deletion
\* was dropped under which nothing is left.
<1>4. ASSUME NEW h \in H, NEW e \in I, e.key = h.key, e.seq >= h.seq PROVE Kept(h, B, H)
  <2>1. CASE \E o \in Outs(c) : \E x \in T[o] : x.key = e.key
    <3>1. PICK o \in Outs(c) : \E x \in T[o] : x.key = e.key
      BY <2>1
    <3>2. PICK x \in T[o] : x.key = e.key
      BY <3>1
    <3>3. PICK f \in T[o] : f.key = x.key /\ NewestIn(T, c, f)
      BY <3>1, <3>2 DEF Telling
    <3>4. f \in B /\ f.key = h.key /\ e.seq <= f.seq /\ f \in Entry /\ e \in Entry
      <4>1. f \in B /\ f \in A /\ e \in A
        BY <1>1, <1>4, <3>1, <3>3
      <4>2. f.key = h.key /\ e.seq <= f.seq
        BY <1>4, <3>2, <3>3 DEF NewestIn
      <4> QED BY <1>3, <4>1, <4>2
    <3>5. f.seq >= h.seq
      BY <1>4, <3>4, EntryIs
    <3> QED BY <3>4, <3>5 DEF Kept
  <2>2. CASE \E d \in I : d.key = e.key /\ d.del /\ NewestIn(T, c, d) /\ ~Deep(T, c, e.key)
    <3>1. PICK d \in I : d.key = e.key /\ d.del /\ NewestIn(T, c, d) /\ ~Deep(T, c, e.key)
      BY <2>2
    <3>2. d \in H /\ d \in Entry /\ d.key = h.key /\ d.seq >= h.seq
      <4>1. e.seq <= d.seq
        BY <1>4, <3>1 DEF NewestIn
      <4>2. d \in Entry /\ e \in Entry
        BY <1>1, <1>3, <1>4, <3>1
      <4> QED BY <1>4, <3>1, <4>1, <4>2, EntryIs
    <3>3. CASE \A x \in B : x.key # h.key
      BY <3>1, <3>2, <3>3 DEF Kept
    <3>4. CASE \E x \in B : x.key = h.key
      <4>1. PICK x \in B : x.key = h.key
        BY <3>4
      <4>2. PICK n \in Files(WithOutputs(v, c)) : x \in T[n]
        BY <4>1, StoredIs
      <4>3. PICK i \in Levels : n \in WithOutputs(v, c)[i]
        BY StoredOutputs, FilesAre
      <4>4. CASE i = c.level + 1 /\ n \in Outs(c)
        <5>1. PICK f \in T[n] : f.key = x.key /\ NewestIn(T, c, f)
          BY <4>2, <4>4 DEF Telling
        <5>2. d.seq <= f.seq /\ f \in B /\ f \in Entry
          <6>1. f \in B
            BY <1>1, <4>4, <5>1
          <6>2. d.seq <= f.seq
            BY <3>1, <3>2, <4>1, <5>1 DEF NewestIn
          <6> QED BY <1>1, <1>3, <6>1, <6>2
        <5>3. f.seq >= h.seq
          BY <3>2, <5>2, EntryIs
        <5> QED BY <4>1, <5>1, <5>2, <5>3 DEF Kept
      <4>5. CASE n \in v[i] /\ (i = c.level => n \notin c.in0) /\ (i = c.level + 1 => n \notin c.in1)
        <5>1. i \in Nat /\ c.level \in Nat
          BY LevelOf
        <5>2. CASE i <= c.level
          <6>1. Covers(T[n], I)
            BY <4>5, <5>2, AboveInputs
          <6>2. PICK y \in T[n] : y.key = d.key /\ y.seq >= d.seq
            BY <3>1, <3>2, <4>1, <4>2, <6>1 DEF Covers
          <6>3. y \in B
            BY <4>2, <6>2, StoredIs
          <6>4. y.seq >= h.seq
            BY <1>2, <3>2, <4>5, <6>2, EntryIs
          <6> QED BY <3>2, <6>2, <6>3, <6>4 DEF Kept
        <5>3. CASE i = c.level + 1
          <6>1. Apart(T[n], I)
            BY <4>5, <5>3 DEF CompFits
          <6>2. T[n] \subseteq Entry /\ x \in T[n] /\ d \in I /\ I \subseteq Entry
            BY <1>1, <1>2, <1>3, <3>1, <4>2, <4>5
          <6>3. x.key # d.key
            BY <6>1, <6>2, ApartTurns
          <6> QED BY <3>2, <4>1, <6>3
        <5>4. CASE i >= c.level + 2
          <6>1. n \in c.version[i] \/ Apart(T[n], I)
            BY <4>5, <5>4 DEF CompFits
          <6>2. T[n] \subseteq Entry /\ x \in T[n] /\ d \in I /\ I \subseteq Entry
            BY <1>1, <1>2, <1>3, <3>1, <4>2, <4>5
          <6>3. CASE Apart(T[n], I)
            <7>1. x.key # d.key
              BY <6>2, <6>3, ApartTurns
            <7> QED BY <3>2, <4>1, <7>1
          <6>4. CASE n \in c.version[i]
            <7>1. SpansKey(T[n], e.key)
              BY <3>1, <3>2, <4>1, <6>2, EntryIs DEF SpansKey
            <7> QED BY <3>1, <5>4, <6>4, <7>1 DEF Deep
          <6> QED BY <6>1, <6>3, <6>4
        <5> QED BY <5>1, <5>2, <5>3, <5>4
      <4> QED BY <4>3, <4>4, <4>5, OutputsAt
    <3> QED BY <3>3, <3>4
  <2> QED BY <2>1, <2>2 DEF Telling
<1> HIDE DEF A, B, I
<1>5. ASSUME NEW h \in H PROVE Kept(h, B, H)
  <2>1. Kept(h, A, H)
    BY DEF Complete, A
  <2>2. CASE \E e \in A : e.key = h.key /\ e.seq >= h.seq
    <3>1. PICK e \in A : e.key = h.key /\ e.seq >= h.seq
      BY <2>2
    <3>2. CASE e \in B
      BY <3>1, <3>2 DEF Kept
    <3>3. CASE e \in I
      BY <1>4, <3>1, <3>3
    <3> QED BY <1>1, <3>2, <3>3
  <2>3. CASE /\ \E d \in H : d.key = h.key /\ d.seq >= h.seq /\ d.del
             /\ \A e \in A : e.key # h.key
    BY <1>1, <2>3 DEF Kept
  <2> QED BY <2>1, <2>2, <2>3 DEF Kept
<1> QED BY <1>5 DEF Complete, B

\* A compaction's new version gives what the old one gave.
LEMMA ConsistentOutputs ==
    ASSUME NEW T, NEW G, NEW H, NEW v \in Versions, NEW last \in Nat, NEW next \in Nat,
           NEW ln \in Nat, NEW tw, NEW c \in CompRecord, c.level \in Levels, c.level + 1 \in Levels,
           H \subseteq Entry, DOMAIN G \subseteq Nat, last <= next,
           Consistent(T, G, H, v, last, ln, tw), CompFits(T, c, v), Telling(T, c, Outs(c)),
           \A a \in DOMAIN G : a >= ln => Older(In(T, c), G[a])
    PROVE  Consistent(T, G, H, WithOutputs(v, c), next, ln, tw)
<1> DEFINE w == WithOutputs(v, c)
           P == Replay(G, ln)
           J == H \ P
           I == In(T, c)
<1>1. /\ Follows(T, G, H, v, ln, tw) /\ P \subseteq H /\ Inside(T, H, v, last) /\ Good(T, v, tw)
      /\ Complete(Stored(T, v), J)
  BY DEF Consistent
<1>2. /\ w \in Versions /\ Stored(T, w) \subseteq Stored(T, v) /\ I \subseteq Stored(T, v)
      /\ \A n \in Files(w) : n \in Files(v) \/ n \in Outs(c)
  BY StoredOutputs
<1>3. \A n \in Files(v) : T[n] \subseteq Entry
  BY <1>1, StoredIs DEF Inside
<1> HIDE DEF w
<1>4. Inside(T, H, w, next)
  <2>1. \A n \in Files(w) : T[n] # {}
    BY <1>1, <1>2 DEF Inside, Telling
  <2>2. Stored(T, w) \subseteq H /\ \A e \in Stored(T, w) : e.seq <= last
    BY <1>1, <1>2 DEF Inside
  <2>3. \A e \in Stored(T, w) : e.seq <= next
    BY <2>2, EntryIs
  <2> QED BY <2>1, <2>2, <2>3 DEF Inside
<1>5. \A h \in H : h.seq <= next \/ h \in P
  <2>1. \A h \in H : h.seq <= last \/ h \in P
    BY DEF Consistent
  <2> QED BY <2>1, EntryIs
<1>6. Follows(T, G, H, w, ln, tw)
  <2>1. ASSUME NEW a \in DOMAIN G, NEW t \in Files(w), ln <= a PROVE Older(T[t], G[a]) \/ (tw /\ T[t] = G[a])
    <3>1. CASE t \in Files(v)
      BY <1>1, <2>1, <3>1 DEF Follows
    <3>2. CASE t \in Outs(c)
      <4>1. T[t] \subseteq I /\ Older(I, G[a])
        BY <2>1, <3>2 DEF Telling
      <4> QED BY <4>1 DEF Older
    <3> QED BY <1>2, <3>1, <3>2
  <2> QED BY <1>1, <2>1 DEF Follows
<1>7. Good(T, w, tw)
  BY <1>1, <1>3, GoodOutputs DEF w
<1>8. Complete(Stored(T, w), J)
  <2>1. I \subseteq J
    <3> SUFFICES ASSUME NEW e \in I, e \in P PROVE FALSE
      BY <1>1, <1>2 DEF Inside
    <3>1. PICK a \in DOMAIN G : a >= ln /\ e \in G[a]
      BY ReplayIs
    <3>2. e.seq < e.seq /\ e \in H
      BY <1>1, <3>1 DEF Older
    <3> QED BY <3>2, EntryIs
  <2>2. J \subseteq Entry
    OBVIOUS
  <2> HIDE DEF J
  <2> QED BY <1>1, <1>3, <2>1, <2>2, CompleteOutputs DEF w
<1> QED BY <1>1, <1>4, <1>5, <1>6, <1>7, <1>8 DEF Consistent, w

-----------------------------------------------------------------------------
(* Picking the inputs *)

\* GetOverlappingInputs: the tables found leave no gap.
NoGap(N) == \A e, f \in Content(N), k \in Int :
               e.key <= k /\ k <= f.key => \E n \in N : SpansKey(File(n), k)

\* What the files of some numbers hold, file by file.
LEMMA ContentIs ==
    ASSUME NEW N
    PROVE  /\ \A e \in Content(N) : \E n \in N : e \in File(n)
           /\ \A n \in N : File(n) \subseteq Content(N)
BY DEF Content

\* A key that a group does not span lies on one side of it.
LEMMA Unspanned ==
    ASSUME NEW A, NEW k \in Int, A \subseteq Entry, ~SpansKey(A, k)
    PROVE  (\A e \in A : e.key < k) \/ (\A e \in A : k < e.key)
BY EntryIs DEF SpansKey

\* Tables whose ranges do not meet do not meet.
LEMMA NotOverlapping ==
    ASSUME NEW n, NEW R, File(n) \subseteq Entry, R \subseteq Entry, ~Overlaps(n, R)
    PROVE  Apart(File(n), R)
BY EntryIs DEF Overlaps, Apart

\* A key that none of some tables without a gap spans lies on one side of all.
LEMMA AllOneSide ==
    ASSUME NEW N, NEW k \in Int, Content(N) \subseteq Entry, NoGap(N), \A n \in N : ~SpansKey(File(n), k)
    PROVE  (\A e \in Content(N) : e.key < k) \/ (\A e \in Content(N) : k < e.key)
<1>1. \A e, f \in Content(N) : ~(e.key <= k /\ k <= f.key)
  BY DEF NoGap
<1> QED BY <1>1, EntryIs

\* Tables that meet what has no gap leave none either.
LEMMA MoreWithoutGap ==
    ASSUME NEW N, NEW M, Content(N) \subseteq Entry, Content(M) \subseteq Entry, NoGap(N),
           \A m \in M : Overlaps(m, Content(N))
    PROVE  NoGap(N \cup M)
<1> SUFFICES ASSUME NEW e \in Content(N \cup M), NEW f \in Content(N \cup M), NEW k \in Int,
                    e.key <= k, k <= f.key, \A n \in N \cup M : ~SpansKey(File(n), k)
             PROVE  FALSE
  BY DEF NoGap
<1> DEFINE R == Content(N)
<1>1. (\A x \in R : x.key < k) \/ (\A x \in R : k < x.key)
  BY AllOneSide
<1>2. \A n \in N \cup M : File(n) \subseteq Entry
  BY ContentIs
<1>3. ASSUME NEW n \in N \cup M
      PROVE  (\A x \in File(n) : x.key < k) \/ (\A x \in File(n) : k < x.key)
  BY <1>2, Unspanned
<1>4. ASSUME NEW n \in N \cup M, NEW x \in File(n), x.key < k PROVE \A y \in R : y.key < k
  <2>1. CASE n \in N
    <3>1. x \in R
      BY <2>1, ContentIs
    <3> QED BY <1>1, <1>2, <1>4, <3>1, EntryIs
  <2>2. CASE n \in M
    <3>1. PICK z \in File(n), r \in R : z.key >= r.key
      BY <2>2 DEF Overlaps
    <3>2. z.key < k
      BY <1>2, <1>3, <1>4, <3>1, EntryIs
    <3>3. r.key < k
      BY <1>2, <3>1, <3>2, EntryIs
    <3> QED BY <1>1, <3>3, EntryIs
  <2> QED BY <2>1, <2>2
<1>5. ASSUME NEW n \in N \cup M, NEW x \in File(n), k < x.key PROVE \A y \in R : k < y.key
  <2>1. CASE n \in N
    <3>1. x \in R
      BY <2>1, ContentIs
    <3> QED BY <1>1, <1>2, <1>5, <3>1, EntryIs
  <2>2. CASE n \in M
    <3>1. PICK z \in File(n), r \in R : z.key <= r.key
      BY <2>2 DEF Overlaps
    <3>2. k < z.key
      BY <1>2, <1>3, <1>5, <3>1, EntryIs
    <3>3. k < r.key
      BY <1>2, <3>1, <3>2, EntryIs
    <3> QED BY <1>1, <3>3, EntryIs
  <2> QED BY <2>1, <2>2
<1>6. PICK m \in N \cup M : e \in File(m)
  BY ContentIs
<1>7. PICK n \in N \cup M : f \in File(n)
  BY ContentIs
<1>8. e.key < k
  BY <1>2, <1>3, <1>6, EntryIs
<1>9. k < f.key
  BY <1>2, <1>3, <1>7, EntryIs
<1>10. R = {}
  <2>1. ASSUME NEW y \in R PROVE FALSE
    <3>1. y.key < k /\ k < y.key
      BY <1>4, <1>5, <1>6, <1>7, <1>8, <1>9
    <3> QED BY <3>1, EntryIs
  <2> QED BY <2>1
<1>11. m \in M
  BY <1>6, <1>10, ContentIs
<1> QED BY <1>10, <1>11 DEF Overlaps

\* At level 0 nothing outside meets what was found, and that has no gap either.
LEMMA ClosureWithoutGap ==
    ASSUME NEW v, NEW N, Content(N) \subseteq Entry, Content(v[0]) \subseteq Entry, NoGap(N)
    PROVE  NoGap(N \cup Overlapping(v, 0, Content(N)))
<1> DEFINE R == Content(N)
           S == Overlapping(v, 0, R)
<1>1. /\ S \subseteq v[0] /\ S = Meets(v, R, S)
      /\ \A T \in SUBSET v[0] : Meets(v, R, T) \subseteq T => S \subseteq T
  BY OverlappingAtZero
<1> HIDE DEF S
<1> SUFFICES ASSUME NEW e \in Content(N \cup S), NEW f \in Content(N \cup S), NEW k \in Int,
                    e.key <= k, k <= f.key, \A n \in N \cup S : ~SpansKey(File(n), k)
             PROVE  FALSE
  BY DEF NoGap, S
<1>2. (\A x \in R : x.key < k) \/ (\A x \in R : k < x.key)
  BY AllOneSide
<1>3. \A n \in N \cup S : File(n) \subseteq Entry
  BY <1>1, ContentIs
<1>4. ASSUME NEW n \in N \cup S
      PROVE  (\A x \in File(n) : x.key < k) \/ (\A x \in File(n) : k < x.key)
  BY <1>3, Unspanned
<1>5. e.key # k /\ f.key # k
  <2>1. PICK m \in N \cup S : e \in File(m)
    BY ContentIs
  <2>2. PICK n \in N \cup S : f \in File(n)
    BY ContentIs
  <2> QED BY <1>3, <1>4, <2>1, <2>2, EntryIs
<1>6. CASE \A x \in R : x.key < k
  <2> DEFINE L == {m \in S : \A x \in File(m) : x.key < k}
  <2>1. L \subseteq S /\ L \subseteq v[0]
    BY <1>1
  <2>2. ASSUME NEW m \in Meets(v, R, L) PROVE m \in L
    <3>1. m \in S
      BY <1>1, <2>1, MeetsGrows
    <3>2. PICK x \in File(m), r \in R \cup Content(L) : x.key <= r.key
      BY DEF Meets, Overlaps
    <3>3. r.key < k /\ r \in Entry
      BY <1>1, <1>3, <1>6, ContentIs
    <3>4. x.key < k
      BY <1>3, <3>1, <3>2, <3>3, EntryIs
    <3>5. \A y \in File(m) : y.key < k
      BY <1>3, <1>4, <3>1, <3>4, EntryIs
    <3> QED BY <3>1, <3>5
  <2>3. S \subseteq L
    BY <1>1, <2>1, <2>2
  <2>4. \A x \in Content(N \cup S) : x.key < k
    BY <1>6, <2>3, ContentIs
  <2>5. f.key < k /\ f.key \in Int
    <3>1. PICK n \in N \cup S : f \in File(n)
      BY ContentIs
    <3> QED BY <1>3, <2>4, <3>1, EntryIs
  <2> QED BY <2>5
<1>7. CASE \A x \in R : k < x.key
  <2> DEFINE L == {m \in S : \A x \in File(m) : k < x.key}
  <2>1. L \subseteq S /\ L \subseteq v[0]
    BY <1>1
  <2>2. ASSUME NEW m \in Meets(v, R, L) PROVE m \in L
    <3>1. m \in S
      BY <1>1, <2>1, MeetsGrows
    <3>2. PICK x \in File(m), r \in R \cup Content(L) : x.key >= r.key
      BY DEF Meets, Overlaps
    <3>3. k < r.key /\ r \in Entry
      BY <1>1, <1>3, <1>7, ContentIs
    <3>4. k < x.key
      BY <1>3, <3>1, <3>2, <3>3, EntryIs
    <3>5. \A y \in File(m) : k < y.key
      BY <1>3, <1>4, <3>1, <3>4, EntryIs
    <3> QED BY <3>1, <3>5
  <2>3. S \subseteq L
    BY <1>1, <2>1, <2>2
  <2>4. \A x \in Content(N \cup S) : k < x.key
    BY <1>7, <2>3, ContentIs
  <2>5. k < e.key /\ e.key \in Int
    <3>1. PICK n \in N \cup S : e \in File(n)
      BY ContentIs
    <3> QED BY <1>3, <2>4, <3>1, EntryIs
  <2> QED BY <2>5
<1> QED BY <1>2, <1>6, <1>7

\* Below level 0 the tables that meet the range are taken, once.
LEMMA OverlappingBelow ==
    ASSUME NEW v, NEW l \in Nat, l > 0, NEW R
    PROVE  \A m : m \in Overlapping(v, l, R) <=> m \in v[l] /\ Overlaps(m, R)
BY DEF Overlapping

\* A table meets what it is a part of.
LEMMA MeetsItself ==
    ASSUME NEW m, NEW R, File(m) # {}, File(m) \subseteq Entry, File(m) \subseteq R
    PROVE  Overlaps(m, R)
<1>1. PICK e \in File(m) : TRUE
  OBVIOUS
<1>2. e.key <= e.key /\ e.key >= e.key /\ e \in R
  BY <1>1, EntryIs
<1> QED BY <1>1, <1>2 DEF Overlaps

\* The closure at level 0.
LEMMA ClosureApart ==
    ASSUME TypeInv, NEW v, NEW R, R \subseteq Entry
    PROVE  LET S == Overlapping(v, 0, R)
           IN  \A x \in v[0] \ S, m \in S : Apart(File(x), File(m))
<1> DEFINE S == Overlapping(v, 0, R)
<1>1. S \subseteq v[0] /\ S = Meets(v, R, S)
  BY OverlappingAtZero
<1> HIDE DEF S
<1>2. ASSUME NEW x \in v[0] \ S, NEW m \in S PROVE Apart(File(x), File(m))
  <2>1. ~Overlaps(x, R \cup Content(S))
    BY <1>1, <1>2 DEF Meets
  <2>2. Content(S) \subseteq Entry /\ File(x) \subseteq Entry
    BY ContentIn DEF TypeInv, File
  <2>3. Apart(File(x), R \cup Content(S))
    BY <2>1, <2>2, NotOverlapping
  <2>4. File(m) \subseteq R \cup Content(S)
    BY <1>2, ContentIs
  <2> QED BY <2>2, <2>3, <2>4, ApartTurns
<1> QED BY <1>2 DEF S

\* SetupOtherInputs leaves no gap, and at level 0 nothing that meets the inputs outside.
LEMMA InputsFit ==
    ASSUME TypeInv, NEW l \in Levels, l + 1 \in Levels, NEW n \in version[l], NEW in \in Inputs(l, n),
           \A m \in Files(version) : File(m) # {}
    PROVE  /\ NoGap(in[1] \cup in[2]) /\ n \in in[1]
           /\ in[2] = Overlapping(version, l + 1, Content(in[1]))
           /\ l = 0 => \A x \in version[0] \ in[1], m \in in[1] : Apart(File(x), File(m))
<1> DEFINE in0 == IF l = 0 THEN Overlapping(version, 0, File(n)) ELSE {n}
           in1 == Overlapping(version, l + 1, Content(in0))
           wide0 == Overlapping(version, l, Content(in0 \cup in1))
           wide1 == Overlapping(version, l + 1, Content(wide0))
<1>0. l \in Nat /\ l + 1 > 0 /\ version \in Versions /\ 0 \in Levels
  BY LevelOf, LevelNumbers DEF TypeInv
<1>1. \A i \in Levels : \A m \in version[i] : File(m) # {}
  BY <1>0, InFiles
<1>2. \A N : Content(N) \subseteq Entry
  BY ContentIn
<1>3. \A m : File(m) \subseteq Entry
  BY DEF TypeInv, File
<1>4. NoGap({n}) /\ Content({n}) = File(n)
  <2>1. \A e \in Content({n}) : e \in File(n)
    BY ContentIs
  <2>2. \A e \in File(n) : e \in Content({n})
    BY ContentIs
  <2> QED BY <2>1, <2>2 DEF NoGap, SpansKey
<1>5. n \in in0 /\ NoGap(in0) /\ in0 \subseteq version[l]
  <2>1. CASE l > 0
    BY <1>4, <2>1
  <2>2. CASE l = 0
    <3>1. in0 = Overlapping(version, 0, File(n))
      BY <2>2
    <3>2. in0 \subseteq version[0] /\ in0 = Meets(version, File(n), in0)
      BY <3>1, OverlappingAtZero
    <3> HIDE DEF in0
    <3>3. n \in in0
      <4>1. Overlaps(n, File(n) \cup Content(in0))
        BY <1>0, <1>1, <1>3, MeetsItself
      <4>2. n \in Meets(version, File(n), in0)
        BY <2>2, <4>1 DEF Meets
      <4> QED BY <3>2, <4>2
    <3>4. NoGap({n} \cup in0)
      <4>1. Content(version[0]) \subseteq Entry /\ Content({n}) \subseteq Entry
        BY <1>2
      <4> QED BY <1>4, <3>1, <4>1, ClosureWithoutGap
    <3>5. {n} \cup in0 = in0
      BY <3>3
    <3> QED BY <2>2, <3>2, <3>3, <3>4, <3>5
  <2> QED BY <1>0, <2>1, <2>2
<1>6. l = 0 => \A x \in version[0] \ in0, m \in in0 : Apart(File(x), File(m))
  BY <1>3, ClosureApart
<1> HIDE DEF in0
<1>7. NoGap(in0 \cup in1) /\ \A m \in in1 : Overlaps(m, Content(in0))
  <2>1. \A m \in in1 : Overlaps(m, Content(in0))
    BY <1>0, OverlappingBelow
  <2> HIDE DEF in1
  <2> QED BY <1>2, <1>5, <2>1, MoreWithoutGap
<1>8. in0 \subseteq wide0 /\ NoGap((in0 \cup in1) \cup wide0)
  <2> HIDE DEF in1
  <2>1. CASE l > 0
    <3>1. \A m \in wide0 : Overlaps(m, Content(in0 \cup in1))
      BY <1>0, <2>1, OverlappingBelow
    <3>2. ASSUME NEW m \in in0 PROVE m \in wide0
      <4>1. File(m) # {} /\ File(m) \subseteq Content(in0 \cup in1) /\ m \in version[l]
        BY <1>1, <1>5, ContentIs
      <4>2. Overlaps(m, Content(in0 \cup in1))
        BY <1>3, <4>1, MeetsItself
      <4> QED BY <1>0, <2>1, <4>1, <4>2, OverlappingBelow
    <3> HIDE DEF wide0
    <3>3. NoGap((in0 \cup in1) \cup wide0)
      BY <1>2, <1>7, <3>1, MoreWithoutGap
    <3> QED BY <3>2, <3>3
  <2>2. CASE l = 0
    <3>1. wide0 = Overlapping(version, 0, Content(in0 \cup in1))
      BY <2>2
    <3> HIDE DEF wide0
    <3>2. wide0 = Meets(version, Content(in0 \cup in1), wide0)
      BY <3>1, OverlappingAtZero
    <3>3. ASSUME NEW m \in in0 PROVE m \in wide0
      <4>1. File(m) # {} /\ File(m) \subseteq Content(in0 \cup in1) /\ m \in version[0]
        BY <1>1, <1>5, <2>2, ContentIs
      <4>2. Overlaps(m, Content(in0 \cup in1) \cup Content(wide0))
        BY <1>3, <4>1, MeetsItself
      <4>3. m \in Meets(version, Content(in0 \cup in1), wide0)
        BY <4>1, <4>2 DEF Meets
      <4> QED BY <3>2, <4>3
    <3>4. NoGap((in0 \cup in1) \cup wide0)
      BY <1>2, <1>7, <3>1, ClosureWithoutGap
    <3> QED BY <3>3, <3>4
  <2>3. l > 0 \/ l = 0
    BY <1>0
  <2> HIDE DEF wide0
  <2> QED BY <2>1, <2>2, <2>3
<1>9. l = 0 => \A x \in version[0] \ wide0, m \in wide0 : Apart(File(x), File(m))
  BY <1>2, ClosureApart
<1>10. in \in {<<in0, in1>>} \cup (IF in1 # {} /\ wide1 = in1 THEN {<<wide0, in1>>} ELSE {})
  BY DEF Inputs, in0
<1>11. in1 = Overlapping(version, l + 1, Content(in0))
  OBVIOUS
<1>12. wide1 = Overlapping(version, l + 1, Content(wide0))
  OBVIOUS
<1> HIDE DEF in1, wide0, wide1
<1>13. CASE in = <<in0, in1>>
  <2>1. in[1] = in0 /\ in[2] = in1
    BY <1>13
  <2> QED BY <1>5, <1>6, <1>7, <1>11, <2>1
<1>14. CASE in = <<wide0, in1>> /\ wide1 = in1
  <2>1. in[1] = wide0 /\ in[2] = in1
    BY <1>14
  <2>2. (in0 \cup in1) \cup wide0 = wide0 \cup in1
    BY <1>8
  <2> QED BY <1>5, <1>8, <1>9, <1>12, <1>14, <2>1, <2>2
<1> QED BY <1>10, <1>13, <1>14

-----------------------------------------------------------------------------
(* Reading the inputs and writing the outputs *)

\* What a compaction leaves out, and how far it is.
DropIn(T, c, e) ==
    \/ \E f \in In(T, c) : f.key = e.key /\ f.seq > e.seq /\ f.seq <= c.smallest_snapshot
    \/ e.del /\ e.seq <= c.smallest_snapshot /\ ~Deep(T, c, e.key)
CompWork(T, c) ==
    /\ Connected(T, c)
    /\ c.rest \subseteq In(T, c)
    /\ \A e \in In(T, c) : e.seq <= c.smallest_snapshot
    /\ ~c.move => \A e : e \in Holds(T, c.outs) <=> e \in In(T, c) /\ e \notin c.rest /\ ~DropIn(T, c, e)
    /\ \A f \in In(T, c) \ c.rest, g \in c.rest : Before(f, g)
    /\ \A a, b \in c.outs : a # b => Apart(T[a], T[b])
    /\ \A a \in c.outs : T[a] # {}

\* Other tables make no difference.
SameInputs(c, d) == /\ d.level = c.level /\ d.in0 = c.in0 /\ d.in1 = c.in1 /\ d.version = c.version
                    /\ d.smallest_snapshot = c.smallest_snapshot /\ d.move = c.move

\* What a compaction reads and drops depends on its inputs and its version only.
LEMMA SameIn ==
    ASSUME NEW T, NEW U, NEW c, NEW d, SameInputs(c, d),
           c.version \in Versions, \A n \in Files(c.version) \cup c.in0 \cup c.in1 : U[n] = T[n]
    PROVE  /\ In(U, d) = In(T, c)
           /\ \A k : Deep(U, d, k) <=> Deep(T, c, k)
           /\ \A e : DropIn(U, d, e) <=> DropIn(T, c, e)
           /\ Connected(T, c) => Connected(U, d)
<1> USE DEF SameInputs
<1>1. In(U, d) = In(T, c)
  <2>1. \A e \in In(U, d) : e \in In(T, c)
    BY InIs
  <2>2. \A e \in In(T, c) : e \in In(U, d)
    BY InIs
  <2> QED BY <2>1, <2>2
<1>2. \A j \in Levels : \A n \in c.version[j] : U[n] = T[n]
  BY InFiles
<1>3. ASSUME NEW k PROVE Deep(U, d, k) <=> Deep(T, c, k)
  BY <1>2 DEF Deep
<1>4. \A e : DropIn(U, d, e) <=> DropIn(T, c, e)
  BY <1>1, <1>3 DEF DropIn
<1>5. Connected(T, c) => Connected(U, d)
  BY <1>1 DEF Connected
<1> QED BY <1>1, <1>3, <1>4, <1>5

\* So does the work it has done,
LEMMA SameWork ==
    ASSUME NEW T, NEW U, NEW c \in CompRecord,
           \A n \in Files(c.version) \cup c.in0 \cup c.in1 \cup c.outs : U[n] = T[n], CompWork(T, c)
    PROVE  CompWork(U, c)
<1>1. SameInputs(c, c) /\ c.version \in Versions
  BY DEF SameInputs, CompRecord
<1>2. /\ In(U, c) = In(T, c) /\ \A e : DropIn(U, c, e) <=> DropIn(T, c, e)
      /\ Connected(T, c) => Connected(U, c)
  <2>1. \A n \in Files(c.version) \cup c.in0 \cup c.in1 : U[n] = T[n]
    OBVIOUS
  <2> QED BY <1>1, <2>1, SameIn
<1>3. Holds(U, c.outs) = Holds(T, c.outs)
  <2>1. \A e \in Holds(U, c.outs) : e \in Holds(T, c.outs)
    BY HoldsIs
  <2>2. \A e \in Holds(T, c.outs) : e \in Holds(U, c.outs)
    BY HoldsIs
  <2> QED BY <2>1, <2>2
<1> QED BY <1>2, <1>3 DEF CompWork

\* and whether it fits a version depends on the version's tables.
LEMMA SameFits ==
    ASSUME NEW T, NEW U, NEW c \in CompRecord, NEW v \in Versions, c.level \in Levels, c.level + 1 \in Levels,
           \A n \in Files(v) : U[n] = T[n], CompFits(T, c, v)
    PROVE  CompFits(U, c, v)
<1>1. c.in0 \subseteq v[c.level] /\ c.in1 \subseteq v[c.level + 1]
  BY DEF CompFits
<1>2. \A j \in Levels : \A n \in v[j] : U[n] = T[n]
  BY InFiles
<1>3. In(U, c) = In(T, c)
  <2>1. \A e \in In(U, c) : e \in In(T, c)
    BY <1>1, <1>2, InIs
  <2>2. \A e \in In(T, c) : e \in In(U, c)
    BY <1>1, <1>2, InIs
  <2> QED BY <2>1, <2>2
<1>4. c.level = 0 => \A x \in v[0] \ c.in0, n \in c.in0 : x < n => Apart(U[x], U[n])
  BY <1>1, <1>2 DEF CompFits
<1>5. \A m \in v[c.level + 1] \ c.in1 : Apart(U[m], In(U, c))
  BY <1>2, <1>3 DEF CompFits
<1>6. \A j \in Levels : j >= c.level + 2 => \A n \in v[j] : n \in c.version[j] \/ Apart(U[n], In(U, c))
  BY <1>2, <1>3 DEF CompFits
<1> QED BY <1>1, <1>4, <1>5, <1>6 DEF CompFits

\* Away from each input is away from all, as they leave no gap.
LEMMA ApartInputs ==
    ASSUME NEW T, NEW c, NEW E, E \subseteq Entry, In(T, c) \subseteq Entry, Connected(T, c),
           \A n \in c.in0 \cup c.in1 : Apart(E, T[n])
    PROVE  Apart(E, In(T, c))
<1> SUFFICES ASSUME NEW x \in E, NEW i \in In(T, c), ~(x.key < i.key),
                    NEW y \in E, NEW j \in In(T, c), ~(y.key > j.key)
             PROVE  FALSE
  BY DEF Apart
<1>1. \A n \in c.in0 \cup c.in1 : T[n] \subseteq Entry
  BY InIs
<1>2. PICK n \in c.in0 \cup c.in1 : i \in T[n]
  BY InIs
<1>3. PICK m \in c.in0 \cup c.in1 : j \in T[m]
  BY InIs
<1>4. x.key > i.key
  BY <1>1, <1>2, EntryIs DEF Apart
<1>5. y.key < j.key
  BY <1>1, <1>3, EntryIs DEF Apart
<1>6. x.key < j.key
  BY <1>1, <1>3, <1>5, EntryIs DEF Apart
<1>7. PICK o \in c.in0 \cup c.in1 : SpansKey(T[o], x.key)
  BY <1>4, <1>6, EntryIs DEF Connected
<1> QED BY <1>1, <1>7, EntryIs DEF SpansKey, Apart

\* A flush while the compaction runs.
LEMMA FitsMore ==
    ASSUME NEW T, NEW c \in CompRecord, NEW v \in Versions, NEW j \in Levels, NEW f \in Nat,
           c.level \in Levels, c.level + 1 \in Levels,
           CompFits(T, c, v), Connected(T, c), In(T, c) \subseteq Entry, T[f] \subseteq Entry,
           \A n \in v[0] : n < f,
           j > c.level => \A n \in c.in0 \cup c.in1 : Apart(T[f], T[n])
    PROVE  CompFits(T, c, WithTables(v, j, {f}))
<1> DEFINE w == WithTables(v, j, {f})
<1>1. \A i \in Levels : \A n \in w[i] : n \in v[i] \/ (i = j /\ n = f)
  BY DEF WithTables
<1>2. \A i \in Levels : v[i] \subseteq w[i]
  BY DEF WithTables
<1>3. j > c.level => Apart(T[f], In(T, c))
  BY ApartInputs
<1>4. c.level \in Nat /\ j \in Nat /\ 0 \in Levels
  BY LevelOf, LevelNumbers
<1> HIDE DEF w
<1>5. ASSUME c.level = 0, NEW x \in w[0] \ c.in0, NEW n \in c.in0, x < n PROVE Apart(T[x], T[n])
  <2>1. c.in0 \subseteq v[0] /\ v[0] \subseteq Nat
    BY <1>4, <1>5 DEF CompFits, Versions
  <2>2. x # f
    BY <1>5, <2>1
  <2>3. x \in v[0]
    BY <1>1, <1>4, <1>5, <2>2
  <2> QED BY <1>5, <2>3 DEF CompFits
<1>6. ASSUME NEW m \in w[c.level + 1] \ c.in1 PROVE Apart(T[m], In(T, c))
  <2>1. CASE m \in v[c.level + 1]
    BY <1>6, <2>1 DEF CompFits
  <2>2. CASE c.level + 1 = j /\ m = f
    BY <1>3, <1>4, <2>2
  <2> QED BY <1>1, <1>6, <2>1, <2>2
<1>7. ASSUME NEW i \in Levels, i >= c.level + 2, NEW n \in w[i] PROVE n \in c.version[i] \/ Apart(T[n], In(T, c))
  <2>1. CASE n \in v[i]
    BY <1>7, <2>1 DEF CompFits
  <2>2. CASE i = j /\ n = f
    BY <1>3, <1>4, <1>7, <2>2
  <2> QED BY <1>1, <2>1, <2>2
<1>8. c.in0 \subseteq w[c.level] /\ c.in1 \subseteq w[c.level + 1]
  BY <1>2 DEF CompFits
<1> QED BY <1>5, <1>6, <1>7, <1>8 DEF CompFits, w

\* A compaction that has read everything tells what its inputs told.
LEMMA WorkTells ==
    ASSUME NEW T, NEW c \in CompRecord, In(T, c) \subseteq Entry, CompWork(T, c), c.rest = {},
           c.move => c.outs = {} /\ c.in1 = {} /\ \E n : c.in0 = {n}, \A n \in c.in0 : T[n] # {}
    PROVE  Telling(T, c, Outs(c))
<1> DEFINE I == In(T, c)
\* Every key of the inputs has a newest entry.
<1>1. ASSUME NEW f \in I PROVE \E d \in I : d.key = f.key /\ NewestIn(T, c, d)
  <2> DEFINE S == {e \in I : e.key = f.key}
  <2>1. S \subseteq Entry /\ S # {}
    BY <1>1
  <2>2. PICK d \in S : \A e \in S : e.seq <= d.seq
    BY <2>1, NewestIs
  <2> QED BY <2>2 DEF NewestIn
<1>2. CASE c.move
  <2>1. PICK n : c.in0 = {n}
    BY <1>2
  <2>2. Outs(c) = {n} /\ c.in0 \cup c.in1 = {n} /\ T[n] # {}
    BY <1>2, <2>1 DEF Outs
  <2>3. T[n] = I
    <3>1. \A e \in I : e \in T[n]
      BY <2>2, InIs
    <3>2. n \in c.in0 \cup c.in1
      BY <2>2
    <3>3. T[n] \subseteq I
      BY <3>2, InIs
    <3> QED BY <3>1, <3>3
  <2> QED BY <1>1, <2>2, <2>3 DEF Telling
<1>3. CASE ~c.move
  <2>1. Outs(c) = c.outs
    BY <1>3 DEF Outs
  <2>2. \A e : e \in Holds(T, c.outs) <=> e \in I /\ ~DropIn(T, c, e)
    BY <1>3 DEF CompWork
  <2>3. \A o \in c.outs : \A e \in T[o] : e \in I /\ ~DropIn(T, c, e)
    BY <2>2, HoldsIs
  <2>4. \A e \in I : e.seq <= c.smallest_snapshot
    BY DEF CompWork
  <2>5. ASSUME NEW o \in c.outs, NEW e \in T[o] PROVE NewestIn(T, c, e)
    <3>1. e \in I /\ ~DropIn(T, c, e)
      BY <2>3
    <3>2. \A g \in I : g.key = e.key => ~(g.seq > e.seq)
      BY <2>4, <3>1 DEF DropIn
    <3> QED BY <3>1, <3>2, EntryIs DEF NewestIn
  <2>6. ASSUME NEW f \in I
        PROVE  \/ \E o \in c.outs : \E e \in T[o] : e.key = f.key
               \/ \E d \in I : d.key = f.key /\ d.del /\ NewestIn(T, c, d) /\ ~Deep(T, c, f.key)
    <3>1. PICK d \in I : d.key = f.key /\ NewestIn(T, c, d)
      BY <1>1
    <3>2. CASE DropIn(T, c, d)
      <4>1. ~\E g \in I : g.key = d.key /\ g.seq > d.seq /\ g.seq <= c.smallest_snapshot
        BY <3>1, EntryIs DEF NewestIn
      <4>2. d.del /\ ~Deep(T, c, d.key)
        BY <3>2, <4>1 DEF DropIn
      <4> QED BY <3>1, <4>2
    <3>3. CASE ~DropIn(T, c, d)
      <4>1. d \in Holds(T, c.outs)
        BY <2>2, <3>3
      <4> QED BY <3>1, <4>1, HoldsIs
    <3> QED BY <3>2, <3>3
  <2>7. \A o \in c.outs : T[o] # {} /\ T[o] \subseteq I
    BY <2>3 DEF CompWork
  <2>8. \A a, b \in c.outs : a # b => Apart(T[a], T[b])
    BY DEF CompWork
  <2> QED BY <2>1, <2>5, <2>6, <2>7, <2>8 DEF Telling
<1> QED BY <1>2, <1>3

\* The tables of numbers that exist.
LEMMA FileIs ==
    ASSUME TypeInv, NEW N, N \subseteq DOMAIN tables
    PROVE  /\ \A n \in N : File(n) = tables[n] /\ tables[n] \subseteq Entry
           /\ Content(N) = Holds(tables, N)
<1>1. \A n \in N : File(n) = tables[n] /\ tables[n] \subseteq Entry
  BY DEF File, TypeInv
<1>2. \A e \in Content(N) : e \in Holds(tables, N)
  BY <1>1, ContentIs, HoldsIs
<1>3. \A e \in Holds(tables, N) : e \in Content(N)
  BY <1>1, ContentIs, HoldsIs
<1> QED BY <1>1, <1>2, <1>3

\* What DoCompactionWork drops, said of the tables.
LEMMA DropIs ==
    ASSUME TypeInv, NEW c \in CompRecord, NEW e, c.in0 \cup c.in1 \subseteq DOMAIN tables,
           Files(c.version) \subseteq DOMAIN tables, c.level \in Levels
    PROVE  Drop(c, e) <=> DropIn(tables, c, e)
<1>1. Content(c.in0 \cup c.in1) = In(tables, c)
  BY FileIs DEF In
<1>2. c.version \in Versions /\ c.level \in Nat /\ NumLevels \in Nat
  BY LevelOf, LevelNumbers DEF CompRecord
<1>3. \A j \in Levels : \A n \in c.version[j] : File(n) = tables[n]
  BY <1>2, InFiles, FileIs
<1>4. ASSUME NEW j \in Levels, NEW n \in c.version[j], NEW k PROVE Spans(n, k) <=> SpansKey(tables[n], k)
  <2>1. Spans(n, k) <=> SpansKey(File(n), k)
    BY DEF Spans, Overlaps, SpansKey
  <2> QED BY <1>3, <2>1
<1>5. \A j : j \in c.level + 2..NumLevels - 1 <=> j \in Levels /\ j >= c.level + 2
  BY <1>2 DEF Levels
<1>6. IsBaseLevelForKey(c, e.key) <=> ~Deep(tables, c, e.key)
  BY <1>4, <1>5 DEF IsBaseLevelForKey, Deep
<1> QED BY <1>1, <1>6 DEF Drop, DropIn

\* A compaction just picked fits the version it was picked from.
LEMMA StartFits ==
    ASSUME TypeInv, NEW l \in Levels, l + 1 \in Levels, NEW n \in version[l], NEW in \in Inputs(l, n),
           NEW c \in CompRecord, c.level = l, c.in0 = in[1], c.in1 = in[2], c.version = version, NEW tw,
           Files(version) \subseteq DOMAIN tables, \A m \in Files(version) : tables[m] # {},
           Good(tables, version, tw)
    PROVE  Connected(tables, c) /\ CompFits(tables, c, version) /\ c.in0 # {}
<1>0. version \in Versions /\ l \in Nat /\ l + 1 # 0 /\ l + 1 > 0 /\ l + 1 \in Nat
  BY LevelOf DEF TypeInv
<1>1. \A i \in Levels : \A m \in version[i] : m \in DOMAIN tables /\ File(m) = tables[m] /\ tables[m] \subseteq Entry
  BY <1>0, InFiles, FileIs
<1>2. \A m \in Files(version) : File(m) # {}
  BY FileIs
<1>3. /\ NoGap(c.in0 \cup c.in1) /\ n \in c.in0
      /\ c.in1 = Overlapping(version, l + 1, Content(c.in0))
      /\ l = 0 => \A x \in version[0] \ c.in0, m \in c.in0 : Apart(File(x), File(m))
  BY <1>2, InputsFit
<1>4. c.in0 \subseteq version[l] /\ c.in1 \subseteq version[l + 1]
  BY <1>0, InputsAre
<1>5. Content(c.in0 \cup c.in1) = In(tables, c)
  BY <1>1, <1>4, FileIs DEF In
<1>6. Connected(tables, c)
  BY <1>1, <1>3, <1>4, <1>5 DEF Connected, NoGap
<1>7. In(tables, c) \subseteq Entry /\ Content(c.in0) \subseteq Entry
  BY <1>5, ContentIn
<1>8. ASSUME NEW m \in version[l + 1] \ c.in1 PROVE Apart(tables[m], In(tables, c))
  <2>1. ~Overlaps(m, Content(c.in0))
    BY <1>0, <1>3, <1>8, OverlappingBelow
  <2>2. Apart(tables[m], Content(c.in0)) /\ tables[m] \subseteq Entry
    BY <1>1, <1>7, <1>8, <2>1, NotOverlapping
  <2>3. ASSUME NEW o \in c.in0 PROVE Apart(tables[m], tables[o])
    <3>1. tables[o] \subseteq Content(c.in0)
      BY <1>1, <1>4, ContentIs
    <3> QED BY <1>7, <2>2, <3>1, ApartTurns
  <2>4. ASSUME NEW o \in c.in1 PROVE Apart(tables[m], tables[o])
    <3>1. o \in version[l + 1] /\ Overlaps(o, Content(c.in0))
      BY <1>0, <1>3, OverlappingBelow
    <3>2. File(o) # File(m)
      BY <2>1, <3>1 DEF Overlaps
    <3>3. tables[o] # tables[m] /\ o # m
      BY <1>1, <1>8, <3>1, <3>2
    <3> QED BY <1>0, <1>8, <3>1, <3>3 DEF Good
  <2> QED BY <1>6, <1>7, <2>2, <2>3, <2>4, ApartInputs
<1>9. ASSUME l = 0, NEW x \in version[0] \ c.in0, NEW m \in c.in0 PROVE Apart(tables[x], tables[m])
  <2>1. 0 \in Levels /\ m \in version[0]
    BY <1>4, <1>9, LevelNumbers
  <2> QED BY <1>1, <1>3, <1>9, <2>1
<1>10. CompFits(tables, c, version)
  BY <1>4, <1>8, <1>9 DEF CompFits
<1> QED BY <1>3, <1>6, <1>10

\* Before it has read anything its work is right.
LEMMA WorkStarts ==
    ASSUME NEW T, NEW c \in CompRecord, Connected(T, c), c.outs = {},
           (c.rest = {} /\ c.move) \/ c.rest = In(T, c), \A e \in In(T, c) : e.seq <= c.smallest_snapshot
    PROVE  CompWork(T, c)
<1>1. Holds(T, c.outs) = {}
  <2>1. \A e \in Holds(T, c.outs) : FALSE
    BY HoldsIs
  <2> QED BY <2>1
<1> QED BY <1>1 DEF CompWork

\* One more output: entries up to e are read, those kept are its table.
ReadUpTo(T, U, c, d, e, read, kept, new) ==
    /\ e \in c.rest /\ SameInputs(c, d)
    /\ \A f : f \in read <=> f \in c.rest /\ (f = e \/ Before(f, e))
    /\ \A f : f \in kept <=> f \in read /\ ~DropIn(T, c, f)
    /\ d.rest = c.rest \ read
    /\ (kept = {} /\ d.outs = c.outs) \/ (kept # {} /\ d.outs = c.outs \cup {new} /\ U[new] = kept)
    /\ \A n \in Files(c.version) \cup c.in0 \cup c.in1 \cup c.outs : U[n] = T[n]

\* One more output, or one more stretch of entries dropped.
LEMMA WorkGoesOn ==
    ASSUME NEW T, NEW U, NEW c \in CompRecord, NEW d, ~c.move,
           In(T, c) \subseteq Entry, Distinct(In(T, c)), CompWork(T, c),
           NEW e, NEW read, NEW kept, NEW new, ReadUpTo(T, U, c, d, e, read, kept, new)
    PROVE  CompWork(U, d)
<1>0. /\ e \in c.rest /\ SameInputs(c, d)
      /\ \A f : f \in read <=> f \in c.rest /\ (f = e \/ Before(f, e))
      /\ \A f : f \in kept <=> f \in read /\ ~DropIn(T, c, f)
      /\ d.rest = c.rest \ read
      /\ (kept = {} /\ d.outs = c.outs) \/ (kept # {} /\ d.outs = c.outs \cup {new} /\ U[new] = kept)
      /\ \A n \in Files(c.version) \cup c.in0 \cup c.in1 \cup c.outs : U[n] = T[n]
  BY DEF ReadUpTo
<1> USE <1>0
<1> DEFINE I == In(T, c)
<1>1. /\ In(U, d) = I /\ \A x : DropIn(U, d, x) <=> DropIn(T, c, x)
      /\ Connected(T, c) => Connected(U, d)
  <2>1. c.version \in Versions /\ \A n \in Files(c.version) \cup c.in0 \cup c.in1 : U[n] = T[n]
    BY DEF CompRecord
  <2> QED BY <2>1, SameIn
<1>2. /\ Connected(T, c) /\ c.rest \subseteq I
      /\ (\A x \in I : x.seq <= c.smallest_snapshot)
      /\ (\A x : x \in Holds(T, c.outs) <=> x \in I /\ x \notin c.rest /\ ~DropIn(T, c, x))
      /\ (\A f \in I \ c.rest, g \in c.rest : Before(f, g))
      /\ (\A a, b \in c.outs : a # b => Apart(T[a], T[b]))
      /\ \A a \in c.outs : T[a] # {}
  BY DEF CompWork
<1> HIDE DEF I
<1>3. I \subseteq Entry /\ Distinct(I)
  BY DEF I
<1>4. \A x : x \in Holds(U, d.outs) <=> x \in I /\ x \notin d.rest /\ ~DropIn(T, c, x)
  <2>1. \A x : x \in Holds(U, d.outs) <=> x \in Holds(T, c.outs) \/ x \in kept
    <3>1. ASSUME NEW x \in Holds(U, d.outs) PROVE x \in Holds(T, c.outs) \/ x \in kept
      <4>1. PICK n \in d.outs : x \in U[n]
        BY <3>1, HoldsIs
      <4>2. n \in c.outs \/ U[n] = kept
        BY <4>1
      <4> QED BY <4>1, <4>2, HoldsIs
    <3>2. ASSUME NEW x \in Holds(T, c.outs) PROVE x \in Holds(U, d.outs)
      <4>1. PICK n \in c.outs : x \in T[n]
        BY <3>2, HoldsIs
      <4>2. n \in d.outs /\ x \in U[n]
        BY <4>1
      <4> QED BY <4>2, HoldsIs
    <3>3. ASSUME NEW x \in kept PROVE x \in Holds(U, d.outs)
      <4>1. new \in d.outs /\ x \in U[new]
        BY <3>3
      <4> QED BY <4>1, HoldsIs
    <3> QED BY <3>1, <3>2, <3>3
  <2> QED BY <1>2, <2>1
<1>5. ASSUME NEW f \in I \ d.rest, NEW g \in d.rest PROVE Before(f, g)
  <2>1. g \in c.rest /\ g \notin read /\ g \in I /\ e \in I
    BY <1>2, <1>5
  <2>2. CASE f \notin c.rest
    BY <1>2, <2>1, <2>2, <1>5
  <2>3. CASE f \in read
    <3>1. g # e /\ ~Before(g, e)
      BY <2>1
    <3>2. Before(e, g)
      BY <1>3, <2>1, <3>1, EntryIs DEF Before, Distinct
    <3>3. f = e \/ Before(f, e)
      BY <2>3
    <3> QED BY <1>3, <1>5, <2>1, <3>2, <3>3, EntryIs DEF Before
  <2> QED BY <1>5, <2>2, <2>3
\* What is kept is past the earlier outputs, and they hold no entry of its keys.
<1>6. ASSUME NEW a \in c.outs PROVE Apart(T[a], kept) /\ Apart(kept, T[a])
  <2>1. ASSUME NEW x \in T[a], NEW y \in kept PROVE x.key < y.key
    <3>1. x \in I /\ x \notin c.rest /\ y \in c.rest /\ y \in I /\ ~DropIn(T, c, y)
      BY <1>2, <1>6, <2>1, HoldsIs
    <3>2. Before(x, y)
      BY <1>2, <3>1
    <3>3. ~(x.key = y.key /\ x.seq > y.seq)
      BY <1>2, <3>1 DEF DropIn, I
    <3> QED BY <3>2, <3>3 DEF Before
  <2>2. T[a] \subseteq Entry /\ kept \subseteq Entry
    BY <1>2, <1>3, <1>6, HoldsIs
  <2> QED BY <2>1, <2>2, EntryIs DEF Apart
<1>7. \A a, b \in d.outs : a # b => Apart(U[a], U[b])
  <2>0. \A a \in c.outs : U[a] = T[a]
    OBVIOUS
  <2>1. \A a \in d.outs : (a \in c.outs /\ U[a] = T[a]) \/ (a = new /\ U[a] = kept)
    <3>1. CASE d.outs = c.outs
      BY <2>0, <3>1
    <3>2. CASE d.outs = c.outs \cup {new} /\ U[new] = kept
      BY <2>0, <3>2
    <3> QED BY <3>1, <3>2
  <2> QED BY <1>2, <1>6, <2>1
<1>8. \A a \in d.outs : U[a] # {}
  BY <1>2
<1>9. d.rest \subseteq I /\ d.smallest_snapshot = c.smallest_snapshot /\ d.move = c.move
  BY <1>2 DEF SameInputs
<1> QED BY <1>1, <1>2, <1>4, <1>5, <1>7, <1>8, <1>9 DEF CompWork

-----------------------------------------------------------------------------
(* Looking through a version *)

\* What a reader may see of a key.
LEMMA HitsAre ==
    ASSUME NEW S, NEW k, NEW s
    PROVE  \A e : e \in Hits(S, k, s) <=> e \in S /\ e.key = k /\ e.seq <= s
BY DEF Hits

\* A set of integers bounded from below has a least element.
LEMMA LeastIs ==
    ASSUME NEW S, S \subseteq Int, S # {}, NEW b \in Int, \A x \in S : b <= x
    PROVE  \E x \in S : \A y \in S : x <= y
<1> DEFINE N == {x - b : x \in S}
           Less == {ss \in Nat \X Nat : ss[1] < ss[2]}
<1>0. IsWellFoundedOn(Less, Nat)
  BY NatLessThanWellFounded DEF OpToRel
<1>1. N \subseteq Nat /\ N # {}
  <2>1. \A x \in S : x - b \in Nat
    OBVIOUS
  <2> QED BY <2>1
<1>2. \A y \in S : y - b \in N
  OBVIOUS
<1>3. \A n \in N : \E x \in S : n = x - b
  OBVIOUS
<1> HIDE DEF N, Less
<1>4. PICK n \in N : \A m \in N : <<m, n>> \notin Less
  BY <1>0, <1>1, WFMin
<1>5. PICK x \in S : n = x - b
  BY <1>3
<1>6. ASSUME NEW y \in S PROVE x <= y
  <2>1. ~(y - b < x - b)
    <3>1. y - b \in N /\ y - b \in Nat /\ x - b \in Nat
      BY <1>1, <1>2, <1>5
    <3>2. <<y - b, x - b>> \notin Less
      BY <1>4, <1>5, <3>1
    <3> QED BY <3>1, <3>2 DEF Less
  <2> QED BY <2>1
<1> QED BY <1>6

\* The first place that has the key.
LEMMA FirstIs ==
    ASSUME NEW f, NEW k, NEW s, NEW b \in Int, DOMAIN f \subseteq Int, \A i \in DOMAIN f : b <= i
    PROVE  \/ (\A i \in DOMAIN f : Hits(f[i], k, s) = {}) /\ FirstHits(f, k, s) = {}
           \/ \E i \in DOMAIN f : /\ Hits(f[i], k, s) # {} /\ FirstHits(f, k, s) = Hits(f[i], k, s)
                                  /\ \A j \in DOMAIN f : Hits(f[j], k, s) # {} => i <= j
<1> DEFINE has == {i \in DOMAIN f : Hits(f[i], k, s) # {}}
           first == {i \in has : \A j \in has : i <= j}
<1>1. FirstHits(f, k, s) = (UNION {Hits(f[i], k, s) : i \in first})
  BY DEF FirstHits
<1>2. CASE has = {}
  <2>1. first = {}
    BY <1>2
  <2> QED BY <1>1, <1>2, <2>1
<1>3. CASE has # {}
  <2>1. has \subseteq Int /\ \A i \in has : b <= i
    OBVIOUS
  <2>2. \A j \in DOMAIN f : Hits(f[j], k, s) # {} => j \in has
    OBVIOUS
  <2>3. \A i \in has : i \in DOMAIN f /\ Hits(f[i], k, s) # {}
    OBVIOUS
  <2> HIDE DEF has
  <2>4. PICK i \in has : \A j \in has : i <= j
    BY <1>3, <2>1, LeastIs
  <2>5. first = {i}
    <3>1. i \in first
      BY <2>4
    <3>2. ASSUME NEW j \in first PROVE j = i
      <4>1. j \in has /\ j <= i /\ i <= j
        BY <2>4
      <4> QED BY <2>1, <4>1
    <3> QED BY <3>1, <3>2
  <2> HIDE DEF first
  <2>6. (UNION {Hits(f[j], k, s) : j \in first}) = Hits(f[i], k, s)
    BY <2>5
  <2> QED BY <1>1, <2>2, <2>3, <2>4, <2>6
<1> QED BY <1>2, <1>3

\* FindFile finds the table of a level that has the key.
LEMMA LevelTableIn ==
    ASSUME NEW v, NEW l, NEW k, NEW s
    PROVE  LevelTable(v, l, k, s) \subseteq Content(v[l])
BY DEF LevelTable, Content

\* A table of the level that has the key is found.
LEMMA LevelTableHas ==
    ASSUME TypeInv, NEW v \in Versions, NEW tw, Files(v) \subseteq DOMAIN tables, Good(tables, v, tw),
           NEW l \in Levels \ {0}, NEW k \in Int, NEW s \in Nat, \A e \in Stored(tables, v) : e.seq <= s,
           NEW n \in v[l], NEW e \in tables[n], e.key = k
    PROVE  \E m \in v[l] : (\E x \in tables[m] : x.key = k) /\ tables[m] \subseteq LevelTable(v, l, k, s)
<1> DEFINE AtOrAfter(m) == \E x \in File(m) : ~Before(x, [key |-> k, seq |-> s])
           First(a) == \A m \in v[l] \ {a} : AtOrAfter(m) =>
                    \A f \in File(a) : \E x \in File(m) : Before(f, x) \/ (f = x /\ a < m)
           Has == {m \in v[l] : \E x \in tables[m] : x.key = k}
<1>1. \A m \in v[l] : /\ m \in Nat /\ File(m) = tables[m] /\ tables[m] \subseteq Entry
                        /\ tables[m] \subseteq Stored(tables, v)
  BY InFiles, FileIs, StoredIs
<1>2. PICK a \in Has : \A m \in Has : a <= m
  <2>1. Has \subseteq Int /\ Has # {} /\ \A m \in Has : 0 <= m
    BY <1>1
  <2> HIDE DEF Has
  <2>2. \E a \in Has : \A m \in Has : a <= m
    <3>1. 0 \in Int
      OBVIOUS
    <3> QED BY <2>1, <3>1, LeastIs
  <2> QED BY <2>2
<1>3. AtOrAfter(a)
  <2>1. PICK x \in tables[a] : x.key = k
    BY <1>2
  <2>2. x.seq <= s /\ x.seq \in Nat /\ x.key \in Int
    BY <1>1, <1>2, <2>1, EntryIs
  <2>3. ~Before(x, [key |-> k, seq |-> s])
    BY <2>1, <2>2 DEF Before
  <2> QED BY <1>1, <1>2, <2>1, <2>3
<1>4. ASSUME NEW m \in v[l] \ {a}, AtOrAfter(m), NEW f \in File(a)
      PROVE  \E x \in File(m) : Before(f, x) \/ (f = x /\ a < m)
  <2>1. PICK x \in File(m) : ~Before(x, [key |-> k, seq |-> s])
    BY <1>4
  <2>2. x.key >= k /\ x \in tables[m] /\ x \in Entry
    <3>1. x \in tables[m] /\ x \in Entry
      BY <1>1, <1>4
    <3>2. ~(x.key < k)
      BY <2>1 DEF Before
    <3> QED BY <3>1, <3>2, EntryIs
  <2>3. PICK y \in tables[a] : y.key = k
    BY <1>2
  <2>4. f \in tables[a] /\ f \in Entry
    BY <1>1, <1>2, <1>4
  <2>5. CASE tables[a] = tables[m]
    <3>1. m \in Has
      BY <1>4, <2>3, <2>5
    <3>2. a < m
      BY <1>1, <1>2, <1>4, <3>1
    <3> QED BY <1>1, <1>4, <2>4, <2>5, <3>2
  <2>6. CASE Apart(tables[a], tables[m])
    <3>1. f.key < x.key
      BY <2>2, <2>3, <2>4, <2>6, EntryIs DEF Apart
    <3> QED BY <2>1, <3>1 DEF Before
  <2> QED BY <1>2, <1>4, <2>5, <2>6 DEF Good
<1>5. First(a)
  BY <1>4
<1>6. LevelTable(v, l, k, s) = Content({m \in v[l] : AtOrAfter(m) /\ First(m)})
  BY DEF LevelTable
<1>7. a \in v[l] /\ \E x \in tables[a] : x.key = k
  BY <1>2
<1>8. a \in {m \in v[l] : AtOrAfter(m) /\ First(m)}
  BY <1>3, <1>5, <1>7
<1> HIDE DEF First, AtOrAfter, Has
<1>9. File(a) \subseteq LevelTable(v, l, k, s)
  BY <1>6, <1>8, ContentIs
<1> QED BY <1>1, <1>7, <1>9

\* Version::Get: what the tables say of a key.
Place(v, k, s, i) == IF i <= 0 THEN File(-i) ELSE LevelTable(v, i, k, s)
Places(v, k, s) == [i \in {-n : n \in v[0]} \cup 1..NumLevels - 1 |-> Place(v, k, s, i)]
TablesTell(v, k, X) ==
    \/ X = {} /\ \A e \in Stored(tables, v) : e.key # k
    \/ /\ X \subseteq Stored(tables, v) /\ \A x \in X : x.key = k
       /\ \E x \in X : \A e \in Stored(tables, v) : e.key = k => e.seq <= x.seq

\* The place of a table that has the key shows such a table.
LEMMA PlaceShows ==
    ASSUME TypeInv, NEW v \in Versions, NEW tw, Files(v) \subseteq DOMAIN tables, Good(tables, v, tw),
           NEW k \in Int, NEW s \in Nat, \A e \in Stored(tables, v) : e.seq <= s,
           NEW l \in Levels, NEW n \in v[l], NEW e \in tables[n], e.key = k
    PROVE  /\ Rank(l, n) \in DOMAIN Places(v, k, s)
           /\ Hits(Places(v, k, s)[Rank(l, n)], k, s) # {}
<1>1. \A i \in Levels : \A m \in v[i] : /\ m \in Nat /\ File(m) = tables[m] /\ tables[m] \subseteq Entry
                                        /\ tables[m] \subseteq Stored(tables, v)
  BY InFiles, FileIs, StoredIs
<1>2. l \in Nat /\ NumLevels \in Nat /\ 0 \in Levels
  BY LevelOf, LevelNumbers
<1>3. CASE l = 0
  <2>1. Rank(l, n) = -n /\ -n <= 0 /\ -(-n) = n
    BY <1>1, <1>3 DEF Rank
  <2>2. -n \in DOMAIN Places(v, k, s)
    BY <1>3 DEF Places
  <2>3. Places(v, k, s)[-n] = File(n)
    BY <2>1, <2>2 DEF Places, Place
  <2>4. e \in Hits(File(n), k, s)
    BY <1>1, HitsAre
  <2> QED BY <2>1, <2>2, <2>3, <2>4
<1>4. CASE l # 0
  <2>1. Rank(l, n) = l /\ l \in 1..NumLevels - 1 /\ ~(l <= 0)
    BY <1>2, <1>4 DEF Rank, Levels
  <2>2. l \in DOMAIN Places(v, k, s)
    BY <2>1 DEF Places
  <2>3. Places(v, k, s)[l] = LevelTable(v, l, k, s)
    BY <2>1, <2>2 DEF Places, Place
  <2>4. PICK m \in v[l] : (\E x \in tables[m] : x.key = k) /\ tables[m] \subseteq LevelTable(v, l, k, s)
    BY <1>4, LevelTableHas
  <2>5. PICK x \in tables[m] : x.key = k
    BY <2>4
  <2>6. x \in Hits(LevelTable(v, l, k, s), k, s)
    BY <1>1, <2>4, <2>5, HitsAre
  <2> QED BY <2>1, <2>2, <2>3, <2>6
<1> QED BY <1>3, <1>4

\* And what a place shows comes from a table of that rank, whole.
LEMMA PlaceHolds ==
    ASSUME TypeInv, NEW v \in Versions, NEW tw, Files(v) \subseteq DOMAIN tables, Good(tables, v, tw),
           NEW k \in Int, NEW s \in Nat, \A e \in Stored(tables, v) : e.seq <= s,
           NEW i \in DOMAIN Places(v, k, s), NEW h \in Hits(Places(v, k, s)[i], k, s)
    PROVE  /\ Places(v, k, s)[i] \subseteq Stored(tables, v)
           /\ \E l \in Levels : \E n \in v[l] :
                Rank(l, n) = i /\ (\E x \in tables[n] : x.key = k) /\ tables[n] \subseteq Places(v, k, s)[i]
<1>1. \A l \in Levels : \A m \in v[l] : /\ m \in Nat /\ File(m) = tables[m] /\ tables[m] \subseteq Entry
                                        /\ tables[m] \subseteq Stored(tables, v)
  BY InFiles, FileIs, StoredIs
<1>2. i \in {-n : n \in v[0]} \cup 1..NumLevels - 1 /\ Places(v, k, s)[i] = Place(v, k, s, i)
  BY DEF Places
<1>3. h \in Place(v, k, s, i) /\ h.key = k
  BY <1>2, HitsAre
<1>4. NumLevels \in Nat /\ 0 \in Levels
  BY LevelNumbers
<1>5. CASE i \in {-n : n \in v[0]}
  <2>1. PICK n \in v[0] : i = -n
    BY <1>5
  <2>2. n \in Nat /\ i <= 0 /\ -i = n
    BY <1>1, <1>4, <2>1
  <2>3. Place(v, k, s, i) = tables[n] /\ Rank(0, n) = i
    BY <1>1, <1>4, <2>1, <2>2 DEF Place, Rank
  <2> QED BY <1>1, <1>2, <1>3, <1>4, <2>3
<1>6. CASE i \in 1..NumLevels - 1
  <2>1. i \in Levels \ {0} /\ ~(i <= 0)
    BY <1>4, <1>6 DEF Levels
  <2>2. Place(v, k, s, i) = LevelTable(v, i, k, s)
    BY <2>1 DEF Place
  <2>3. Place(v, k, s, i) \subseteq Content(v[i])
    BY <2>2, LevelTableIn
  <2>4. ASSUME NEW e \in Content(v[i]) PROVE \E n \in v[i] : e \in tables[n]
    BY <1>1, <2>1, <2>4, ContentIs
  <2>5. PICK n \in v[i] : h \in tables[n]
    BY <1>3, <2>3, <2>4
  <2>6. PICK m \in v[i] : (\E x \in tables[m] : x.key = k) /\ tables[m] \subseteq LevelTable(v, i, k, s)
    BY <1>3, <2>1, <2>5, LevelTableHas
  <2>7. Rank(i, m) = i
    BY <2>1 DEF Rank
  <2>8. Place(v, k, s, i) \subseteq Stored(tables, v)
    BY <1>1, <2>1, <2>3, <2>4
  <2> QED BY <1>2, <2>1, <2>2, <2>6, <2>7, <2>8
<1> QED BY <1>2, <1>5, <1>6

\* Version::Get: what it finds is all that the version stores of the key, or the newest.
LEMMA TableHitsTell ==
    ASSUME TypeInv, NEW v \in Versions, NEW tw, Files(v) \subseteq DOMAIN tables, Good(tables, v, tw),
           NEW k \in Int, NEW s \in Nat, \A e \in Stored(tables, v) : e.seq <= s,
           NEW b \in Nat, \A n \in Files(v) : n < b
    PROVE  TablesTell(v, k, TableHits(v, k, s))
<1> DEFINE f == Places(v, k, s)
           A == Stored(tables, v)
<1>1. TableHits(v, k, s) = FirstHits(f, k, s)
  BY DEF TableHits, Places, Place
<1>2. \A l \in Levels : \A m \in v[l] : /\ m \in Nat /\ m < b /\ tables[m] \subseteq Entry /\ tables[m] \subseteq A
  BY InFiles, FileIs, StoredIs
<1>3. DOMAIN f \subseteq Int /\ \A i \in DOMAIN f : -b <= i
  <2>1. NumLevels \in Nat /\ 0 \in Levels
    BY LevelNumbers
  <2>2. \A n \in v[0] : n \in Nat /\ n < b
    BY <1>2, <2>1
  <2>3. DOMAIN f = {-n : n \in v[0]} \cup 1..NumLevels - 1
    BY DEF Places
  <2> QED BY <2>1, <2>2, <2>3
<1>4. ASSUME NEW e \in A, e.key = k
      PROVE  \E l \in Levels : \E n \in v[l] : /\ e \in tables[n] /\ Rank(l, n) \in DOMAIN f
                                                 /\ Hits(f[Rank(l, n)], k, s) # {}
  <2>1. PICK n \in Files(v) : e \in tables[n]
    BY StoredIs
  <2>2. PICK l \in Levels : n \in v[l]
    BY FilesAre
  <2> QED BY <1>4, <2>1, <2>2, PlaceShows
<1> DEFINE X == TableHits(v, k, s)
<1>5. CASE (\A i \in DOMAIN f : Hits(f[i], k, s) = {}) /\ FirstHits(f, k, s) = {}
  BY <1>1, <1>4, <1>5 DEF TablesTell
<1>6. ASSUME NEW i \in DOMAIN f, Hits(f[i], k, s) # {}, FirstHits(f, k, s) = Hits(f[i], k, s),
             \A j \in DOMAIN f : Hits(f[j], k, s) # {} => i <= j
      PROVE  TablesTell(v, k, X)
  <2>1. PICK h \in Hits(f[i], k, s) : TRUE
    BY <1>6
  <2>2. /\ f[i] \subseteq A
        /\ \E l \in Levels : \E n \in v[l] :
             Rank(l, n) = i /\ (\E x \in tables[n] : x.key = k) /\ tables[n] \subseteq f[i]
    BY PlaceHolds
  <2> HIDE DEF f
  <2>0. PICK l \in Levels : \E n \in v[l] :
               Rank(l, n) = i /\ (\E x \in tables[n] : x.key = k) /\ tables[n] \subseteq f[i]
    BY <2>2
  <2>3. PICK n \in v[l] : Rank(l, n) = i /\ (\E x \in tables[n] : x.key = k) /\ tables[n] \subseteq f[i]
    BY <2>0
  <2>4. X = Hits(f[i], k, s) /\ X # {}
    BY <1>1, <1>6
  <2>5. \A x : x \in X <=> x \in f[i] /\ x.key = k /\ x.seq <= s
    BY <2>4, HitsAre
  <2>6. A \subseteq Entry
    <3> SUFFICES ASSUME NEW e \in A PROVE e \in Entry
      OBVIOUS
    <3>1. PICK m \in Files(v) : e \in tables[m]
      BY StoredIs
    <3>2. PICK j \in Levels : m \in v[j]
      BY FilesAre
    <3> QED BY <1>2, <3>1, <3>2
  <2>7. X \subseteq A /\ X \subseteq Entry
    BY <2>2, <2>5, <2>6
  <2>8. PICK x \in X : \A e \in X : e.seq <= x.seq
    BY <2>4, <2>7, NewestIs
  <2>9. \A e \in tables[n] : e.key = k => e \in X
    BY <1>2, <2>3, <2>5
  <2>10. ASSUME NEW e \in A, e.key = k PROVE e.seq <= x.seq
    <3>0. PICK j \in Levels : \E m \in v[j] :
                 e \in tables[m] /\ Rank(j, m) \in DOMAIN f /\ Hits(f[Rank(j, m)], k, s) # {}
      BY <1>4, <2>10
    <3>1. PICK m \in v[j] : e \in tables[m] /\ Rank(j, m) \in DOMAIN f /\ Hits(f[Rank(j, m)], k, s) # {}
      BY <3>0
    <3>2. i <= Rank(j, m) /\ i \in Int /\ Rank(j, m) \in Int
      BY <1>3, <1>6, <3>1 DEF f
    <3>3. PICK y \in tables[n] : y.key = k
      BY <2>3
    <3>4. CASE Rank(l, n) < Rank(j, m)
      <4>1. Covers(tables[n], tables[m])
        BY <3>4 DEF Good
      <4>2. PICK z \in tables[n] : z.key = k /\ z.seq >= e.seq
        BY <2>10, <3>1, <3>3, <4>1 DEF Covers
      <4>3. z.seq <= x.seq /\ z \in Entry /\ x \in Entry /\ e \in Entry
        BY <2>6, <2>7, <2>8, <2>9, <4>2
      <4> QED BY <4>2, <4>3, EntryIs
    <3>5. CASE Rank(l, n) = Rank(j, m)
      <4>1. l \in Nat /\ j \in Nat /\ n \in Nat /\ m \in Nat
        BY <1>2, LevelOf
      <4>2. l = j /\ (l = 0 => n = m)
        BY <3>5, <4>1 DEF Rank
      <4>3. n = m \/ (l # 0 /\ (Apart(tables[n], tables[m]) \/ tables[n] = tables[m]))
        BY <4>2 DEF Good
      <4>4. ~Apart(tables[n], tables[m])
        <5>1. tables[n] \subseteq Entry /\ tables[m] \subseteq Entry
          BY <1>2
        <5> QED BY <2>10, <3>1, <3>3, <5>1, EntryIs DEF Apart
      <4>5. e \in tables[n]
        BY <3>1, <4>3, <4>4
      <4> QED BY <2>8, <2>9, <2>10, <4>5
    <3> QED BY <2>3, <3>2, <3>4, <3>5
  <2> QED BY <2>5, <2>7, <2>10 DEF TablesTell
<1> QED BY <1>3, <1>5, <1>6, FirstIs

-----------------------------------------------------------------------------
(* What a reader finds *)

\* What makes a reader right that holds version v, the memtables M and I, and
\* sequence number s, when H has been written.
Upto(H, s) == {h \in H : h.seq <= s}
Readable(T, v, M, I, H, s, tw) ==
    /\ Good(T, v, tw)
    /\ Stored(T, v) \subseteq Upto(H, s) /\ I \subseteq Upto(H, s) /\ M \subseteq H
    /\ Older(Stored(T, v), I) /\ Older(Stored(T, v), M) /\ Older(I, M)
    /\ Complete(Stored(T, v), Upto(H, s) \ (M \cup I))
    /\ Older(Upto(H, s) \ (M \cup I), M \cup I)

\* Where the memtables have nothing of a key, the tables tell what was written.
LEMMA TablesSuffice ==
    ASSUME NEW A, NEW H, NEW k, NEW X, NEW S, A \subseteq Entry, H \subseteq Entry,
           \A e \in A : e.key = k => e \in H, \A e : e \in S <=> e \in H /\ e.key = k,
           Complete(A, H),
           \/ X = {} /\ \A e \in A : e.key # k
           \/ /\ X \subseteq A /\ \A x \in X : x.key = k
              /\ \E x \in X : \A e \in A : e.key = k => e.seq <= x.seq
    PROVE  Tells(X, S)
<1>1. CASE X = {} /\ \A e \in A : e.key # k
  <2>1. CASE S = {}
    BY <1>1, <2>1 DEF Tells
  <2>2. CASE S # {}
    <3>1. S \subseteq Entry
      OBVIOUS
    <3>2. PICK h \in S : \A f \in S : f.seq <= h.seq
      BY <2>2, <3>1, NewestIs
    <3>3. Kept(h, A, H)
      BY <3>2 DEF Complete
    <3>4. PICK d \in H : d.key = h.key /\ d.seq >= h.seq /\ d.del
      BY <1>1, <3>2, <3>3 DEF Kept
    <3>5. d \in S
      BY <3>2, <3>4
    <3>6. \A f \in S : f.seq <= d.seq
      BY <3>1, <3>2, <3>4, <3>5, EntryIs
    <3> QED BY <1>1, <3>4, <3>5, <3>6 DEF Tells
  <2> QED BY <2>1, <2>2
<1>2. CASE /\ X \subseteq A /\ \A x \in X : x.key = k
           /\ \E x \in X : \A e \in A : e.key = k => e.seq <= x.seq
  <2>1. PICK x \in X : \A e \in A : e.key = k => e.seq <= x.seq
    BY <1>2
  <2>2. x \in A /\ x.key = k /\ x \in S
    BY <1>2, <2>1
  <2>3. ASSUME NEW h \in S PROVE h.seq <= x.seq
    <3>1. Kept(h, A, H) /\ h.key = k
      BY DEF Complete
    <3>2. PICK e \in A : e.key = h.key /\ e.seq >= h.seq
      BY <2>2, <3>1 DEF Kept
    <3>3. e.seq <= x.seq
      BY <2>1, <3>1, <3>2
    <3>4. e \in Entry /\ x \in Entry /\ h \in Entry
      BY <2>2, <2>3, <3>2
    <3> QED BY <3>2, <3>3, <3>4, EntryIs
  <2>4. \A f \in X : f.seq <= x.seq
    BY <1>2, <2>1
  <2> QED BY <2>2, <2>3, <2>4 DEF Tells
<1> QED BY <1>1, <1>2

\* Where the newest part has something of a key, that is the answer.
LEMMA NewestSuffice ==
    ASSUME NEW X, NEW S, X # {}, S \subseteq Entry, X \subseteq S,
           \A h \in S : h \in X \/ \A e \in X : h.seq < e.seq
    PROVE  Tells(X, S)
<1>1. PICK x \in X : \A f \in X : f.seq <= x.seq
  BY NewestIs
<1>2. ASSUME NEW h \in S PROVE h.seq <= x.seq
  <2>1. h.seq < x.seq => h.seq <= x.seq
    BY <1>1, EntryIs
  <2> QED BY <1>1, <2>1
<1> QED BY <1>1, <1>2 DEF Tells

\* A Get answers what was written.
LEMMA ReadIs ==
    ASSUME TypeInv, NEW v \in Versions, NEW tw, Files(v) \subseteq DOMAIN tables,
           NEW b \in Nat, \A n \in Files(v) : n < b,
           NEW m \in DOMAIN mems, NEW i, i # 0 => i \in DOMAIN mems, NEW s \in Nat,
           NEW k \in UserKeys, Distinct(history),
           Readable(tables, v, mems[m], IF i = 0 THEN {} ELSE mems[i], history, s, tw)
    PROVE  Get(MemHits(m, i, k, s), v, k, s) = Truth(k, s)
<1> DEFINE M == mems[m]
           I == IF i = 0 THEN {} ELSE mems[i]
           A == Stored(tables, v)
           H == Upto(history, s)
           J == H \ (M \cup I)
           S == Hits(history, k, s)
           X == IF MemHits(m, i, k, s) # {} THEN MemHits(m, i, k, s) ELSE TableHits(v, k, s)
<1>1. /\ Good(tables, v, tw) /\ A \subseteq H /\ I \subseteq H /\ M \subseteq history
      /\ Older(A, I) /\ Older(A, M) /\ Older(I, M)
      /\ Complete(A, J) /\ Older(J, M \cup I)
  BY DEF Readable
<1>2. history \subseteq Entry /\ \A h : h \in H <=> h \in history /\ h.seq <= s
  BY DEF TypeInv, Upto
<1>3. \A e : e \in S <=> e \in history /\ e.key = k /\ e.seq <= s
  BY HitsAre
<1>4. k \in Int
  <2>1. \E bt \in Batches : \E j \in DOMAIN bt : k = bt[j].key
    BY DEF UserKeys
  <2>2. PICK bt \in Batches : \E j \in DOMAIN bt : k = bt[j].key
    BY <2>1
  <2>3. PICK j \in DOMAIN bt : k = bt[j].key
    BY <2>2
  <2> DEFINE R == [key : Int, del : BOOLEAN]
  <2>4. bt \in Seq(R)
    BY LevelsAssumption
  <2> HIDE DEF R
  <2>5. bt[j] \in R
    BY <2>4, ElementOfSeq
  <2> QED BY <2>3, <2>5 DEF R
<1>5. i = 0 => I = {}
  OBVIOUS
<1>6. i # 0 => I = mems[i]
  OBVIOUS
<1>7. MemHits(m, i, k, s) = IF i = 0 \/ Hits(M, k, s) # {} THEN Hits(M, k, s) ELSE Hits(I, k, s)
  BY DEF MemHits
<1> HIDE DEF M, I, A, H, S
<1>8. J = H \ (M \cup I)
  OBVIOUS
<1> HIDE DEF J
<1>9. ASSUME Hits(M, k, s) # {} PROVE Tells(X, S) /\ X \subseteq Entry
  <2>1. X = Hits(M, k, s)
    BY <1>7, <1>9
  <2> HIDE DEF X
  <2>2. ASSUME NEW h \in S PROVE h \in M \/ \A e \in Hits(M, k, s) : h.seq < e.seq
    <3>1. h \in H
      BY <1>2, <1>3
    <3>2. h \in M \/ h \in I \/ h \in J
      BY <1>8, <3>1
    <3> QED BY <1>1, <3>2, HitsAre DEF Older
  <2>3. Tells(X, S)
    <3>1. \A e : e \in X <=> e \in M /\ e.key = k /\ e.seq <= s
      BY <2>1, HitsAre
    <3>2. X # {} /\ S \subseteq Entry
      BY <1>2, <1>3, <1>9, <2>1
    <3>3. X \subseteq S
      BY <1>1, <1>2, <1>3, <3>1
    <3>4. \A h \in S : h \in X \/ \A e \in X : h.seq < e.seq
      BY <1>3, <2>1, <2>2, <3>1
    <3> QED BY <3>2, <3>3, <3>4, NewestSuffice
  <2>4. X \subseteq Entry
    BY <1>1, <1>2, <2>1, HitsAre
  <2> QED BY <2>3, <2>4
<1>10. ASSUME Hits(M, k, s) = {}, Hits(I, k, s) # {} PROVE Tells(X, S) /\ X \subseteq Entry
  <2>1. X = Hits(I, k, s)
    BY <1>5, <1>7, <1>10 DEF Hits
  <2> HIDE DEF X
  <2>2. ASSUME NEW h \in S PROVE h \in I \/ \A e \in Hits(I, k, s) : h.seq < e.seq
    <3>1. h \in H /\ h \notin M
      BY <1>2, <1>3, <1>10, HitsAre
    <3>2. h \in I \/ h \in J
      BY <1>8, <3>1
    <3> QED BY <1>1, <3>2, HitsAre DEF Older
  <2>3. I \subseteq history
    BY <1>1, <1>2
  <2>4. Tells(X, S)
    <3>1. \A e : e \in X <=> e \in I /\ e.key = k /\ e.seq <= s
      BY <2>1, HitsAre
    <3>2. X # {} /\ S \subseteq Entry
      BY <1>2, <1>3, <1>10, <2>1
    <3>3. X \subseteq S
      BY <1>1, <1>2, <1>3, <2>3, <3>1
    <3>4. \A h \in S : h \in X \/ \A e \in X : h.seq < e.seq
      BY <1>3, <2>1, <2>2, <3>1
    <3> QED BY <3>2, <3>3, <3>4, NewestSuffice
  <2>5. X \subseteq Entry
    BY <1>2, <2>1, <2>3, HitsAre
  <2> QED BY <2>4, <2>5
<1>11. ASSUME Hits(M, k, s) = {}, Hits(I, k, s) = {} PROVE Tells(X, S) /\ X \subseteq Entry
  <2>1. MemHits(m, i, k, s) = {}
    BY <1>7, <1>11
  <2>2. X = TableHits(v, k, s)
    BY <2>1
  <2>3. \A e \in A : e.seq <= s
    BY <1>1, <1>2
  <2>4. TablesTell(v, k, TableHits(v, k, s))
    BY <1>1, <1>4, <2>3, TableHitsTell DEF A
  <2>5. \/ X = {} /\ \A e \in A : e.key # k
        \/ /\ X \subseteq A /\ \A x \in X : x.key = k
           /\ \E x \in X : \A e \in A : e.key = k => e.seq <= x.seq
    BY <2>2, <2>4 DEF TablesTell, A
  <2> HIDE DEF X
  <2>6. ASSUME NEW e \in A, e.key = k PROVE e \in J
    <3>1. e \in H /\ e \in history /\ e.seq <= s
      BY <1>1, <1>2
    <3>2. e \notin M /\ e \notin I
      BY <1>11, <2>6, <3>1, HitsAre
    <3> QED BY <1>8, <3>1, <3>2
  <2>7. \A e : e \in S <=> e \in J /\ e.key = k
    <3>1. ASSUME NEW e \in S PROVE e \in J /\ e.key = k
      <4>1. e \notin M /\ e \notin I /\ e \in H /\ e.key = k
        BY <1>2, <1>3, <1>11, <3>1, HitsAre
      <4> QED BY <1>8, <4>1
    <3>2. ASSUME NEW e \in J, e.key = k PROVE e \in S
      BY <1>2, <1>3, <1>8, <3>2
    <3> QED BY <3>1, <3>2
  <2>8. A \subseteq J
    <3> SUFFICES ASSUME NEW e \in A PROVE e \in J
      OBVIOUS
    <3>1. e \in H /\ e \in Entry
      BY <1>1, <1>2
    <3>2. e \notin M /\ e \notin I
      <4>1. e \in M => e.seq < e.seq
        BY <1>1 DEF Older
      <4>2. e \in I => e.seq < e.seq
        BY <1>1 DEF Older
      <4> QED BY <3>1, <4>1, <4>2, EntryIs
    <3> QED BY <1>8, <3>1, <3>2
  <2>9. J \subseteq Entry
    BY <1>2, <1>8
  <2>10. Tells(X, S)
    BY <1>1, <2>5, <2>6, <2>7, <2>8, <2>9, TablesSuffice
  <2>11. X \subseteq Entry
    BY <2>5, <2>8, <2>9
  <2> QED BY <2>10, <2>11
<1>12. Tells(X, S) /\ X \subseteq Entry
  <2> HIDE DEF X
  <2> QED BY <1>9, <1>10, <1>11
<1>13. S \subseteq Entry /\ Distinct(S)
  BY <1>2, <1>3 DEF Distinct
<1> HIDE DEF X
<1>14. Distinct(X)
  <2>1. X \subseteq history
    <3>1. MemHits(m, i, k, s) \subseteq history
      <4>1. Hits(M, k, s) \subseteq history
        BY <1>1, HitsAre
      <4>2. Hits(I, k, s) \subseteq history
        BY <1>1, <1>2, HitsAre
      <4> QED BY <1>7, <4>1, <4>2
    <3>2. TableHits(v, k, s) \subseteq history
      <4>1. \A e \in A : e.seq <= s
        BY <1>1, <1>2
      <4>2. TablesTell(v, k, TableHits(v, k, s))
        BY <1>1, <1>4, <4>1, TableHitsTell DEF A
      <4>3. TableHits(v, k, s) \subseteq A
        BY <4>2 DEF TablesTell, A
      <4> QED BY <1>1, <1>2, <4>3
    <3> QED BY <3>1, <3>2 DEF X
  <2> QED BY <2>1 DEF Distinct
<1>15. Answer(X) = Answer(S)
  BY <1>12, <1>13, <1>14, SameAnswer
<1> QED BY <1>15 DEF Get, Truth, X, S

\* Keys are ordered.
LEMMA UserKeyIs ==
    ASSUME NEW k \in UserKeys
    PROVE  k \in Int
<1>1. \E bt \in Batches : \E j \in DOMAIN bt : k = bt[j].key
  BY DEF UserKeys
<1>2. PICK bt \in Batches : \E j \in DOMAIN bt : k = bt[j].key
  BY <1>1
<1>3. PICK j \in DOMAIN bt : k = bt[j].key
  BY <1>2
<1> DEFINE R == [key : Int, del : BOOLEAN]
<1>4. bt \in Seq(R)
  BY LevelsAssumption
<1> HIDE DEF R
<1>5. bt[j] \in R
  BY <1>4, ElementOfSeq
<1> QED BY <1>3, <1>5 DEF R

\* The logs' entries, log by log.
LEMMA LoggedIs ==
    ASSUME NEW L
    PROVE  /\ DOMAIN Logged(L) = DOMAIN L
           /\ \A n \in DOMAIN L : Logged(L)[n] = LogEntries(L[n])
BY DEF Logged

\* What the manifest leads to and the logs from its log number on give
\* everything back.
LEMMA RecoveryIs ==
    ASSUME TypeInv, NEW tw, NEW last, Files(Cur.version) \subseteq DOMAIN tables,
           NEW b \in Nat, \A n \in Files(Cur.version) : n < b, Distinct(history),
           Consistent(tables, Logged(logs), history, Cur.version, last, Cur.log, tw)
    PROVE  RecoveryFindsEverything
<1> DEFINE f == [i \in {-n : n \in LogsToReplay} |-> LogEntries(logs[-i])]
<1> SUFFICES ASSUME NEW k \in UserKeys
             PROVE  Get(FirstHits(f, k, MaxSeq), Cur.version, k, MaxSeq) = Truth(k, MaxSeq)
  BY DEF RecoveryFindsEverything, Cur
<1> DEFINE v == Cur.version
           ln == Cur.log
           G == Logged(logs)
           P == Replay(G, ln)
           A == Stored(tables, v)
           J == history \ P
           S == Hits(history, k, MaxSeq)
           X == IF FirstHits(f, k, MaxSeq) # {} THEN FirstHits(f, k, MaxSeq) ELSE TableHits(v, k, MaxSeq)
<1>1. /\ P \subseteq history /\ Inside(tables, history, v, last) /\ Follows(tables, G, history, v, ln, tw)
      /\ Good(tables, v, tw) /\ Complete(A, J)
  BY DEF Consistent
<1>2. /\ history \subseteq Entry /\ A \subseteq history /\ k \in Int /\ MaxSeq \in Nat
      /\ v \in Versions /\ ln \in Nat /\ DOMAIN logs \subseteq Nat /\ IsFiniteSet(DOMAIN logs)
  <2>1. Cur \in ManifestRecord
    BY DEF TypeInv
  <2>2. Cur.version \in Versions /\ Cur.log \in Nat
    BY <2>1 DEF ManifestRecord
  <2> QED BY <1>1, <2>2, UserKeyIs, EntryIs DEF Inside, TypeInv
<1>3. \A n : n \in LogsToReplay <=> n \in DOMAIN logs /\ n >= ln
  BY DEF LogsToReplay, Cur
<1>4. \A n \in LogsToReplay : -n \in DOMAIN f /\ f[-n] = G[n]
  <2> SUFFICES ASSUME NEW n \in LogsToReplay PROVE -n \in DOMAIN f /\ f[-n] = G[n]
    OBVIOUS
  <2>1. n \in Nat /\ -(-n) = n
    BY <1>2, <1>3
  <2>2. -n \in DOMAIN f
    OBVIOUS
  <2> QED BY <1>3, <2>1, <2>2, LoggedIs
<1>5. \A i \in DOMAIN f : \E n \in LogsToReplay : i = -n
  OBVIOUS
<1>6. PICK low \in Int : DOMAIN f \subseteq Int /\ \A i \in DOMAIN f : low <= i
  <2> HIDE DEF f
  <2>1. CASE DOMAIN logs = {}
    BY <1>3, <1>5, <2>1
  <2>2. CASE DOMAIN logs # {}
    <3>1. Max(DOMAIN logs) \in DOMAIN logs /\ \A y \in DOMAIN logs : y <= Max(DOMAIN logs)
      <4>1. DOMAIN logs \subseteq Int
        BY <1>2
      <4> QED BY <1>2, <2>2, <4>1, GreatestIs
    <3> DEFINE top == Max(DOMAIN logs)
    <3>2. top \in Nat /\ \A y \in DOMAIN logs : y <= top
      BY <1>2, <3>1
    <3> HIDE DEF top
    <3>3. ASSUME NEW i \in DOMAIN f PROVE i \in Int /\ -top <= i
      <4>1. PICK n \in LogsToReplay : i = -n
        BY <1>5
      <4>2. n \in Nat /\ n <= top
        BY <1>2, <1>3, <3>2
      <4> QED BY <3>2, <4>1, <4>2
    <3>4. -top \in Int
      BY <3>2
    <3> QED BY <3>3, <3>4
  <2> QED BY <2>1, <2>2
<1> HIDE DEF f
<1>7. \A e : e \in S <=> e \in history /\ e.key = k
  <2>1. \A e \in history : e.seq <= MaxSeq
    BY <1>2, EntryIs
  <2> QED BY <2>1, HitsAre
<1>8. \A e \in A : e.seq <= MaxSeq
  BY <1>2, EntryIs
<1>9. TablesTell(v, k, TableHits(v, k, MaxSeq))
  BY <1>1, <1>2, <1>8, TableHitsTell
<1>10. \A n \in LogsToReplay : G[n] \subseteq P
  BY <1>3, ReplayIs, LoggedIs
<1> HIDE DEF A, S, J, P
<1>11. \A h : h \in J <=> h \in history /\ h \notin P
  BY DEF J
<1>12. Older(J, P)
  BY <1>1 DEF Follows, J, P
<1>13. ASSUME NEW i \in DOMAIN f, Hits(f[i], k, MaxSeq) # {}, FirstHits(f, k, MaxSeq) = Hits(f[i], k, MaxSeq),
              \A j \in DOMAIN f : Hits(f[j], k, MaxSeq) # {} => i <= j
       PROVE  Tells(X, S) /\ X \subseteq history
  <2>1. PICK n \in LogsToReplay : i = -n
    BY <1>5
  <2>2. f[i] = G[n] /\ n \in Nat /\ n >= ln /\ n \in DOMAIN G
    BY <1>2, <1>3, <1>4, <2>1, LoggedIs
  <2>3. X = Hits(G[n], k, MaxSeq)
    BY <1>13, <2>2
  <2> HIDE DEF X
  <2>4. ASSUME NEW h \in S PROVE h \in G[n] \/ \A e \in Hits(G[n], k, MaxSeq) : h.seq < e.seq
    <3>1. h \in history /\ h.key = k /\ h.seq <= MaxSeq
      BY <1>2, <1>7, EntryIs
    <3>2. CASE h \in J
      BY <1>10, <1>12, <3>2, HitsAre DEF Older
    <3>3. CASE h \in P
      <4>1. PICK a \in DOMAIN G : a >= ln /\ h \in G[a]
        BY <3>3, ReplayIs DEF P
      <4>2. a \in LogsToReplay /\ a \in Nat /\ a \in DOMAIN logs
        BY <1>2, <1>3, <4>1, LoggedIs
      <4>3. h \in Hits(f[-a], k, MaxSeq) /\ -a \in DOMAIN f
        BY <1>4, <3>1, <4>1, <4>2, HitsAre
      <4>4. -n <= -a
        BY <1>13, <2>1, <4>3
      <4>5. a <= n
        BY <2>2, <4>2, <4>4
      <4>6. CASE a = n
        BY <4>1, <4>6
      <4>7. CASE a < n
        <5>1. Older(G[a], G[n])
          BY <1>1, <2>2, <4>1, <4>7 DEF Follows
        <5> QED BY <4>1, <5>1, HitsAre DEF Older
      <4> QED BY <2>2, <4>2, <4>5, <4>6, <4>7
    <3> QED BY <1>11, <3>1, <3>2, <3>3
  <2>5. G[n] \subseteq history
    BY <1>1, <1>10 DEF P
  <2>6. X # {} /\ S \subseteq Entry
    BY <1>2, <1>7, <1>13, <2>2, <2>3
  <2>7. \A e : e \in X <=> e \in G[n] /\ e.key = k /\ e.seq <= MaxSeq
    BY <2>3, HitsAre
  <2>8. X \subseteq S
    BY <1>7, <2>5, <2>7
  <2>9. ASSUME NEW h \in S PROVE h \in X \/ \A e \in X : h.seq < e.seq
    <3>1. h.key = k /\ h.seq <= MaxSeq
      BY <1>2, <1>7, EntryIs
    <3> QED BY <2>3, <2>4, <2>7, <3>1
  <2>10. X \subseteq history
    BY <2>5, <2>7
  <2> QED BY <2>6, <2>8, <2>9, <2>10, NewestSuffice
<1>14. ASSUME \A i \in DOMAIN f : Hits(f[i], k, MaxSeq) = {}, FirstHits(f, k, MaxSeq) = {}
       PROVE  Tells(X, S) /\ X \subseteq history
  <2>1. X = TableHits(v, k, MaxSeq)
    BY <1>14
  <2> HIDE DEF X
  <2>2. \/ X = {} /\ \A e \in A : e.key # k
        \/ /\ X \subseteq A /\ \A x \in X : x.key = k
           /\ \E x \in X : \A e \in A : e.key = k => e.seq <= x.seq
    BY <1>9, <2>1 DEF TablesTell, A
  <2>3. ASSUME NEW e \in history, e.key = k PROVE e \in J
    <3>1. ASSUME e \in P PROVE FALSE
      <4>1. PICK a \in DOMAIN G : a >= ln /\ e \in G[a]
        BY <3>1, ReplayIs DEF P
      <4>2. a \in LogsToReplay
        BY <1>3, <4>1, LoggedIs
      <4>3. e.seq <= MaxSeq
        BY <1>2, EntryIs
      <4>4. e \in Hits(f[-a], k, MaxSeq) /\ -a \in DOMAIN f
        BY <1>4, <2>3, <4>1, <4>2, <4>3, HitsAre
      <4> QED BY <1>14, <4>4
    <3> QED BY <1>11, <3>1
  <2>4. \A e \in A : e.key = k => e \in J
    BY <1>2, <2>3
  <2>5. \A e : e \in S <=> e \in J /\ e.key = k
    BY <1>7, <1>11, <2>3
  <2>6. A \subseteq Entry /\ J \subseteq Entry /\ Complete(A, J)
    BY <1>1, <1>2, <1>11 DEF A, J, P
  <2>7. Tells(X, S)
    BY <2>2, <2>4, <2>5, <2>6, TablesSuffice
  <2>8. X \subseteq history
    BY <1>2, <2>2
  <2> QED BY <2>7, <2>8
<1>15. Tells(X, S) /\ X \subseteq history
  <2>1. \/ (\A i \in DOMAIN f : Hits(f[i], k, MaxSeq) = {}) /\ FirstHits(f, k, MaxSeq) = {}
        \/ \E i \in DOMAIN f : /\ Hits(f[i], k, MaxSeq) # {} /\ FirstHits(f, k, MaxSeq) = Hits(f[i], k, MaxSeq)
                               /\ \A j \in DOMAIN f : Hits(f[j], k, MaxSeq) # {} => i <= j
    BY <1>6, FirstIs
  <2> HIDE DEF X
  <2> QED BY <1>13, <1>14, <2>1
<1>16. S \subseteq history
  BY <1>7
<1> HIDE DEF X
<1>17. X \subseteq Entry /\ S \subseteq Entry /\ Distinct(X) /\ Distinct(S)
  BY <1>2, <1>15, <1>16 DEF Distinct
<1>18. Answer(X) = Answer(S)
  BY <1>15, <1>17, SameAnswer
<1> QED BY <1>18 DEF Get, Truth, X, S

-----------------------------------------------------------------------------
(* The invariant *)

\* A table may have been built twice once a write has failed.
Twins == faults > 0
LogE(n) == LogEntries(logs[n])
Fits(v, last, ln) == Consistent(tables, Logged(logs), history, v, last, ln, Twins)
ImmEntries(m, i) == IF i = 0 THEN {} ELSE m[i]

\* What CURRENT leads to, and what it is about to lead to.
Disk ==
    /\ Distinct(history)
    /\ Fits(Cur.version, Cur.last, Cur.log)
    /\ up = "written" => Fits(WithTables(version, 0, recovered), lastSeq, mem)
Recovering == up = "replayed" => Rebuilt(tables, recovered, version, Replay(Logged(logs), Cur.log), Twins)
\* The sequence numbers given.
Sequence ==
    /\ up # "down" => \A h \in history : h.seq <= lastSeq \/ h \in writing
    /\ writing \subseteq history
    /\ \A e \in writing : lastSeq < e.seq /\ e.seq <= lastSeq + Cardinality(writing)
    /\ up # "down" => Cur.last <= lastSeq
\* The memtables hold what their logs hold, and are newer than the tables.
Memory ==
    up = "open" =>
      /\ mems[mem] \cup writing = LogE(mem)
      /\ imm # 0 => /\ mems[imm] = LogE(imm) /\ mems[imm] # {}
                    /\ Older(Stored(tables, version), mems[imm])
      /\ Older(Stored(tables, version), LogE(mem))
      /\ Older(Stored(tables, Cur.version), LogE(mem))
\* The version in use, and after an error the manifest's, under the logs in use.
Tree ==
    up = "open" =>
      /\ Fits(version, lastSeq, logNumber)
      /\ bgError => Fits(Cur.version, lastSeq, logNumber)
\* A failed flush may have left its table in the manifest's version.
Stale ==
    up = "open" /\ bgError /\ imm # 0 /\ (flush # {} \/ \E c \in comp : c.rest # {}) =>
      \A i \in Levels : \A n \in Cur.version[i] : n \in version[i] \/ tables[n] = mems[imm]
Flushing ==
    \A f \in flush :
      /\ tables[f.file] = mems[imm]
      /\ f.level > 0 => \A i \in Levels : i <= f.level => \A n \in version[i] : Apart(mems[imm], tables[n])
      /\ \A n \in Files(version) : n < f.file
      /\ ~f.logged => \A n \in Files(Cur.version) : n < f.file
Compacting ==
    \A c \in comp :
      /\ CompWork(tables, c)
      /\ CompFits(tables, c, version)
      /\ ~c.logged => CompFits(tables, c, Cur.version)
Viewing ==
    \A w \in views :
      Readable(tables, w.version, mems[w.mem], ImmEntries(mems, w.imm), history, w.seq, Twins)
Contents == Disk /\ Recovering /\ Sequence /\ Memory /\ Tree /\ Stale /\ Flushing /\ Compacting /\ Viewing

\* What CURRENT leads to has the shape of a manifest.
LEMMA CurIs ==
    ASSUME TypeInv
    PROVE  Cur.version \in Versions /\ Cur.last \in Nat /\ Cur.log \in Nat /\ Cur.next \in Nat
<1>1. Cur \in ManifestRecord
  BY DEF TypeInv
<1> QED BY <1>1 DEF ManifestRecord

\* The compaction in progress has inputs of the version in use.
LEMMA CompIs ==
    ASSUME TypeInv, Tasks, NEW c \in comp
    PROVE  /\ c \in CompRecord /\ c.version \in Versions /\ c.level \in Levels /\ c.level + 1 \in Levels
           /\ c.in0 \subseteq version[c.level] /\ c.in1 \subseteq version[c.level + 1]
           /\ \A n \in c.in0 \cup c.in1 : n \in Files(version) /\ n \in Files(c.version)
           /\ Files(c.version) \subseteq DOMAIN tables /\ c.outs \subseteq DOMAIN tables
<1>1. c \in CompRecord /\ version \in Versions
  BY DEF TypeInv
<1>2. CompBooks(c, version, DOMAIN tables) /\ c.version \in Versions
  BY <1>1 DEF Tasks, CompRecord
<1>3. /\ c.level \in Levels /\ c.level + 1 \in Levels
      /\ Files(c.version) \subseteq DOMAIN tables /\ c.outs \subseteq DOMAIN tables
      /\ c.in0 \subseteq version[c.level] /\ c.in1 \subseteq version[c.level + 1]
      /\ c.in0 \subseteq c.version[c.level] /\ c.in1 \subseteq c.version[c.level + 1]
  BY <1>2 DEF CompBooks
<1>4. \A n \in c.in0 \cup c.in1 : n \in Files(version) /\ n \in Files(c.version)
  BY <1>1, <1>2, <1>3, InFiles
<1> QED BY <1>1, <1>2, <1>3, <1>4

\* A log holds entries.
LEMMA LogEIs ==
    ASSUME TypeInv, NEW n \in DOMAIN logs
    PROVE  LogE(n) \subseteq Entry /\ Logged(logs)[n] = LogE(n)
BY LogEntriesIn, LoggedIs DEF LogE

\* The logs that matter stay, and new ones are empty.
LogsStay(ln) ==
    /\ \A n \in DOMAIN logs : n >= ln => n \in DOMAIN logs' /\ logs'[n] = logs[n]
    /\ \A n \in DOMAIN logs' : n >= ln => (n \in DOMAIN logs /\ logs'[n] = logs[n]) \/ logs'[n] = <<>>

\* A new log holds nothing.
LEMMA EmptyLog == LogEntries(<<>>) = {}
<1>1. Range(<<>>) = {}
  BY DEF Range
<1> QED BY <1>1 DEF LogEntries

\* A version under its logs while its tables and logs stay.
LEMMA FitsStay ==
    ASSUME TypeInv, NEW v \in Versions, NEW last \in Nat, NEW next \in Nat, NEW ln \in Nat, last <= next,
           Fits(v, last, ln), history' = history, faults' \in Nat, faults <= faults',
           \A n \in Files(v) : tables'[n] = tables[n], LogsStay(ln), DOMAIN logs' \subseteq Nat
    PROVE  Consistent(tables', Logged(logs'), history', v, next, ln, Twins')
<1> DEFINE G == Logged(logs)
           K == Logged(logs')
<1>1. DOMAIN G = DOMAIN logs /\ \A n \in DOMAIN logs : G[n] = LogEntries(logs[n])
  BY LoggedIs
<1>2. DOMAIN K = DOMAIN logs' /\ \A n \in DOMAIN logs' : K[n] = LogEntries(logs'[n])
  BY LoggedIs
<1> HIDE DEF G, K
<1>3. \A n \in DOMAIN G : n >= ln => n \in DOMAIN K /\ K[n] = G[n]
  BY <1>1, <1>2 DEF LogsStay
<1>4. \A n \in DOMAIN K : n >= ln => (n \in DOMAIN G /\ K[n] = G[n]) \/ K[n] = {}
  BY <1>1, <1>2, EmptyLog DEF LogsStay
<1>5. DOMAIN G \subseteq Nat /\ DOMAIN K \subseteq Nat /\ history \subseteq Entry
  BY <1>1, <1>2 DEF TypeInv
<1>6. Consistent(tables, G, history, v, last, ln, Twins)
  BY DEF Fits, G
<1>7. Twins => Twins'
  BY DEF Twins, TypeInv
<1>8. Consistent(tables', K, history, v, next, ln, Twins')
  BY <1>3, <1>4, <1>5, <1>6, <1>7, SameConsistent
<1> QED BY <1>8 DEF K

\* A reader stays right while its tables stay.
LEMMA ReadableStays ==
    ASSUME NEW T, NEW U, NEW v \in Versions, NEW M, NEW I, NEW H, NEW s, NEW tw, NEW tx, tw => tx,
           \A n \in Files(v) : U[n] = T[n], Readable(T, v, M, I, H, s, tw)
    PROVE  Readable(U, v, M, I, H, s, tx)
<1>1. Stored(U, v) = Stored(T, v) /\ Good(U, v, tx)
  BY SameStored, SameGood DEF Readable
<1> QED BY <1>1 DEF Readable

\* What a reader holds.
LEMMA ViewIs ==
    ASSUME TypeInv, Readers, NEW w \in views
    PROVE  /\ w.version \in Versions /\ w.seq \in Nat /\ w.mem \in Nat /\ w.imm \in Nat
           /\ Files(w.version) \subseteq DOMAIN tables
           /\ w.mem \in DOMAIN mems /\ w.mem <= mem /\ (w.imm # 0 => w.imm \in DOMAIN mems /\ w.imm < w.mem)
           /\ w.seq <= lastSeq
<1>1. w \in ViewRecord
  BY DEF TypeInv
<1>2. ViewBooks(w, DOMAIN tables, DOMAIN mems, mem, lastSeq)
  BY DEF Readers
<1>3. w.version \in Versions /\ w.seq \in Nat /\ w.mem \in Nat /\ w.imm \in Nat
  BY <1>1 DEF ViewRecord
<1> QED BY <1>2, <1>3 DEF ViewBooks

\* Readers stay right while what they hold stays.
LEMMA ViewingStays ==
    ASSUME TypeInv, Readers, Viewing, views' \subseteq views, history' = history,
           faults' \in Nat, faults <= faults',
           \A w \in views' : \A n \in Files(w.version) : tables'[n] = tables[n],
           \A w \in views' : mems'[w.mem] = mems[w.mem] /\ (w.imm # 0 => mems'[w.imm] = mems[w.imm])
    PROVE  Viewing'
<1>1. Twins => Twins'
  BY DEF Twins, TypeInv
<1>2. ASSUME NEW w \in views'
      PROVE  Readable(tables', w.version, mems'[w.mem], ImmEntries(mems', w.imm), history', w.seq, Twins')
  <2>1. w \in views
    BY <1>2
  <2>2. Readable(tables, w.version, mems[w.mem], ImmEntries(mems, w.imm), history, w.seq, Twins)
    BY <2>1 DEF Viewing
  <2>3. mems'[w.mem] = mems[w.mem] /\ ImmEntries(mems', w.imm) = ImmEntries(mems, w.imm)
    BY <1>2 DEF ImmEntries
  <2>4. w.version \in Versions /\ \A n \in Files(w.version) : tables'[n] = tables[n]
    BY <1>2, <2>1, ViewIs
  <2>5. Readable(tables', w.version, mems[w.mem], ImmEntries(mems, w.imm), history, w.seq, Twins')
    BY <1>1, <2>2, <2>4, ReadableStays
  <2> QED BY <2>3, <2>5
<1> QED BY <1>2 DEF Viewing

\* A compaction stays right while its tables and the versions stay.
LEMMA CompactingStays ==
    ASSUME TypeInv, Tasks, Compacting, comp' \subseteq comp,
           version' = version, Cur'.version = Cur.version,
           \A n \in Files(version) \cup Files(Cur.version) : tables'[n] = tables[n],
           \A c \in comp' : \A n \in Files(c.version) \cup c.outs : tables'[n] = tables[n]
    PROVE  Compacting'
<1>1. ASSUME NEW c \in comp'
      PROVE  /\ CompWork(tables', c) /\ CompFits(tables', c, version)
             /\ ~c.logged => CompFits(tables', c, Cur.version)
  <2>1. c \in comp
    BY <1>1
  <2>2. /\ c \in CompRecord /\ c.level \in Levels /\ c.level + 1 \in Levels
        /\ \A n \in c.in0 \cup c.in1 : n \in Files(c.version)
    BY <2>1, CompIs
  <2>3. version \in Versions /\ Cur.version \in Versions
    BY CurIs DEF TypeInv
  <2>4. CompWork(tables, c) /\ CompFits(tables, c, version) /\ (~c.logged => CompFits(tables, c, Cur.version))
    BY <2>1 DEF Compacting
  <2>5. \A n \in Files(c.version) \cup c.in0 \cup c.in1 \cup c.outs : tables'[n] = tables[n]
    BY <1>1, <2>2
  <2>6. CompWork(tables', c)
    BY <2>2, <2>4, <2>5, SameWork
  <2>7. CompFits(tables', c, version)
    BY <2>2, <2>3, <2>4, SameFits
  <2>8. ASSUME ~c.logged PROVE CompFits(tables', c, Cur.version)
    BY <2>2, <2>3, <2>4, <2>8, SameFits
  <2> QED BY <2>6, <2>7, <2>8
<1> QED BY <1>1 DEF Compacting

-----------------------------------------------------------------------------
(* What steps leave alone *)

\* What steps leave alone.
TablesStay(N) == \A n \in N : tables'[n] = tables[n]

\* The manifest's version stays right while its tables and logs stay,
LEMMA DiskStays ==
    ASSUME TypeInv, TypeInv', Disk, Cur' = Cur, history' = history, faults <= faults', up' # "written",
           TablesStay(Files(Cur.version)), LogsStay(Cur.log)
    PROVE  Disk'
<1>1. Cur.version \in Versions /\ Cur.last \in Nat /\ Cur.log \in Nat
  BY CurIs
<1>2. faults' \in Nat /\ DOMAIN logs' \subseteq Nat
  BY DEF TypeInv
<1>3. Fits(Cur.version, Cur.last, Cur.log) /\ Distinct(history)
  BY DEF Disk
<1>4. \A n \in Files(Cur.version) : tables'[n] = tables[n]
  BY DEF TablesStay
<1>5. Consistent(tables', Logged(logs'), history', Cur.version, Cur.last, Cur.log, Twins')
  BY <1>1, <1>2, <1>3, <1>4, FitsStay
<1> QED BY <1>3, <1>5 DEF Disk, Fits

\* and so does the version in use,
LEMMA TreeStays ==
    ASSUME TypeInv, TypeInv', Tree, up = "open", UNCHANGED <<version, logNumber, history, bgError>>,
           Cur' = Cur, lastSeq <= lastSeq', faults <= faults',
           TablesStay(Files(version)), TablesStay(Files(Cur.version)), LogsStay(logNumber)
    PROVE  Tree'
<1>1. Cur.version \in Versions /\ Cur.last \in Nat
  BY CurIs
<1>2. /\ faults' \in Nat /\ DOMAIN logs' \subseteq Nat /\ lastSeq \in Nat /\ lastSeq' \in Nat /\ logNumber \in Nat
      /\ version \in Versions
  BY DEF TypeInv
<1>3. Fits(version, lastSeq, logNumber) /\ (bgError => Fits(Cur.version, lastSeq, logNumber))
  BY DEF Tree
<1>4. (\A n \in Files(version) : tables'[n] = tables[n]) /\ \A n \in Files(Cur.version) : tables'[n] = tables[n]
  BY DEF TablesStay
<1>5. Consistent(tables', Logged(logs'), history', version, lastSeq', logNumber, Twins')
  BY <1>2, <1>3, <1>4, FitsStay
<1>6. ASSUME bgError
      PROVE  Consistent(tables', Logged(logs'), history', Cur.version, lastSeq', logNumber, Twins')
  BY <1>1, <1>2, <1>3, <1>4, <1>6, FitsStay
<1> QED BY <1>5, <1>6 DEF Tree, Fits

\* the numbers given,
LEMMA SequenceStays ==
    ASSUME Sequence, up = "open", up' = "open", UNCHANGED <<history, writing, lastSeq>>,
           Cur' = Cur \/ Cur'.last = lastSeq, lastSeq \in Nat
    PROVE  Sequence'
BY DEF Sequence

\* The numbers of an open database.
LEMMA RunningIs ==
    ASSUME Running, up = "open"
    PROVE  /\ current = manifestFile
           /\ mem \in DOMAIN logs /\ mem \in DOMAIN mems /\ 0 < mem /\ mem < nextFile
           /\ imm # 0 => imm \in DOMAIN logs /\ imm \in DOMAIN mems /\ imm < mem
           /\ logNumber = IF imm = 0 THEN mem ELSE imm
           /\ Files(version) \subseteq DOMAIN tables
           /\ \A n \in DOMAIN tables : n < nextFile
           /\ \A n \in DOMAIN logs : n < nextFile /\ (n >= logNumber => n = mem \/ n = imm)
           /\ Cur.log = logNumber \/ Cur.log = mem
           /\ ~bgError => Ahead(Cur.version, version, flush, comp)
           /\ \A f \in flush : f.logged => Cur.log = mem
BY DEF Running

\* the memtables,
LEMMA MemoryStays ==
    ASSUME Memory, Running, up = "open", UNCHANGED <<mem, imm, writing, version>>, Cur' = Cur,
           TablesStay(Files(version)), TablesStay(Files(Cur.version)),
           mems'[mem] = mems[mem], imm # 0 => mems'[imm] = mems[imm],
           logs'[mem] = logs[mem], imm # 0 => logs'[imm] = logs[imm]
    PROVE  Memory'
<1>1. Stored(tables', version) = Stored(tables, version) /\ Stored(tables', Cur.version) = Stored(tables, Cur.version)
  BY SameStored DEF TablesStay
<1>2. LogE(mem)' = LogE(mem) /\ (imm # 0 => LogE(imm)' = LogE(imm))
  BY DEF LogE
<1> QED BY <1>1, <1>2 DEF Memory

\* what a failed flush left,
LEMMA StaleStays ==
    ASSUME Stale, TypeInv, up = "open", UNCHANGED <<bgError, imm, version>>, Cur' = Cur,
           TablesStay(Files(Cur.version)), imm # 0 => mems'[imm] = mems[imm],
           flush' # {} \/ (\E c \in comp' : c.rest # {}) => flush # {} \/ \E c \in comp : c.rest # {}
    PROVE  Stale'
<1>1. ASSUME up' = "open", bgError, imm # 0, flush' # {} \/ \E c \in comp' : c.rest # {},
             NEW i \in Levels, NEW n \in Cur.version[i]
      PROVE  n \in version[i] \/ tables'[n] = mems'[imm]
  <2>1. n \in version[i] \/ tables[n] = mems[imm]
    BY <1>1 DEF Stale
  <2>2. n \in Files(Cur.version)
    BY CurIs, InFiles, <1>1
  <2> QED BY <2>1, <2>2, <1>1 DEF TablesStay
<1> QED BY <1>1 DEF Stale

\* and the flush in progress.
LEMMA FlushingStays ==
    ASSUME Flushing, TypeInv, Tasks, flush' \subseteq flush, UNCHANGED <<version>>, Cur'.version = Cur.version,
           TablesStay(Files(version)), \A f \in flush' : tables'[f.file] = tables[f.file] /\ mems'[imm'] = mems[imm]
    PROVE  Flushing'
<1>1. ASSUME NEW f \in flush'
      PROVE  /\ tables'[f.file] = mems'[imm']
             /\ f.level > 0 => \A i \in Levels : i <= f.level => \A n \in version[i] : Apart(mems'[imm'], tables'[n])
             /\ \A n \in Files(version) : n < f.file
             /\ ~f.logged => \A n \in Files(Cur.version) : n < f.file
  <2>1. f \in flush
    BY <1>1
  <2>2. /\ tables[f.file] = mems[imm]
        /\ f.level > 0 => \A i \in Levels : i <= f.level => \A n \in version[i] : Apart(mems[imm], tables[n])
        /\ \A n \in Files(version) : n < f.file
        /\ ~f.logged => \A n \in Files(Cur.version) : n < f.file
    BY <2>1 DEF Flushing
  <2>3. \A i \in Levels : \A n \in version[i] : tables'[n] = tables[n]
    <3>1. version \in Versions
      BY DEF TypeInv
    <3> QED BY <3>1, InFiles DEF TablesStay
  <2> QED BY <1>1, <2>2, <2>3
<1> QED BY <1>1 DEF Flushing

-----------------------------------------------------------------------------
(* Writers and readers keep it *)

\* What has been written after a reader was opened, it does not see.
LEMMA ReadableMore ==
    ASSUME NEW T, NEW v, NEW M, NEW N, NEW I, NEW H, NEW J, NEW s \in Nat, NEW tw,
           M \subseteq N, N \subseteq J, H \subseteq J, J \subseteq Entry,
           \A e \in N : e \in M \/ s < e.seq, \A e \in J : e \in H \/ s < e.seq,
           Readable(T, v, M, I, H, s, tw)
    PROVE  Readable(T, v, N, I, J, s, tw)
<1>1. \A e \in J : e.seq \in Nat
  BY EntryIs
<1>2. Upto(J, s) = Upto(H, s)
  BY <1>1 DEF Upto
<1>3. /\ Good(T, v, tw)
      /\ Stored(T, v) \subseteq Upto(H, s) /\ I \subseteq Upto(H, s) /\ M \subseteq H
      /\ Older(Stored(T, v), I) /\ Older(Stored(T, v), M) /\ Older(I, M)
      /\ Complete(Stored(T, v), Upto(H, s) \ (M \cup I))
      /\ Older(Upto(H, s) \ (M \cup I), M \cup I)
  BY DEF Readable
<1>4. \A x \in Upto(H, s) : x.seq \in Nat /\ x.seq <= s
  BY <1>1 DEF Upto
<1>5. \A e \in N : e \in M \/ \A x \in Upto(H, s) : x.seq < e.seq
  BY <1>1, <1>4
<1>6. Upto(H, s) \ (N \cup I) = Upto(H, s) \ (M \cup I)
  <2>1. \A e \in N : e \in Upto(H, s) => e \in M
    BY <1>1, <1>4
  <2> QED BY <2>1
<1>7. Older(Stored(T, v), N) /\ Older(I, N)
  BY <1>3, <1>5 DEF Older
<1>8. Older(Upto(H, s) \ (N \cup I), N \cup I)
  BY <1>3, <1>5, <1>6 DEF Older
<1> QED BY <1>2, <1>3, <1>6, <1>7, <1>8 DEF Readable

\* The logs in use hold what the memtables hold and the leading writer adds.
LEMMA ReplayOpen ==
    ASSUME TypeInv, Running, Memory, up = "open"
    PROVE  Replay(Logged(logs), logNumber) = mems[mem] \cup writing \cup ImmEntries(mems, imm)
<1> DEFINE G == Logged(logs)
<1>1. DOMAIN G = DOMAIN logs /\ \A n \in DOMAIN logs : G[n] = LogE(n)
  BY LoggedIs DEF LogE
<1> HIDE DEF G
<1>2. /\ mem \in DOMAIN logs /\ (imm # 0 => imm \in DOMAIN logs /\ imm < mem)
      /\ logNumber = IF imm = 0 THEN mem ELSE imm
      /\ \A n \in DOMAIN logs : n >= logNumber => n = mem \/ n = imm
  BY RunningIs
<1>3. mem \in Nat /\ imm \in Nat /\ DOMAIN logs \subseteq Nat
  BY DEF TypeInv
<1>4. mems[mem] \cup writing = LogE(mem) /\ (imm # 0 => mems[imm] = LogE(imm))
  BY DEF Memory
<1>5. \A e \in Replay(G, logNumber) : e \in LogE(mem) \/ (imm # 0 /\ e \in LogE(imm))
  <2> TAKE e \in Replay(G, logNumber)
  <2>1. PICK n \in DOMAIN G : n >= logNumber /\ e \in G[n]
    BY ReplayIs
  <2>2. n = mem \/ (n = imm /\ imm # 0)
    BY <1>1, <1>2, <1>3, <2>1
  <2> QED BY <1>1, <2>1, <2>2
<1>6. LogE(mem) \subseteq Replay(G, logNumber)
  <2>1. mem >= logNumber
    BY <1>2, <1>3
  <2> QED BY <1>1, <1>2, <2>1, ReplayIs
<1>7. imm # 0 => LogE(imm) \subseteq Replay(G, logNumber)
  <2>1. imm # 0 => imm >= logNumber
    BY <1>2, <1>3
  <2> QED BY <1>1, <1>2, <2>1, ReplayIs
<1>8. Replay(G, logNumber) = LogE(mem) \cup (IF imm = 0 THEN {} ELSE LogE(imm))
  BY <1>5, <1>6, <1>7
<1> QED BY <1>4, <1>8 DEF ImmEntries, G

\* The memtables in use.
LEMMA MemtablesAre ==
    ASSUME TypeInv, Running, up = "open"
    PROVE  /\ mem \in DOMAIN mems /\ imm # mem /\ mems \in [DOMAIN mems -> SUBSET Entry]
           /\ mem \in Nat /\ imm \in Nat /\ (imm # 0 => imm \in DOMAIN mems)
<1>1. mem \in DOMAIN mems /\ 0 < mem /\ (imm # 0 => imm \in DOMAIN mems /\ imm < mem)
  BY RunningIs
<1>2. mem \in Nat /\ imm \in Nat /\ mems \in [DOMAIN mems -> SUBSET Entry]
  BY DEF TypeInv
<1> QED BY <1>1, <1>2

\* InsertInto keeps the contents: the entry is in the log already.
LEMMA WriteInsertContents == ASSUME Books, Books', Contents, WriteInsert PROVE Contents'
<1>1. /\ writing # {}
      /\ UNCHANGED <<disk, up, mem, imm, books, nextFile, lastSeq, recovered, writing, flush, comp,
                     views, bgError, history, crashes, faults>>
  BY DEF WriteInsert
<1>2. PICK e \in writing : mems' = [mems EXCEPT ![mem] = @ \cup {e}]
  BY DEF WriteInsert
<1>3. UNCHANGED <<logs, tables, manifests, current, logNumber, version, manifestFile>>
  BY <1>1 DEF disk, books
<1>4. TypeInv /\ TypeInv' /\ Running /\ Readers /\ Tasks /\ Closed
  BY DEF Books
<1>5. Disk /\ Sequence /\ Memory /\ Tree /\ Stale /\ Flushing /\ Compacting /\ Viewing
  BY DEF Contents
<1>6. up = "open"
  BY <1>1, <1>4 DEF Closed
<1>7. Cur' = Cur
  BY <1>3 DEF Cur
<1>8. (\A N : TablesStay(N)) /\ \A n : LogsStay(n)
  BY <1>3 DEF TablesStay, LogsStay
<1>9. mem \in DOMAIN mems /\ imm # mem /\ mems \in [DOMAIN mems -> SUBSET Entry] /\ mem \in Nat /\ imm \in Nat
  BY <1>4, <1>6, MemtablesAre
<1>10. mems'[mem] = mems[mem] \cup {e} /\ \A n \in DOMAIN mems : n # mem => mems'[n] = mems[n]
  BY <1>2, <1>9
<1>11. imm # 0 => imm \in DOMAIN mems /\ mems'[imm] = mems[imm]
  BY <1>4, <1>6, <1>9, <1>10, RunningIs
<1>12. faults <= faults' /\ lastSeq <= lastSeq'
  BY <1>1, <1>4 DEF TypeInv
<1>13. Disk'
  BY <1>1, <1>4, <1>5, <1>6, <1>7, <1>8, <1>12, DiskStays
<1>14. Tree'
  BY <1>1, <1>3, <1>4, <1>5, <1>6, <1>7, <1>8, <1>12, TreeStays
<1>15. Sequence' /\ Recovering'
  BY <1>1, <1>5, <1>6, <1>4, <1>7, SequenceStays DEF Recovering, TypeInv
<1>16. Stale'
  BY <1>1, <1>3, <1>4, <1>5, <1>6, <1>7, <1>8, <1>11, StaleStays
<1>17. Flushing'
  <2>1. \A f \in flush' : tables'[f.file] = tables[f.file] /\ mems'[imm'] = mems[imm]
    BY <1>1, <1>3, <1>4, <1>11 DEF Tasks
  <2> QED BY <1>1, <1>3, <1>4, <1>5, <1>7, <1>8, <2>1, FlushingStays
<1>18. Compacting'
  BY <1>1, <1>3, <1>4, <1>5, <1>7, CompactingStays
<1>19. Memory'
  <2>1. LogE(mem)' = LogE(mem) /\ LogE(imm)' = LogE(imm)
    BY <1>1, <1>3 DEF LogE
  <2>2. mems'[mem] \cup writing = mems[mem] \cup writing
    BY <1>10
  <2> QED BY <1>1, <1>3, <1>5, <1>6, <1>7, <1>11, <2>1, <2>2 DEF Memory
<1>20. Viewing'
  <2>1. ASSUME NEW w \in views
        PROVE  Readable(tables, w.version, mems'[w.mem], ImmEntries(mems', w.imm), history, w.seq, Twins)
    <3>1. /\ w.seq \in Nat /\ w.mem \in Nat /\ w.imm \in Nat /\ w.mem \in DOMAIN mems /\ w.mem <= mem
          /\ (w.imm # 0 => w.imm \in DOMAIN mems /\ w.imm < w.mem) /\ w.seq <= lastSeq
      BY <1>4, ViewIs
    <3>2. ImmEntries(mems', w.imm) = ImmEntries(mems, w.imm)
      BY <1>9, <1>10, <3>1 DEF ImmEntries
    <3>3. Readable(tables, w.version, mems[w.mem], ImmEntries(mems, w.imm), history, w.seq, Twins)
      BY <1>5 DEF Viewing
    <3>4. mems[w.mem] \subseteq mems'[w.mem]
      BY <1>10, <3>1
    <3>5. \A x \in mems'[w.mem] : x \in mems[w.mem] \/ w.seq < x.seq
      <4>1. writing \subseteq Entry /\ lastSeq \in Nat /\ lastSeq < e.seq
        BY <1>4, <1>5 DEF TypeInv, Sequence
      <4>2. w.seq < e.seq /\ e.seq \in Nat
        BY <3>1, <4>1, EntryIs
      <4> QED BY <1>10, <3>1, <4>2
    <3>6. mems'[w.mem] \subseteq history
      <4>1. mems[w.mem] \subseteq history
        BY <3>3 DEF Readable
      <4>2. e \in history
        BY <1>5 DEF Sequence
      <4> QED BY <1>10, <3>1, <4>1, <4>2
    <3>7. history \subseteq Entry
      BY <1>4 DEF TypeInv
    <3> QED BY <3>1, <3>2, <3>3, <3>4, <3>5, <3>6, <3>7, ReadableMore
  <2>2. Twins' = Twins
    BY <1>1 DEF Twins
  <2> QED BY <1>1, <1>3, <2>1, <2>2 DEF Viewing
<1> QED BY <1>13, <1>14, <1>15, <1>16, <1>17, <1>18, <1>19, <1>20 DEF Contents

\* What most steps of the open database leave alone.
LEMMA OpenParts ==
    ASSUME Books, Books', Contents
    PROVE  /\ TypeInv /\ TypeInv' /\ Running /\ Running' /\ Readers /\ Readers' /\ Tasks /\ Tasks' /\ Closed
           /\ Disk /\ Recovering /\ Sequence /\ Memory /\ Tree /\ Stale /\ Flushing /\ Compacting /\ Viewing
BY DEF Books, Contents

\* SetLastSequence: what was inserted is in the memtable and in its log.
LEMMA WritePublishContents == ASSUME Books, Books', Contents, WritePublish PROVE Contents'
<1>1. /\ writing # {} /\ writing \subseteq mems[mem]
      /\ lastSeq' = lastSeq + Cardinality(writing) /\ writing' = {}
      /\ UNCHANGED <<disk, up, mems, mem, imm, books, nextFile, recovered, flush, comp, views,
                     bgError, history, crashes, faults>>
  BY DEF WritePublish
<1>3. UNCHANGED <<logs, tables, manifests, current, logNumber, version, manifestFile>>
  BY <1>1 DEF disk, books
<1>4. TypeInv /\ TypeInv' /\ Running /\ Readers /\ Tasks /\ Closed
  BY OpenParts
<1>5. Disk /\ Sequence /\ Memory /\ Tree /\ Stale /\ Flushing /\ Compacting /\ Viewing
  BY OpenParts
<1>6. up = "open"
  BY <1>1, <1>4 DEF Closed
<1>7. Cur' = Cur
  BY <1>3 DEF Cur
<1>8. (\A N : TablesStay(N)) /\ \A n : LogsStay(n)
  BY <1>3 DEF TablesStay, LogsStay
<1>9. Cardinality(writing) \in Nat /\ lastSeq \in Nat /\ faults \in Nat /\ history \subseteq Entry
  BY <1>4, FS_CardinalityType DEF TypeInv
<1>12. faults <= faults' /\ lastSeq <= lastSeq' /\ faults' \in Nat
  BY <1>1, <1>9
<1>13. Disk'
  BY <1>1, <1>4, <1>5, <1>6, <1>7, <1>8, <1>12, DiskStays
<1>14. Tree'
  BY <1>1, <1>3, <1>4, <1>5, <1>6, <1>7, <1>8, <1>12, TreeStays
<1>15. Sequence' /\ Recovering'
  <2>1. \A h \in history : h.seq <= lastSeq + Cardinality(writing)
    <3> TAKE h \in history
    <3>1. h.seq <= lastSeq \/ h.seq <= lastSeq + Cardinality(writing)
      BY <1>5, <1>6 DEF Sequence
    <3>2. h.seq \in Nat
      BY <1>9, EntryIs
    <3> QED BY <1>9, <3>1, <3>2
  <2>2. Cur'.last <= lastSeq + Cardinality(writing)
    <3>1. Cur.last \in Nat /\ Cur.last <= lastSeq
      BY <1>4, <1>5, <1>6, CurIs DEF Sequence
    <3> QED BY <1>7, <1>9, <3>1
  <2> QED BY <1>1, <1>6, <2>1, <2>2 DEF Sequence, Recovering
<1>16. Stale'
  BY <1>1, <1>3, <1>4, <1>5, <1>6, <1>7, <1>8, StaleStays
<1>17. Flushing'
  BY <1>1, <1>3, <1>4, <1>5, <1>7, <1>8, FlushingStays
<1>18. Compacting'
  BY <1>1, <1>3, <1>4, <1>5, <1>7, CompactingStays
<1>19. Memory'
  <2>1. LogE(mem)' = LogE(mem) /\ LogE(imm)' = LogE(imm)
    BY <1>1, <1>3 DEF LogE
  <2>2. mems[mem] \cup writing = mems[mem]
    BY <1>1
  <2> QED BY <1>1, <1>3, <1>5, <1>6, <1>7, <2>1, <2>2 DEF Memory
<1>20. Viewing'
  BY <1>1, <1>3, <1>4, <1>5, <1>12, ViewingStays
<1> QED BY <1>13, <1>14, <1>15, <1>16, <1>17, <1>18, <1>19, <1>20 DEF Contents

\* A reader opened now sees everything written so far.
LEMMA OpenReadable ==
    ASSUME TypeInv, Running, Sequence, Memory, Tree, up = "open"
    PROVE  Readable(tables, version, mems[mem], ImmEntries(mems, imm), history, lastSeq, Twins)
<1> DEFINE R == Replay(Logged(logs), logNumber)
           I == ImmEntries(mems, imm)
           S == Stored(tables, version)
<1>1. R = mems[mem] \cup writing \cup I
  BY ReplayOpen
<1>2. Fits(version, lastSeq, logNumber)
  BY DEF Tree
<1>3. /\ R \subseteq history /\ S \subseteq history /\ (\A e \in S : e.seq <= lastSeq)
      /\ Good(tables, version, Twins) /\ Complete(S, history \ R) /\ Older(history \ R, R)
      /\ \A a, b \in DOMAIN Logged(logs) : logNumber <= a /\ a < b => Older(Logged(logs)[a], Logged(logs)[b])
  BY <1>2 DEF Fits, Consistent, Inside, Follows
<1>4. /\ \A h \in history : h.seq <= lastSeq \/ h \in writing
      /\ \A e \in writing : lastSeq < e.seq
  BY DEF Sequence
<1>5. /\ lastSeq \in Nat /\ \A h \in history : h.seq \in Nat
  BY EntryIs DEF TypeInv
<1>6. Older(S, mems[mem]) /\ Older(S, I)
  BY DEF Memory, ImmEntries, Older
<1>7. Older(I, mems[mem] \cup writing)
  <2>1. CASE imm = 0
    BY <2>1 DEF ImmEntries, Older
  <2>2. CASE imm # 0
    <3>1. mem \in DOMAIN logs /\ imm \in DOMAIN logs /\ imm < mem /\ logNumber = imm
      BY <2>2, RunningIs
    <3>2. imm \in Nat /\ mem \in Nat
      BY DEF TypeInv
    <3>3. mems[mem] \cup writing = LogE(mem) /\ mems[imm] = LogE(imm)
      BY <2>2 DEF Memory
    <3>4. Older(Logged(logs)[imm], Logged(logs)[mem])
      BY <1>3, <3>1, <3>2, LoggedIs
    <3> QED BY <2>2, <3>1, <3>3, <3>4, LoggedIs DEF ImmEntries, LogE
  <2> QED BY <2>1, <2>2
<1> HIDE DEF R, I, S
<1>8. I \subseteq Upto(history, lastSeq)
  <2> SUFFICES ASSUME NEW e \in I PROVE e \in history /\ e.seq <= lastSeq
    BY DEF Upto
  <2>1. e \in history
    BY <1>1, <1>3
  <2>2. ASSUME e \in writing PROVE FALSE
    <3>1. e.seq < e.seq
      BY <1>7, <2>2 DEF Older
    <3> QED BY <1>5, <2>1, <3>1
  <2> QED BY <1>4, <2>1, <2>2
<1>9. S \subseteq Upto(history, lastSeq)
  BY <1>3 DEF Upto
<1>10. Upto(history, lastSeq) \ (mems[mem] \cup I) = history \ R
  <2>1. \A h \in Upto(history, lastSeq) : h \in history /\ h.seq <= lastSeq
    BY DEF Upto
  <2>2. \A h \in Upto(history, lastSeq) : h \notin writing
    <3> TAKE h \in Upto(history, lastSeq)
    <3>1. h.seq <= lastSeq /\ h.seq \in Nat
      BY <1>5, <2>1
    <3> QED BY <1>4, <1>5, <3>1
  <2>3. \A h \in history : h \notin writing => h \in Upto(history, lastSeq)
    BY <1>4 DEF Upto
  <2> QED BY <1>1, <2>1, <2>2, <2>3
<1>11. mems[mem] \subseteq history
  BY <1>1, <1>3
<1>12. Older(Upto(history, lastSeq) \ (mems[mem] \cup I), mems[mem] \cup I)
  BY <1>1, <1>3, <1>10 DEF Older
<1>13. Older(I, mems[mem])
  BY <1>7 DEF Older
<1>14. Complete(S, Upto(history, lastSeq) \ (mems[mem] \cup I))
  BY <1>3, <1>10
<1> QED BY <1>3, <1>6, <1>8, <1>9, <1>11, <1>12, <1>13, <1>14 DEF Readable, S, I

\* A new reader holds what a Get would look at.
LEMMA OpenViewContents == ASSUME Books, Books', Contents, OpenView PROVE Contents'
<1>1. /\ up = "open"
      /\ views' = views \cup {[seq |-> lastSeq, mem |-> mem, imm |-> imm, version |-> version]}
      /\ UNCHANGED <<disk, up, mems, mem, imm, books, nextFile, lastSeq, recovered, writing, flush, comp,
                     bgError, history, crashes, faults>>
  BY DEF OpenView
<1>3. UNCHANGED <<logs, tables, manifests, current, logNumber, version, manifestFile>>
  BY <1>1 DEF disk, books
<1>4. TypeInv /\ TypeInv' /\ Running /\ Readers /\ Tasks
  BY OpenParts
<1>5. Disk /\ Sequence /\ Memory /\ Tree /\ Stale /\ Flushing /\ Compacting /\ Viewing
  BY OpenParts
<1>7. Cur' = Cur
  BY <1>3 DEF Cur
<1>8. (\A N : TablesStay(N)) /\ \A n : LogsStay(n)
  BY <1>3 DEF TablesStay, LogsStay
<1>12. faults <= faults' /\ lastSeq <= lastSeq' /\ faults' \in Nat
  BY <1>1, <1>4 DEF TypeInv
<1>13. Disk'
  BY <1>1, <1>4, <1>5, <1>7, <1>8, <1>12, DiskStays
<1>14. Tree'
  BY <1>1, <1>3, <1>4, <1>5, <1>7, <1>8, <1>12, TreeStays
<1>15. Sequence' /\ Recovering'
  BY <1>1, <1>5, <1>4, <1>7, SequenceStays DEF Recovering, TypeInv
<1>16. Stale'
  BY <1>1, <1>3, <1>4, <1>5, <1>7, <1>8, StaleStays
<1>17. Flushing'
  BY <1>1, <1>3, <1>4, <1>5, <1>7, <1>8, FlushingStays
<1>18. Compacting'
  BY <1>1, <1>3, <1>4, <1>5, <1>7, CompactingStays
<1>19. Memory'
  BY <1>1, <1>3, <1>4, <1>5, <1>7, <1>8, MemoryStays
<1>20. Viewing'
  <2>1. Readable(tables, version, mems[mem], ImmEntries(mems, imm), history, lastSeq, Twins)
    BY <1>1, <1>4, <1>5, OpenReadable
  <2>2. Twins' = Twins
    BY <1>1 DEF Twins
  <2>3. ASSUME NEW w \in views'
        PROVE  Readable(tables, w.version, mems[w.mem], ImmEntries(mems, w.imm), history, w.seq, Twins)
    BY <1>1, <1>5, <2>1 DEF Viewing
  <2> QED BY <1>1, <1>3, <2>2, <2>3 DEF Viewing
<1> QED BY <1>13, <1>14, <1>15, <1>16, <1>17, <1>18, <1>19, <1>20 DEF Contents

\* A reader that leaves takes only memtables nobody else has.
LEMMA CloseViewContents == ASSUME Books, Books', Contents, NEW w \in views, CloseView(w) PROVE Contents'
<1>1. /\ views' = views \ {w} /\ mems' = Pinned({mem, imm}, views \ {w})
      /\ UNCHANGED <<disk, up, mem, imm, books, nextFile, lastSeq, recovered, writing, flush, comp,
                     bgError, history, crashes, faults>>
  BY DEF CloseView
<1>3. UNCHANGED <<logs, tables, manifests, current, logNumber, version, manifestFile>>
  BY <1>1 DEF disk, books
<1>4. TypeInv /\ TypeInv' /\ Running /\ Readers /\ Tasks /\ Closed
  BY OpenParts
<1>5. Disk /\ Sequence /\ Memory /\ Tree /\ Stale /\ Flushing /\ Compacting /\ Viewing
  BY OpenParts
<1>6. up = "open"
  BY <1>4 DEF Closed
<1>7. Cur' = Cur
  BY <1>3 DEF Cur
<1>8. (\A N : TablesStay(N)) /\ \A n : LogsStay(n)
  BY <1>3 DEF TablesStay, LogsStay
<1>9. mem \in DOMAIN mems /\ (imm # 0 => imm \in DOMAIN mems)
  BY <1>4, <1>6, MemtablesAre
<1>10. /\ \A n \in DOMAIN mems' : mems'[n] = mems[n]
       /\ \A n \in DOMAIN mems \cap {mem, imm} : n \in DOMAIN mems'
       /\ \A x \in views', n \in DOMAIN mems : n \in {x.mem, x.imm} => n \in DOMAIN mems'
  BY <1>1, <1>4, PinnedIs
<1>11. mems'[mem] = mems[mem] /\ (imm # 0 => mems'[imm] = mems[imm])
  BY <1>9, <1>10
<1>12. faults <= faults' /\ lastSeq <= lastSeq' /\ faults' \in Nat
  BY <1>1, <1>4 DEF TypeInv
<1>13. Disk'
  BY <1>1, <1>4, <1>5, <1>6, <1>7, <1>8, <1>12, DiskStays
<1>14. Tree'
  BY <1>1, <1>3, <1>4, <1>5, <1>6, <1>7, <1>8, <1>12, TreeStays
<1>15. Sequence' /\ Recovering'
  BY <1>1, <1>5, <1>6, <1>4, <1>7, SequenceStays DEF Recovering, TypeInv
<1>16. Stale'
  BY <1>1, <1>3, <1>4, <1>5, <1>6, <1>7, <1>8, <1>11, StaleStays
<1>17. Flushing'
  <2>1. \A f \in flush' : tables'[f.file] = tables[f.file] /\ mems'[imm'] = mems[imm]
    BY <1>1, <1>3, <1>4, <1>11 DEF Tasks
  <2> QED BY <1>1, <1>3, <1>4, <1>5, <1>7, <1>8, <2>1, FlushingStays
<1>18. Compacting'
  BY <1>1, <1>3, <1>4, <1>5, <1>7, CompactingStays
<1>19. Memory'
  BY <1>1, <1>3, <1>4, <1>5, <1>6, <1>7, <1>8, <1>11, MemoryStays
<1>20. Viewing'
  <2>1. \A x \in views' : mems'[x.mem] = mems[x.mem] /\ (x.imm # 0 => mems'[x.imm] = mems[x.imm])
    BY <1>1, <1>4, <1>10, ViewIs
  <2>2. \A x \in views' : \A n \in Files(x.version) : tables'[n] = tables[n]
    BY <1>3
  <2>3. views' \subseteq views /\ history' = history
    BY <1>1
  <2> QED BY <1>4, <1>5, <1>12, <2>1, <2>2, <2>3, ViewingStays
<1> QED BY <1>13, <1>14, <1>15, <1>16, <1>17, <1>18, <1>19, <1>20 DEF Contents

\* MakeRoomForWrite: the old memtable is imm_, and its log is still replayed.
LEMMA SwitchMemContents == ASSUME Books, Books', Contents, SwitchMem PROVE Contents'
<1>1. /\ up = "open" /\ writing = {} /\ ~bgError /\ mems[mem] # {} /\ imm = 0
      /\ mem' = nextFile /\ imm' = mem
      /\ logs' = Created(logs, nextFile, <<>>) /\ mems' = Created(mems, nextFile, {})
      /\ UNCHANGED <<tables, manifests, current, up, books, lastSeq, recovered, writing, flush, comp,
                     views, bgError, history, crashes, faults>>
  BY DEF SwitchMem
<1>3. UNCHANGED <<tables, manifests, current, logNumber, version, manifestFile>>
  BY <1>1 DEF books
<1>4. TypeInv /\ TypeInv' /\ Running /\ Readers /\ Tasks
  BY OpenParts
<1>5. Disk /\ Sequence /\ Memory /\ Tree /\ Stale /\ Flushing /\ Compacting /\ Viewing
  BY OpenParts
<1>7. Cur' = Cur
  BY <1>3 DEF Cur
<1>8. \A N : TablesStay(N)
  BY <1>3 DEF TablesStay
<1>9. /\ mem \in DOMAIN mems /\ mem \in DOMAIN logs /\ mem < nextFile /\ mem \in Nat /\ nextFile \in Nat
      /\ \A n \in DOMAIN logs : n < nextFile
  BY <1>1, <1>4, RunningIs DEF TypeInv
<1>10. /\ DOMAIN logs' = DOMAIN logs \cup {nextFile} /\ logs'[nextFile] = <<>>
       /\ \A n \in DOMAIN logs : n # nextFile => logs'[n] = logs[n]
       /\ DOMAIN mems' = DOMAIN mems \cup {nextFile} /\ mems'[nextFile] = {}
       /\ \A n \in DOMAIN mems : n # nextFile => mems'[n] = mems[n]
  <2>1. logs' = Created(logs, nextFile, <<>>) /\ mems' = Created(mems, nextFile, {})
    BY <1>1
  <2>2. /\ DOMAIN logs' = DOMAIN logs \cup {nextFile} /\ logs'[nextFile] = <<>>
        /\ \A n \in DOMAIN logs : n # nextFile => logs'[n] = logs[n]
    BY <2>1 DEF Created
  <2>3. /\ DOMAIN mems' = DOMAIN mems \cup {nextFile} /\ mems'[nextFile] = {}
        /\ \A n \in DOMAIN mems : n # nextFile => mems'[n] = mems[n]
    BY <2>1 DEF Created
  <2> QED BY <2>2, <2>3
<1>11. \A n : LogsStay(n)
  <2>1. \A n \in DOMAIN logs : n # nextFile
    <3>1. DOMAIN logs \subseteq Nat
      BY <1>4 DEF TypeInv
    <3> QED BY <1>9, <3>1
  <2> QED BY <1>10, <2>1 DEF LogsStay
<1>12. faults <= faults' /\ lastSeq <= lastSeq' /\ faults' \in Nat
  BY <1>1, <1>4 DEF TypeInv
<1>13. Disk'
  BY <1>1, <1>4, <1>5, <1>7, <1>8, <1>11, <1>12, DiskStays
<1>14. Tree'
  BY <1>1, <1>3, <1>4, <1>5, <1>7, <1>8, <1>11, <1>12, TreeStays
<1>15. Sequence' /\ Recovering'
  BY <1>1, <1>5, <1>4, <1>7, SequenceStays DEF Recovering, TypeInv
<1>16. Stale'
  BY <1>1 DEF Stale
<1>17. Flushing'
  <2>1. flush = {}
    BY <1>1, <1>4 DEF Tasks
  <2> QED BY <1>1, <2>1 DEF Flushing
<1>18. Compacting'
  BY <1>1, <1>3, <1>4, <1>5, <1>7, CompactingStays
<1>19. Memory'
  <2>1. mem # nextFile
    BY <1>9
  <2>2. mems'[mem'] = {} /\ LogE(mem)' = {}
    BY <1>1, <1>10, EmptyLog DEF LogE
  <2>3. mems'[imm'] = mems[mem] /\ LogE(imm)' = LogE(mem)
    BY <1>1, <1>9, <1>10, <2>1 DEF LogE
  <2>4. mems[mem] = LogE(mem) /\ Older(Stored(tables, version), LogE(mem))
    BY <1>1, <1>5 DEF Memory
  <2>5. \A S : Older(S, {})
    BY DEF Older
  <2>6. mems'[mem'] \cup writing' = LogE(mem)'
    BY <1>1, <2>2
  <2>7. mems'[imm'] = LogE(imm)' /\ mems'[imm'] # {} /\ Older(Stored(tables', version'), mems'[imm'])
    BY <1>1, <1>3, <2>3, <2>4
  <2>8. Older(Stored(tables', version'), LogE(mem)') /\ Older(Stored(tables', Cur'.version), LogE(mem)')
    BY <2>2, <2>5
  <2> QED BY <2>6, <2>7, <2>8 DEF Memory
<1>20. Viewing'
  <2>1. ASSUME NEW x \in views'
        PROVE  mems'[x.mem] = mems[x.mem] /\ (x.imm # 0 => mems'[x.imm] = mems[x.imm])
    <3>1. /\ x.mem \in Nat /\ x.imm \in Nat /\ x.mem \in DOMAIN mems /\ x.mem <= mem
          /\ (x.imm # 0 => x.imm \in DOMAIN mems /\ x.imm < x.mem)
      BY <1>1, <1>4, ViewIs
    <3>2. x.mem # nextFile /\ (x.imm # 0 => x.imm # nextFile)
      BY <1>9, <3>1
    <3> QED BY <1>10, <3>1, <3>2
  <2>2. \A x \in views' : \A n \in Files(x.version) : tables'[n] = tables[n]
    BY <1>3
  <2>3. views' \subseteq views /\ history' = history
    BY <1>1
  <2> QED BY <1>4, <1>5, <1>12, <2>1, <2>2, <2>3, ViewingStays
<1> QED BY <1>13, <1>14, <1>15, <1>16, <1>17, <1>18, <1>19, <1>20 DEF Contents

\* How many numbers there are up to n.
LEMMA CountUpTo ==
    ASSUME NEW n \in Nat
    PROVE  IsFiniteSet(1..n) /\ Cardinality(1..n) = n
<1>1. 1 \in Int /\ n \in Int
  OBVIOUS
<1>2. IsFiniteSet(1..n) /\ Cardinality(1..n) = IF 1 > n THEN 0 ELSE n - 1 + 1
  BY <1>1, FS_Interval, Zenon
<1>3. (IF 1 > n THEN 0 ELSE n - 1 + 1) = n
  OBVIOUS
<1> QED BY <1>2, <1>3

\* The entries of a batch are numbered one after the other, from the last on.
LEMMA EntriesNewer ==
    ASSUME NEW b \in Batches, lastSeq \in Nat, lastSeq + Len(b) <= MaxSeq
    PROVE  /\ \A e \in Entries(b) : lastSeq < e.seq /\ e.seq <= lastSeq + Cardinality(Entries(b))
           /\ Distinct(Entries(b))
<1> DEFINE E(i) == [key |-> b[i].key, seq |-> lastSeq + i, del |-> b[i].del]
           f == [i \in DOMAIN b |-> E(i)]
<1>1. b \in Seq([key : Int, del : BOOLEAN]) /\ DOMAIN b = 1..Len(b) /\ Len(b) \in Nat
  BY EntriesAre
<1>2. f \in Surjection(DOMAIN b, Entries(b))
  BY DEF Surjection, Entries
<1>3. f \in Injection(DOMAIN b, Entries(b))
  <2>1. ASSUME NEW i \in DOMAIN b, NEW j \in DOMAIN b, f[i] = f[j] PROVE i = j
    <3>1. lastSeq + i = lastSeq + j
      BY <2>1
    <3> QED BY <1>1, <3>1
  <2>2. f \in [DOMAIN b -> Entries(b)]
    BY <1>2 DEF Surjection
  <2> HIDE DEF f
  <2> QED BY <2>1, <2>2 DEF Injection, IsInjective
<1>4. Cardinality(Entries(b)) = Len(b)
  <2> HIDE DEF f
  <2>1. IsFiniteSet(DOMAIN b) /\ Cardinality(DOMAIN b) = Len(b)
    BY <1>1, CountUpTo
  <2>2. Cardinality(Entries(b)) = Cardinality(DOMAIN b)
    BY <1>2, <1>3, <2>1, FS_Surjection
  <2> QED BY <2>1, <2>2
<1>5. \A e \in Entries(b) : \E i \in DOMAIN b : e = E(i)
  BY DEF Entries
<1>6. \A e \in Entries(b) : lastSeq < e.seq /\ e.seq <= lastSeq + Cardinality(Entries(b))
  <2> TAKE e \in Entries(b)
  <2>1. PICK i \in DOMAIN b : e = E(i)
    BY <1>5
  <2>2. i \in Nat /\ 1 <= i /\ i <= Len(b) /\ e.seq = lastSeq + i
    BY <1>1, <2>1
  <2> QED BY <1>1, <1>4, <2>2
<1>7. Distinct(Entries(b))
  <2> SUFFICES ASSUME NEW x \in Entries(b), NEW y \in Entries(b), x.seq = y.seq PROVE x = y
    BY DEF Distinct
  <2>1. PICK i \in DOMAIN b : x = E(i)
    BY <1>5
  <2>2. PICK j \in DOMAIN b : y = E(j)
    BY <1>5
  <2>3. i \in Nat /\ j \in Nat /\ lastSeq + i = lastSeq + j
    BY <1>1, <2>1, <2>2
  <2>4. i = j
    BY <2>3
  <2> QED BY <2>1, <2>2, <2>4
<1> QED BY <1>6, <1>7

\* A log with one more record.
LEMMA AppendedLog ==
    ASSUME NEW S, NEW l \in Seq(SUBSET S), NEW N \in SUBSET S
    PROVE  LogEntries(Append(l, N)) = LogEntries(l) \cup N
<1>1. DOMAIN l = 1..Len(l) /\ Len(l) \in Nat
  OBVIOUS
<1>2. /\ DOMAIN Append(l, N) = 1..Len(l) + 1 /\ Append(l, N)[Len(l) + 1] = N
      /\ \A i \in 1..Len(l) : Append(l, N)[i] = l[i]
  OBVIOUS
<1>3. Range(Append(l, N)) = Range(l) \cup {N}
  <2>1. \A x : x \in Range(l) <=> \E i \in 1..Len(l) : x = l[i]
    BY <1>1 DEF Range
  <2>2. \A x : x \in Range(Append(l, N)) <=> \E i \in 1..Len(l) + 1 : x = Append(l, N)[i]
    BY <1>2 DEF Range
  <2>3. \A i : i \in 1..Len(l) + 1 <=> i \in 1..Len(l) \/ i = Len(l) + 1
    BY <1>1
  <2> QED BY <1>2, <2>1, <2>2, <2>3
<1> QED BY <1>3 DEF LogEntries

\* A write keeps a version under its logs.
LEMMA FitsWrite ==
    ASSUME TypeInv, Running, up = "open", NEW v \in Versions, NEW last, NEW ln \in Nat, NEW N \in SUBSET Entry,
           ln = logNumber \/ ln = mem, Fits(v, last, ln), Older(history, N), Older(Stored(tables, v), LogE(mem)),
           logs' = [logs EXCEPT ![mem] = Append(@, N)], history' = history \cup N,
           UNCHANGED <<tables, faults>>
    PROVE  Consistent(tables', Logged(logs'), history', v, last, ln, Twins')
<1> DEFINE G == Logged(logs)
           K == Logged(logs')
<1>1. DOMAIN G = DOMAIN logs /\ \A n \in DOMAIN logs : G[n] = LogEntries(logs[n])
  BY LoggedIs
<1>2. DOMAIN K = DOMAIN logs' /\ \A n \in DOMAIN logs' : K[n] = LogEntries(logs'[n])
  BY LoggedIs
<1> HIDE DEF G, K
<1>3. /\ mem \in DOMAIN logs /\ (imm # 0 => imm < mem) /\ logNumber = (IF imm = 0 THEN mem ELSE imm)
      /\ \A n \in DOMAIN logs : n >= logNumber => n = mem \/ n = imm
  BY RunningIs
<1>4. mem \in Nat /\ imm \in Nat /\ DOMAIN logs \subseteq Nat /\ history \subseteq Entry
      /\ logs[mem] \in Seq(SUBSET Entry)
  BY <1>3 DEF TypeInv
<1>5. DOMAIN logs' = DOMAIN logs /\ logs'[mem] = Append(logs[mem], N)
      /\ \A n \in DOMAIN logs : n # mem => logs'[n] = logs[n]
  BY <1>3
<1>6. K[mem] = G[mem] \cup N
  <2>1. LogEntries(Append(logs[mem], N)) = LogEntries(logs[mem]) \cup N
    BY <1>4, AppendedLog
  <2> QED BY <1>1, <1>2, <1>3, <1>5, <2>1
<1>7. DOMAIN K = DOMAIN G /\ (\A n \in DOMAIN G : n # mem => K[n] = G[n]) /\ DOMAIN G \subseteq Nat
  BY <1>1, <1>2, <1>4, <1>5
<1>8. ln <= mem /\ \A n \in DOMAIN G : n >= ln => n <= mem
  <2>1. logNumber <= mem /\ logNumber \in Nat
    BY <1>3, <1>4
  <2>2. ASSUME NEW n \in DOMAIN logs, n >= ln PROVE n <= mem
    <3>1. n \in Nat
      BY <1>4
    <3>2. n >= logNumber
      BY <2>1, <2>2, <3>1, <1>4
    <3> QED BY <1>3, <1>4, <3>1, <3>2
  <2> QED BY <1>1, <1>4, <2>1, <2>2
<1>9. Consistent(tables, G, history, v, last, ln, Twins)
  BY DEF Fits, G
<1>10. mem \in DOMAIN G /\ Older(Stored(tables, v), G[mem])
  BY <1>1, <1>3 DEF LogE
<1>11. Consistent(tables, K, history \cup N, v, last, ln, Twins)
  BY <1>4, <1>6, <1>7, <1>8, <1>9, <1>10, ConsistentWrite
<1>12. Twins' = Twins
  BY DEF Twins
<1> QED BY <1>11, <1>12 DEF K

\* AddRecord: the new entries are newer than all others.
LEMMA WriteLogContents == ASSUME Books, Books', Contents, NEW b \in Batches, WriteLog(b) PROVE Contents'
<1> DEFINE N == Entries(b)
<1>1. /\ up = "open" /\ writing = {} /\ ~bgError /\ lastSeq + Len(b) <= MaxSeq
      /\ writing' = N /\ logs' = [logs EXCEPT ![mem] = Append(@, N)] /\ history' = history \cup N
      /\ UNCHANGED <<tables, manifests, current, up, mems, mem, imm, books, nextFile, lastSeq, recovered,
                     flush, comp, views, bgError, crashes, faults>>
  BY DEF WriteLog
<1>3. UNCHANGED <<tables, manifests, current, logNumber, version, manifestFile>>
  BY <1>1 DEF books
<1>4. TypeInv /\ TypeInv' /\ Running /\ Readers /\ Tasks
  BY OpenParts
<1>5. Disk /\ Sequence /\ Memory /\ Tree /\ Stale /\ Flushing /\ Compacting /\ Viewing
  BY OpenParts
<1>7. Cur' = Cur
  BY <1>3 DEF Cur
<1>8. \A M : TablesStay(M)
  BY <1>3 DEF TablesStay
<1>9. lastSeq \in Nat /\ history \subseteq Entry /\ mem \in Nat /\ logNumber \in Nat /\ version \in Versions
  BY <1>4 DEF TypeInv
<1>10. N \subseteq Entry
  BY <1>1, <1>9, EntriesAre
<1>11. Distinct(N) /\ \A e \in N : lastSeq < e.seq /\ e.seq <= lastSeq + Cardinality(N)
  BY <1>1, <1>9, EntriesNewer
<1> HIDE DEF N
<1>12. \A h \in history : h.seq <= lastSeq /\ h.seq \in Nat
  BY <1>1, <1>5, <1>9, EntryIs DEF Sequence
<1>13. Older(history, N)
  <2> SUFFICES ASSUME NEW h \in history, NEW e \in N PROVE h.seq < e.seq
    BY DEF Older
  <2>1. e.seq \in Nat
    BY <1>10, EntryIs
  <2> QED BY <1>9, <1>11, <1>12, <2>1
<1>14. Cur.version \in Versions /\ Cur.log \in Nat /\ Cur.last \in Nat
  BY <1>4, CurIs
<1>15. Older(Stored(tables, version), LogE(mem)) /\ Older(Stored(tables, Cur.version), LogE(mem))
  BY <1>1, <1>5 DEF Memory
<1>16. Fits(version, lastSeq, logNumber) /\ Fits(Cur.version, Cur.last, Cur.log) /\ Distinct(history)
  BY <1>1, <1>5 DEF Tree, Disk
<1>17. Cur.log = logNumber \/ Cur.log = mem
  BY <1>1, <1>4, RunningIs
<1>18. mem \in DOMAIN logs /\ logs[mem] \in Seq(SUBSET Entry)
  BY <1>1, <1>4, RunningIs DEF TypeInv
<1>19. LogE(mem)' = LogE(mem) \cup N
  <2>1. logs'[mem] = Append(logs[mem], N) /\ mem' = mem
    BY <1>1, <1>18
  <2>2. LogEntries(Append(logs[mem], N)) = LogEntries(logs[mem]) \cup N
    BY <1>10, <1>18, AppendedLog
  <2> QED BY <2>1, <2>2 DEF LogE
<1>20. Disk'
  <2>1. Consistent(tables', Logged(logs'), history', Cur.version, Cur.last, Cur.log, Twins')
    BY <1>1, <1>4, <1>10, <1>13, <1>14, <1>15, <1>16, <1>17, FitsWrite
  <2>2. Distinct(history \cup N)
    <3> SUFFICES ASSUME NEW x \in history \cup N, NEW y \in history \cup N, x.seq = y.seq PROVE x = y
      BY DEF Distinct
    <3>1. x.seq \in Nat /\ y.seq \in Nat
      BY <1>9, <1>10, EntryIs
    <3>2. (x \in history /\ y \in history) \/ (x \in N /\ y \in N)
      BY <1>13, <3>1 DEF Older
    <3> QED BY <1>11, <1>16, <3>2 DEF Distinct
  <2> QED BY <1>1, <1>7, <2>1, <2>2 DEF Disk, Fits
<1>21. Tree'
  <2>1. Consistent(tables', Logged(logs'), history', version, lastSeq, logNumber, Twins')
    BY <1>1, <1>4, <1>9, <1>10, <1>13, <1>15, <1>16, FitsWrite
  <2> QED BY <1>1, <1>3, <1>7, <2>1 DEF Tree, Fits
<1>22. Sequence' /\ Recovering'
  BY <1>1, <1>5, <1>7, <1>11, <1>12 DEF Sequence, Recovering
<1>23. Stale'
  BY <1>1 DEF Stale
<1>24. Flushing'
  BY <1>1, <1>3, <1>4, <1>5, <1>7, <1>8, FlushingStays
<1>25. Compacting'
  BY <1>1, <1>3, <1>4, <1>5, <1>7, CompactingStays
<1>26. Memory'
  <2>1. Stored(tables, version) \subseteq history /\ Stored(tables, Cur.version) \subseteq history
    BY <1>16 DEF Fits, Consistent, Inside
  <2>2. Older(Stored(tables, version), LogE(mem) \cup N) /\ Older(Stored(tables, Cur.version), LogE(mem) \cup N)
    BY <1>13, <1>15, <2>1 DEF Older
  <2>3. mems[mem] = LogE(mem)
    BY <1>1, <1>5 DEF Memory
  <2>4. imm # 0 => LogE(imm)' = LogE(imm)
    <3>1. imm # 0 => imm \in DOMAIN logs /\ imm # mem
      BY <1>1, <1>4, RunningIs, MemtablesAre
    <3>2. imm # 0 => logs'[imm] = logs[imm]
      BY <1>1, <3>1
    <3> QED BY <1>1, <3>2 DEF LogE
  <2>5. imm # 0 => mems[imm] = LogE(imm) /\ mems[imm] # {} /\ Older(Stored(tables, version), mems[imm])
    BY <1>1, <1>5 DEF Memory
  <2>6. mems'[mem'] \cup writing' = LogE(mem)'
    BY <1>1, <1>19, <2>3
  <2> QED BY <1>1, <1>3, <1>7, <1>19, <2>2, <2>4, <2>5, <2>6 DEF Memory
<1>27. Viewing'
  <2>1. ASSUME NEW w \in views
        PROVE  Readable(tables, w.version, mems[w.mem], ImmEntries(mems, w.imm), history \cup N, w.seq, Twins)
    <3>1. w.seq \in Nat /\ w.seq <= lastSeq
      BY <1>4, ViewIs
    <3>2. Readable(tables, w.version, mems[w.mem], ImmEntries(mems, w.imm), history, w.seq, Twins)
      BY <1>5 DEF Viewing
    <3>3. \A e \in N : w.seq < e.seq
      <4> TAKE e \in N
      <4>1. e.seq \in Nat /\ lastSeq < e.seq
        BY <1>10, <1>11, EntryIs
      <4> QED BY <1>9, <3>1, <4>1
    <3>4. mems[w.mem] \subseteq history
      BY <3>2 DEF Readable
    <3>5. /\ mems[w.mem] \subseteq history \cup N /\ history \cup N \subseteq Entry
          /\ \A e \in history \cup N : e \in history \/ w.seq < e.seq
      BY <1>9, <1>10, <3>3, <3>4
    <3> QED BY <3>1, <3>2, <3>5, ReadableMore
  <2>2. Twins' = Twins
    BY <1>1 DEF Twins
  <2> QED BY <1>1, <1>3, <2>1, <2>2 DEF Viewing
<1> QED BY <1>20, <1>21, <1>22, <1>23, <1>24, <1>25, <1>26, <1>27 DEF Contents

-----------------------------------------------------------------------------
(* Flushes keep it *)

\* The level a memtable's table lands on is one it meets nothing on, or above.
LEMMA PickedApart ==
    ASSUME TypeInv, NEW v \in Versions, NEW R, R \subseteq Entry, NEW l \in PickLevels(v, R), l > 0,
           NEW i \in Levels, i <= l, NEW n \in v[i]
    PROVE  Apart(R, File(n))
<1>1. l \in 0..MaxMemCompactLevel
  BY PickedLevel
<1>2. \A j \in 0..l : Overlapping(v, j, R) = {}
  BY <1>1 DEF PickLevels
<1>3. i \in Nat /\ i \in 0..l
  BY <1>1, LevelOf
<1>4. Overlapping(v, i, R) = {}
  BY <1>2, <1>3
<1>5. File(n) \subseteq Entry
  BY DEF TypeInv, File
<1>6. ~Overlaps(n, R)
  <2>1. CASE i > 0
    BY <1>3, <1>4, <2>1, OverlappingBelow
  <2>2. CASE i = 0
    <3>1. {} = Meets(v, R, {})
      BY <1>4, <2>2, OverlappingAtZero
    <3>2. Content({}) = {}
      BY DEF Content
    <3>3. R \cup Content({}) = R
      BY <3>2
    <3> QED BY <2>2, <3>1, <3>3 DEF Meets
  <2> QED BY <1>3, <2>1, <2>2
<1>7. Apart(File(n), R)
  BY <1>5, <1>6, NotOverlapping
<1> QED BY <1>5, <1>7, ApartTurns

\* WriteLevel0Table: the new table is nobody's yet.
LEMMA FlushBuildContents == ASSUME Books, Books', Contents, FlushBuild PROVE Contents'
<1>1. /\ up = "open" /\ imm # 0 /\ flush = {}
      /\ IF comp = {} THEN ~bgError ELSE \E c \in comp : c.rest # {}
      /\ tables' = Created(tables, nextFile, mems[imm])
      /\ UNCHANGED <<logs, manifests, current, up, mems, mem, imm, books, lastSeq, recovered, writing,
                     comp, views, bgError, history, crashes, faults>>
  BY DEF FlushBuild, FlushTurn
<1>2. PICK l \in PickLevels(version, mems[imm]) :
        flush' = {[file |-> nextFile, level |-> l, logged |-> FALSE]}
  BY DEF FlushBuild
<1>3. UNCHANGED <<logs, manifests, current, logNumber, version, manifestFile>>
  BY <1>1 DEF books
<1>4. TypeInv /\ TypeInv' /\ Running /\ Readers /\ Tasks
  BY OpenParts
<1>5. Disk /\ Sequence /\ Memory /\ Tree /\ Stale /\ Flushing /\ Compacting /\ Viewing
  BY OpenParts
<1>7. Cur' = Cur
  BY <1>3 DEF Cur
<1>9. /\ mem \in DOMAIN mems /\ imm \in DOMAIN mems /\ mems[imm] \subseteq Entry /\ nextFile \in Nat
      /\ version \in Versions /\ lastSeq \in Nat
      /\ Files(version) \subseteq DOMAIN tables /\ \A n \in DOMAIN tables : n < nextFile
  BY <1>1, <1>4, RunningIs DEF TypeInv
<1>10. Files(Cur.version) \subseteq DOMAIN tables /\ Cur.version \in Versions
  BY <1>4, CurIs DEF Books, ManifestBooks
<1>11. tables'[nextFile] = mems[imm] /\ \A n \in DOMAIN tables : tables'[n] = tables[n]
  <2>1. \A n \in DOMAIN tables : n # nextFile
    <3>1. DOMAIN tables \subseteq Nat
      BY <1>4 DEF TypeInv
    <3> QED BY <1>9, <3>1
  <2> QED BY <1>1, <2>1 DEF Created
<1>8. (\A N : N \subseteq DOMAIN tables => TablesStay(N)) /\ \A n : LogsStay(n)
  BY <1>3, <1>11 DEF TablesStay, LogsStay
<1>12. faults <= faults' /\ lastSeq <= lastSeq' /\ faults' \in Nat
  BY <1>1, <1>4 DEF TypeInv
<1>21. TablesStay(Files(version)) /\ TablesStay(Files(Cur.version))
  BY <1>8, <1>9, <1>10
<1>13. Disk'
  BY <1>1, <1>4, <1>5, <1>7, <1>8, <1>12, <1>21, DiskStays
<1>14. Tree'
  BY <1>1, <1>3, <1>4, <1>5, <1>7, <1>8, <1>12, <1>21, TreeStays
<1>15. Sequence' /\ Recovering'
  BY <1>1, <1>5, <1>7, <1>9, SequenceStays DEF Recovering
<1>16. Stale'
  <2>1. ASSUME bgError PROVE flush # {} \/ \E c \in comp : c.rest # {}
    BY <1>1, <2>1
  <2>2. ASSUME bgError, NEW i \in Levels, NEW n \in Cur.version[i]
        PROVE  n \in version[i] \/ tables'[n] = mems[imm]
    <3>1. n \in version[i] \/ tables[n] = mems[imm]
      BY <1>1, <1>5, <2>1, <2>2 DEF Stale
    <3>2. n \in DOMAIN tables
      BY <1>10, <2>2, InFiles
    <3> QED BY <1>11, <3>1, <3>2
  <2> QED BY <1>1, <1>3, <1>7, <2>2 DEF Stale
<1>17. Flushing'
  <2>1. \A f \in flush' : f.file = nextFile /\ f.level = l
    BY <1>2
  <2>2. ASSUME l > 0, NEW i \in Levels, i <= l, NEW n \in version[i]
        PROVE  Apart(mems[imm], tables'[n])
    <3>1. n \in DOMAIN tables
      BY <1>9, <2>2, InFiles
    <3>2. File(n) = tables'[n]
      BY <1>11, <3>1 DEF File
    <3>3. Apart(mems[imm], File(n))
      BY <1>4, <1>9, <2>2, PickedApart
    <3> QED BY <3>2, <3>3
  <2>3. (\A n \in Files(version) : n < nextFile) /\ \A n \in Files(Cur.version) : n < nextFile
    BY <1>9, <1>10
  <2> QED BY <1>1, <1>3, <1>7, <1>11, <2>1, <2>2, <2>3 DEF Flushing
<1>18. Compacting'
  <2>1. \A c \in comp : \A n \in Files(c.version) \cup c.outs : tables'[n] = tables[n]
    BY <1>4, <1>11, CompIs
  <2>2. \A n \in Files(version) \cup Files(Cur.version) : tables'[n] = tables[n]
    BY <1>9, <1>10, <1>11
  <2> QED BY <1>1, <1>3, <1>4, <1>5, <1>7, <2>1, <2>2, CompactingStays
<1>19. Memory'
  BY <1>1, <1>3, <1>4, <1>5, <1>7, <1>21, MemoryStays
<1>20. Viewing'
  <2>1. \A x \in views' : \A n \in Files(x.version) : tables'[n] = tables[n]
    BY <1>1, <1>4, <1>11, ViewIs
  <2> QED BY <1>1, <1>4, <1>5, <1>12, <2>1, ViewingStays
<1> QED BY <1>13, <1>14, <1>15, <1>16, <1>17, <1>18, <1>19, <1>20 DEF Contents

\* A version with one more table.
LEMMA StoredOne ==
    ASSUME NEW T, NEW v \in Versions, NEW j \in Levels, NEW f \in Nat
    PROVE  /\ WithTables(v, j, {f}) \in Versions /\ Files(WithTables(v, j, {f})) = Files(v) \cup {f}
           /\ Stored(T, WithTables(v, j, {f})) = Stored(T, v) \cup T[f]
<1>1. {f} \in SUBSET Nat
  OBVIOUS
<1>2. /\ WithTables(v, j, {f}) \in Versions /\ Files(WithTables(v, j, {f})) = Files(v) \cup {f}
      /\ Stored(T, WithTables(v, j, {f})) = Stored(T, v) \cup Holds(T, {f})
  BY <1>1, StoredMore
<1>3. Holds(T, {f}) = T[f]
  BY HoldsOne
<1> QED BY <1>2, <1>3

\* A table of what a log holds, and the log still replayed.
LEMMA ConsistentTwin ==
    ASSUME NEW T, NEW G, NEW H, NEW v \in Versions, NEW last \in Nat,
           NEW im \in DOMAIN G, NEW m \in DOMAIN G, NEW tw, NEW j \in Levels, NEW f \in Nat, NEW E,
           H \subseteq Entry, DOMAIN G \subseteq Nat, tw,
           Consistent(T, G, H, v, last, im, tw), WhereNew(T, v, j, f, E, tw),
           T[f] = E, E # {}, G[im] = E, im < m, \A n \in DOMAIN G : n >= im => n = im \/ n = m,
           \A e \in E : e.seq <= last
    PROVE  Consistent(T, G, H, WithTables(v, j, {f}), last, im, tw)
<1> DEFINE V == WithTables(v, j, {f})
<1>1. V \in Versions /\ Files(V) = Files(v) \cup {f} /\ Stored(T, V) = Stored(T, v) \cup E
  <2> HIDE DEF V
  <2>1. V \in Versions /\ Files(V) = Files(v) \cup {f} /\ Stored(T, V) = Stored(T, v) \cup T[f]
    BY ONLY StoredOne DEF V
  <2> QED BY <2>1
<1>2. /\ Replay(G, im) \subseteq H /\ Inside(T, H, v, last)
      /\ \A h \in H : h.seq <= last \/ h \in Replay(G, im)
      /\ Follows(T, G, H, v, im, tw)
      /\ Good(T, v, tw)
      /\ Complete(Stored(T, v), H \ Replay(G, im))
  BY DEF Consistent
<1>3. im \in Nat /\ m \in Nat /\ E \subseteq Replay(G, im)
  BY ReplayIs
<1> HIDE DEF V
<1>4. Inside(T, H, V, last)
  <2>1. \A n \in Files(V) : T[n] # {}
    BY <1>1, <1>2 DEF Inside
  <2> QED BY <1>1, <1>2, <1>3, <2>1 DEF Inside
<1>5. Follows(T, G, H, V, im, tw)
  <2>1. ASSUME NEW a \in DOMAIN G, im <= a PROVE Older(E, G[a]) \/ E = G[a]
    <3>1. a \in Nat
      OBVIOUS
    <3>2. a = im \/ a = m
      BY <1>3, <2>1, <3>1
    <3>3. a = m => Older(G[im], G[m])
      BY <1>2, <1>3 DEF Follows
    <3> QED BY <3>2, <3>3
  <2>2. ASSUME NEW a \in DOMAIN G, NEW t \in Files(V), im <= a PROVE Older(T[t], G[a]) \/ (tw /\ T[t] = G[a])
    <3>1. CASE t = f
      BY <2>1, <2>2, <3>1
    <3>2. CASE t # f
      BY <1>1, <1>2, <2>2, <3>2 DEF Follows
    <3> QED BY <3>1, <3>2
  <2> QED BY <1>2, <2>2 DEF Follows
<1>6. \A n \in Files(v) : T[n] \subseteq Entry
  <2>1. \A n \in Files(v) : T[n] \subseteq Stored(T, v)
    BY StoredIs
  <2> QED BY <1>2, <2>1 DEF Inside
<1>7. E \subseteq Entry
  BY <1>2, <1>3
<1>8. Good(T, V, tw)
  BY <1>2, <1>6, <1>7, GoodFlush DEF V
<1>9. Complete(Stored(T, V), H \ Replay(G, im))
  <2>1. Stored(T, v) \subseteq Entry
    BY <1>2 DEF Inside
  <2>2. Older(H \ Replay(G, im), E)
    BY <1>2, <1>3 DEF Follows, Older
  <2>3. H \ Replay(G, im) \subseteq Entry
    OBVIOUS
  <2> DEFINE J == H \ Replay(G, im)
             A == Stored(T, v)
             B == Stored(T, V)
  <2>4. A \cup E \subseteq B /\ B \subseteq A \cup E /\ J \subseteq J /\ J \subseteq J \cup E
    BY <1>1
  <2>5. A \subseteq Entry /\ J \subseteq Entry /\ Complete(A, J) /\ Older(J, E)
    BY <1>2, <2>1, <2>2, <2>3
  <2> HIDE DEF A, B, J
  <2>6. Complete(B, J)
    BY <1>7, <2>4, <2>5, CompleteNewer
  <2> QED BY <2>6 DEF B, J
<1>10. Consistent(T, G, H, V, last, im, tw)
  BY <1>2, <1>4, <1>5, <1>8, <1>9 DEF Consistent
<1> QED BY <1>10 DEF V

\* The manifest's version under the logs in use, while no record waits.
LEMMA CurFits ==
    ASSUME Books, Contents, up = "open", \A f \in flush : ~f.logged, \A c \in comp : ~c.logged
    PROVE  Fits(Cur.version, lastSeq, logNumber) /\ (~bgError => Cur.version = version)
<1>1. ~bgError => Ahead(Cur.version, version, flush, comp)
  BY DEF Books, Running
<1>2. ~bgError => Cur.version = version
  BY <1>1 DEF Ahead
<1>3. Fits(version, lastSeq, logNumber) /\ (bgError => Fits(Cur.version, lastSeq, logNumber))
  BY DEF Contents, Tree
<1> QED BY <1>2, <1>3

\* The record of a flush: what the manifest's version becomes, under the new
\* log and, should the record be all that is left of the flush, under both.
LEMMA FlushFits ==
    ASSUME Books, Contents, NEW f \in flush, ~f.logged
    PROVE  LET V == WithTables(Cur.version, f.level, {f.file})
               G == Logged(logs)
           IN  /\ Consistent(tables, G, history, V, lastSeq, mem, Twins)
               /\ Consistent(tables, G, history, V, lastSeq, logNumber, TRUE)
               /\ ~Twins => ~bgError
               /\ \A c \in comp : CompFits(tables, c, V)
               /\ Older(Stored(tables, V), LogE(mem))
               /\ \A i \in Levels : \A n \in V[i] : n \in version[i] \/ tables[n] = mems[imm]
               /\ V \in Versions
<1> DEFINE V == WithTables(Cur.version, f.level, {f.file})
           G == Logged(logs)
           E == mems[imm]
<1>1. TypeInv /\ Running /\ Tasks /\ Closed /\ (faults = 0 => ~bgError)
  BY DEF Books
<1>2. Disk /\ Sequence /\ Memory /\ Tree /\ Stale /\ Flushing /\ Compacting
  BY DEF Contents
<1>3. /\ up = "open" /\ flush = {f} /\ imm # 0 /\ \A c \in comp : c.rest # {} /\ ~c.logged
  BY <1>1 DEF Closed, Tasks, CompBooks
<1>4. /\ f.file \in Nat /\ f.level \in Nat /\ f.level \in Levels
  BY <1>1, LevelNumbers DEF TypeInv, FlushRecord
<1>5. Cur.version \in Versions /\ version \in Versions
  BY <1>1, CurIs DEF TypeInv
<1>6. Fits(Cur.version, lastSeq, logNumber) /\ (~bgError => Cur.version = version)
  BY <1>3, CurFits
<1>7. /\ mem \in DOMAIN logs /\ imm \in DOMAIN logs /\ imm < mem /\ logNumber = imm /\ imm \in DOMAIN mems
      /\ \A n \in DOMAIN logs : n >= imm => n = mem \/ n = imm
  BY <1>1, <1>3, RunningIs
<1>8. /\ mem \in Nat /\ imm \in Nat /\ DOMAIN logs \subseteq Nat /\ history \subseteq Entry /\ lastSeq \in Nat
      /\ E \subseteq Entry /\ faults \in Nat
  BY <1>1, <1>7 DEF TypeInv
<1>9. DOMAIN G = DOMAIN logs /\ G[imm] = LogE(imm) /\ G[mem] = LogE(mem)
  BY <1>7, LoggedIs DEF LogE
<1>10. E = LogE(imm) /\ E # {} /\ mems[mem] \cup writing = LogE(mem) /\ Older(Stored(tables, Cur.version), LogE(mem))
  BY <1>2, <1>3 DEF Memory
<1>11. /\ tables[f.file] = E
       /\ f.level > 0 => \A i \in Levels : i <= f.level => \A n \in version[i] : Apart(E, tables[n])
       /\ \A n \in Files(version) : n < f.file
       /\ \A n \in Files(Cur.version) : n < f.file
  BY <1>2 DEF Flushing
<1>12. bgError => Twins
  BY <1>1, <1>8 DEF Twins
<1>13. Consistent(tables, G, history, Cur.version, lastSeq, imm, Twins)
  BY <1>6, <1>7 DEF Fits
<1>14. \A i \in Levels : \A n \in Cur.version[i] : n \in version[i] \/ (Twins /\ tables[n] = E)
  BY <1>2, <1>3, <1>6, <1>12 DEF Stale
<1>15. \A h \in history : h.seq <= lastSeq \/ h \in LogE(mem)
  BY <1>2, <1>3, <1>10 DEF Sequence
<1> HIDE DEF V, G, E
<1>16. WhereNew(tables, Cur.version, f.level, f.file, E, Twins)
  <2>1. \A i \in Levels : \A n \in Cur.version[i] : Older(tables[n], E) \/ (Twins /\ tables[n] = E)
    <3>1. \A t \in Files(Cur.version) : Older(tables[t], G[imm]) \/ (Twins /\ tables[t] = G[imm])
      BY <1>7, <1>8, <1>9, <1>13 DEF Consistent, Follows
    <3> QED BY <1>5, <1>9, <1>10, <3>1, InFiles
  <2>2. f.level > 0 => \A i \in Levels : i <= f.level => \A n \in Cur.version[i] :
           Apart(E, tables[n]) \/ (Twins /\ tables[n] = E)
    BY <1>11, <1>14
  <2>3. \A i \in Levels : \A n \in Cur.version[i] : n < f.file
    BY <1>5, <1>11, InFiles
  <2> QED BY <2>1, <2>2, <2>3 DEF WhereNew
<1>17. Consistent(tables, G, history, V, lastSeq, mem, Twins)
  <2>1. imm \in DOMAIN G /\ mem \in DOMAIN G /\ G[imm] = E /\ \A n \in DOMAIN G : n >= imm => n = imm \/ n = mem
    BY <1>7, <1>9, <1>10
  <2>2. \A h \in history : h.seq <= lastSeq \/ h \in G[mem]
    BY <1>9, <1>15
  <2>3. DOMAIN G \subseteq Nat /\ lastSeq <= lastSeq
    BY <1>8, <1>9
  <2> QED BY <1>4, <1>5, <1>7, <1>8, <1>10, <1>11, <1>13, <1>16, <2>1, <2>2, <2>3, ConsistentFlush DEF V
<1>18. Older(E, LogE(mem))
  BY <1>7, <1>8, <1>9, <1>10, <1>13 DEF Consistent, Follows
<1>19. \A e \in E : e.seq <= lastSeq
  <2> TAKE e \in E
  <2>1. e \in history
    <3>1. G[imm] \subseteq Replay(G, imm)
      BY <1>7, <1>8, <1>9, ReplayIs
    <3> QED BY <1>9, <1>10, <1>13, <3>1 DEF Consistent
  <2>2. e \notin LogE(mem)
    <3>1. e.seq \in Nat
      BY <1>8, EntryIs
    <3> QED BY <1>18, <3>1 DEF Older
  <2> QED BY <1>15, <2>1, <2>2
<1>20. Consistent(tables, G, history, V, lastSeq, logNumber, TRUE)
  <2>1. imm \in DOMAIN G /\ mem \in DOMAIN G /\ G[imm] = E /\ \A n \in DOMAIN G : n >= imm => n = imm \/ n = mem
    BY <1>7, <1>9, <1>10
  <2>2. WhereNew(tables, Cur.version, f.level, f.file, E, TRUE)
    BY <1>16 DEF WhereNew
  <2>3. DOMAIN G \subseteq Nat /\ lastSeq <= lastSeq
    BY <1>8, <1>9
  <2>4. Consistent(tables, G, history, Cur.version, lastSeq, imm, TRUE)
    BY <1>5, <1>8, <1>13, <2>3, SameConsistent
  <2>5. Consistent(tables, G, history, V, lastSeq, imm, TRUE)
    BY <1>4, <1>5, <1>7, <1>8, <1>10, <1>11, <1>19, <2>1, <2>2, <2>3, <2>4, ConsistentTwin DEF V
  <2> QED BY <1>7, <2>5
<1>21. V \in Versions /\ Stored(tables, V) = Stored(tables, Cur.version) \cup E
  <2>1. V \in Versions /\ Stored(tables, V) = Stored(tables, Cur.version) \cup tables[f.file]
    <3> DEFINE j == f.level
               g == f.file
               v == Cur.version
    <3>1. j \in Levels /\ g \in Nat /\ v \in Versions /\ V = WithTables(v, j, {g})
      BY <1>4, <1>5 DEF V
    <3> HIDE DEF j, g, v
    <3>2. V \in Versions /\ Stored(tables, V) = Stored(tables, v) \cup tables[g]
      BY <3>1, StoredOne
    <3> QED BY <3>2 DEF g, v
  <2> QED BY <1>11, <2>1
<1>22. Older(Stored(tables, V), LogE(mem))
  BY <1>10, <1>18, <1>21 DEF Older
<1>23. \A i \in Levels : \A n \in V[i] : n \in version[i] \/ tables[n] = E
  BY <1>11, <1>14 DEF V, WithTables
<1>24. \A c \in comp : CompFits(tables, c, V)
  <2> SUFFICES ASSUME NEW c \in comp PROVE CompFits(tables, c, V)
    OBVIOUS
  <2>1. /\ c \in CompRecord /\ c.level \in Levels /\ c.level + 1 \in Levels
        /\ c.in0 \subseteq version[c.level] /\ c.in1 \subseteq version[c.level + 1]
        /\ \A n \in c.in0 \cup c.in1 : n \in Files(version)
    BY <1>1, CompIs
  <2>2. CompFits(tables, c, Cur.version) /\ Connected(tables, c)
    BY <1>2, <1>3 DEF Compacting, CompWork
  <2>3. In(tables, c) \subseteq Entry
    <3>1. \A n \in Files(version) : tables[n] \subseteq Entry
      BY <1>1, <1>3, RunningIs DEF TypeInv
    <3> QED BY <2>1, <3>1, InIs
  <2>4. \A n \in Cur.version[0] : n < f.file
    BY <1>5, <1>11, InFiles, LevelNumbers
  <2>5. f.level > c.level => \A n \in c.in0 \cup c.in1 : Apart(tables[f.file], tables[n])
    <3> SUFFICES ASSUME f.level > c.level, NEW n \in c.in0 \cup c.in1 PROVE Apart(E, tables[n])
      BY <1>11
    <3>1. c.level \in Nat
      BY <2>1, LevelOf
    <3>2. c.level <= f.level /\ c.level + 1 <= f.level /\ f.level > 0
      BY <1>4, <3>1
    <3> QED BY <1>11, <2>1, <3>2
  <2> QED BY <1>4, <1>5, <1>8, <1>11, <2>1, <2>2, <2>3, <2>4, <2>5, FitsMore DEF V
<1>25. ~Twins => ~bgError
  BY <1>12
<1> QED BY <1>17, <1>20, <1>21, <1>22, <1>23, <1>24, <1>25 DEF V, G, E

\* The record of a flush.
LEMMA FlushLogContents == ASSUME Books, Books', Contents, FlushLog PROVE Contents'
<1>1. UNCHANGED <<logs, tables, current, up, mems, mem, imm, books, nextFile, lastSeq, recovered,
                  writing, comp, views, bgError, history, crashes, faults>>
  BY DEF FlushLog
<1>2. PICK f \in flush : ~f.logged /\ flush' = {[f EXCEPT !.logged = TRUE]} /\ Record(FlushEdit(f))
  BY DEF FlushLog
<1>3. UNCHANGED <<logNumber, version, manifestFile>>
  BY <1>1 DEF books
<1>4. TypeInv /\ TypeInv' /\ Running /\ Readers /\ Tasks /\ Closed
  BY OpenParts
<1>5. Disk /\ Sequence /\ Memory /\ Tree /\ Stale /\ Flushing /\ Compacting /\ Viewing
  BY OpenParts
<1> DEFINE V == WithTables(Cur.version, f.level, {f.file})
           G == Logged(logs)
<1>6. up = "open" /\ f \in FlushRecord
  BY <1>4 DEF Closed, TypeInv
<1>7. Cur' = [log |-> mem, next |-> nextFile, last |-> lastSeq, version |-> V]
  BY <1>1, <1>2, <1>6, FlushRecorded
<1>8. /\ Consistent(tables, G, history, V, lastSeq, mem, Twins)
      /\ Consistent(tables, G, history, V, lastSeq, logNumber, TRUE)
      /\ ~Twins => ~bgError
      /\ \A c \in comp : CompFits(tables, c, V)
      /\ Older(Stored(tables, V), LogE(mem))
      /\ \A i \in Levels : \A n \in V[i] : n \in version[i] \/ tables[n] = mems[imm]
  BY <1>2, FlushFits
<1>9. Cur'.log = mem /\ Cur'.last = lastSeq /\ Cur'.version = V
  BY <1>7
<1> HIDE DEF V, G
<1>10. Twins' = Twins /\ Logged(logs') = G /\ tables' = tables /\ history' = history /\ Twins \in BOOLEAN
  BY <1>1 DEF Twins, G
<1>11. lastSeq \in Nat /\ faults <= faults' /\ faults' \in Nat
  BY <1>1, <1>4 DEF TypeInv
<1>13. Disk'
  BY <1>1, <1>5, <1>6, <1>8, <1>9, <1>10 DEF Disk, Fits
<1>14. Tree'
  <2>1. bgError => Twins = TRUE
    BY <1>8, <1>10
  <2> QED BY <1>1, <1>3, <1>5, <1>6, <1>8, <1>9, <1>10, <2>1 DEF Tree, Fits, G
<1>15. Sequence' /\ Recovering'
  BY <1>1, <1>5, <1>6, <1>9, <1>11, SequenceStays DEF Recovering
<1>16. Stale'
  BY <1>1, <1>3, <1>8, <1>9 DEF Stale
<1>17. Flushing'
  <2>1. [f EXCEPT !.logged = TRUE].file = f.file /\ [f EXCEPT !.logged = TRUE].level = f.level
        /\ [f EXCEPT !.logged = TRUE].logged
    BY <1>6 DEF FlushRecord
  <2>2. \A g \in flush' : g.file = f.file /\ g.level = f.level /\ g.logged
    BY <1>2, <2>1
  <2> QED BY <1>1, <1>2, <1>3, <1>5, <2>2 DEF Flushing
<1>18. Compacting'
  BY <1>1, <1>3, <1>5, <1>8, <1>9 DEF Compacting
<1>19. Memory'
  <2>1. LogE(mem)' = LogE(mem) /\ LogE(imm)' = LogE(imm)
    BY <1>1 DEF LogE
  <2> QED BY <1>1, <1>3, <1>5, <1>6, <1>8, <1>9, <2>1 DEF Memory
<1>20. Viewing'
  BY <1>1, <1>4, <1>5, <1>11, ViewingStays
<1> QED BY <1>13, <1>14, <1>15, <1>16, <1>17, <1>18, <1>19, <1>20 DEF Contents

\* A flush that fails, its record written or not.
LEMMA FlushFailContents == ASSUME Books, Books', Contents, FlushFail PROVE Contents'
<1>1. /\ faults' = faults + 1 /\ bgError' = TRUE /\ flush' \subseteq flush
      /\ UNCHANGED <<logs, tables, current, up, mems, mem, imm, books, lastSeq, recovered, writing, comp,
                     views, history, crashes>>
  BY DEF FlushFail
<1>2. \/ FlushTurn /\ UNCHANGED <<flush, manifests>>
      \/ /\ \E f \in flush : ~f.logged /\ UNCHANGED nextFile /\ (Record(FlushEdit(f)) \/ UNCHANGED manifests)
         /\ flush' = {}
  BY DEF FlushFail
<1>3. UNCHANGED <<logNumber, version, manifestFile>>
  BY <1>1 DEF books
<1>4. TypeInv /\ TypeInv' /\ Running /\ Readers /\ Tasks /\ Closed
  BY OpenParts
<1>5. Disk /\ Sequence /\ Memory /\ Tree /\ Stale /\ Flushing /\ Compacting /\ Viewing
  BY OpenParts
<1>6. up = "open" /\ flush' = {}
  BY <1>1, <1>2, <1>4 DEF Closed, FlushTurn
<1>7. (\A f \in flush : ~f.logged) /\ (\A c \in comp : ~c.logged)
  <2>1. CASE FlushTurn
    BY <1>4, <2>1 DEF FlushTurn, Tasks, CompBooks
  <2>2. CASE \E f \in flush : ~f.logged
    BY <1>4, <2>2 DEF Tasks, CompBooks
  <2> QED BY <1>2, <2>1, <2>2
<1>8. Fits(Cur.version, lastSeq, logNumber) /\ (~bgError => Cur.version = version)
  BY <1>6, <1>7, CurFits
<1>9. lastSeq \in Nat /\ faults <= faults' /\ faults' \in Nat /\ lastSeq <= lastSeq' /\ logNumber \in Nat
      /\ Twins' = TRUE /\ version \in Versions /\ DOMAIN logs' \subseteq Nat
  BY <1>1, <1>4 DEF TypeInv, Twins
<1>10. (\A N : TablesStay(N)) /\ \A n : LogsStay(n)
  BY <1>1 DEF TablesStay, LogsStay
<1>11. Fits(version, lastSeq, logNumber)'
  <2>1. Fits(version, lastSeq, logNumber)
    BY <1>5, <1>6 DEF Tree
  <2>2. lastSeq <= lastSeq /\ \A n \in Files(version) : tables'[n] = tables[n]
    BY <1>1, <1>9
  <2>3. Consistent(tables', Logged(logs'), history', version, lastSeq, logNumber, Twins')
    BY <1>1, <1>4, <1>9, <1>10, <2>1, <2>2, FitsStay
  <2> QED BY <1>1, <1>3, <2>3 DEF Fits
<1>12. Flushing' /\ Recovering'
  BY <1>1, <1>6 DEF Flushing, Recovering
<1>13. Viewing'
  BY <1>1, <1>4, <1>5, <1>9, ViewingStays
<1>14. ASSUME UNCHANGED manifests PROVE Contents'
  <2>1. Cur' = Cur
    BY <1>1, <1>14 DEF Cur
  <2>2. Disk'
    BY <1>1, <1>4, <1>5, <1>6, <1>9, <1>10, <2>1, DiskStays
  <2>3. Tree'
    <3>1. Cur.version \in Versions
      BY <1>4, CurIs
    <3>2. lastSeq <= lastSeq /\ \A n \in Files(Cur.version) : tables'[n] = tables[n]
      BY <1>1, <1>9
    <3>3. Consistent(tables', Logged(logs'), history', Cur.version, lastSeq, logNumber, Twins')
      BY <1>1, <1>4, <1>8, <1>9, <1>10, <3>1, <3>2, FitsStay
    <3> QED BY <1>1, <1>3, <1>11, <2>1, <3>3 DEF Tree, Fits
  <2>4. Sequence'
    BY <1>1, <1>5, <1>6, <1>9, <2>1, SequenceStays
  <2>5. Stale'
    <3>1. ASSUME imm # 0, \E c \in comp : c.rest # {}, NEW i \in Levels, NEW n \in Cur.version[i]
          PROVE  n \in version[i] \/ tables[n] = mems[imm]
      BY <1>5, <1>6, <1>8, <3>1 DEF Stale
    <3> QED BY <1>1, <1>3, <1>6, <2>1, <3>1 DEF Stale
  <2>6. Compacting'
    BY <1>1, <1>3, <1>4, <1>5, <2>1, CompactingStays
  <2>7. Memory'
    BY <1>1, <1>3, <1>4, <1>5, <1>6, <1>10, <2>1, MemoryStays
  <2> QED BY <1>12, <1>13, <2>2, <2>3, <2>4, <2>5, <2>6, <2>7 DEF Contents
<1>15. ASSUME NEW f \in flush, ~f.logged, UNCHANGED nextFile, Record(FlushEdit(f)) PROVE Contents'
  <2> DEFINE V == WithTables(Cur.version, f.level, {f.file})
             G == Logged(logs)
  <2>1. Cur' = [log |-> mem, next |-> nextFile, last |-> lastSeq, version |-> V]
    BY <1>1, <1>6, <1>15, FlushRecorded
  <2>2. /\ Consistent(tables, G, history, V, lastSeq, mem, Twins)
        /\ Consistent(tables, G, history, V, lastSeq, logNumber, TRUE)
        /\ \A c \in comp : CompFits(tables, c, V)
        /\ Older(Stored(tables, V), LogE(mem))
        /\ \A i \in Levels : \A n \in V[i] : n \in version[i] \/ tables[n] = mems[imm]
        /\ V \in Versions
    BY <1>15, FlushFits
  <2>3. Cur'.log = mem /\ Cur'.last = lastSeq /\ Cur'.version = V
    BY <2>1
  <2> HIDE DEF V, G
  <2>4. Logged(logs') = G /\ tables' = tables /\ history' = history
    BY <1>1 DEF G
  <2>5. Disk'
    <3>1. mem \in Nat /\ history \subseteq Entry /\ lastSeq <= lastSeq
      <4>1. mem \in Nat /\ history \subseteq Entry /\ lastSeq \in Nat
        BY <1>4 DEF TypeInv
      <4> QED BY <4>1
    <3>2. DOMAIN G \subseteq Nat
      BY <1>4, LoggedIs DEF TypeInv, G
    <3>3. Consistent(tables, G, history, V, lastSeq, mem, TRUE)
      BY <1>9, <2>2, <3>1, <3>2, SameConsistent
    <3> QED BY <1>1, <1>5, <1>6, <1>9, <2>3, <2>4, <3>3 DEF Disk, Fits
  <2>6. Tree'
    BY <1>1, <1>3, <1>9, <1>11, <2>2, <2>3, <2>4 DEF Tree, Fits
  <2>7. Sequence'
    BY <1>1, <1>5, <1>6, <1>9, <2>3, SequenceStays
  <2>8. Stale'
    BY <1>1, <1>3, <2>2, <2>3 DEF Stale
  <2>9. Compacting'
    BY <1>1, <1>3, <1>5, <2>2, <2>3 DEF Compacting
  <2>10. Memory'
    <3>1. LogE(mem)' = LogE(mem) /\ LogE(imm)' = LogE(imm)
      BY <1>1 DEF LogE
    <3> QED BY <1>1, <1>3, <1>5, <1>6, <2>2, <2>3, <3>1 DEF Memory
  <2> QED BY <1>12, <1>13, <2>5, <2>6, <2>7, <2>8, <2>9, <2>10 DEF Contents
<1> QED BY <1>2, <1>14, <1>15

\* The version with the memtable's table, under the new log.
LEMMA InstallFits ==
    ASSUME Books, Contents, NEW f \in flush
    PROVE  LET w == WithTables(version, f.level, {f.file})
           IN  /\ Consistent(tables, Logged(logs), history, w, lastSeq, mem, Twins)
               /\ \A c \in comp : CompFits(tables, c, w)
               /\ Older(Stored(tables, w), LogE(mem))
               /\ w \in Versions
<1> DEFINE w == WithTables(version, f.level, {f.file})
           G == Logged(logs)
           E == mems[imm]
<1>1. TypeInv /\ Running /\ Tasks /\ Closed
  BY DEF Books
<1>2. Sequence /\ Memory /\ Tree /\ Flushing /\ Compacting
  BY DEF Contents
<1>3. up = "open" /\ imm # 0
  BY <1>1 DEF Closed, Tasks
<1>4. f.file \in Nat /\ f.level \in Nat /\ f.level \in Levels
  BY <1>1, LevelNumbers DEF TypeInv, FlushRecord
<1>5. version \in Versions
  BY <1>1 DEF TypeInv
<1>7. /\ mem \in DOMAIN logs /\ imm \in DOMAIN logs /\ imm < mem /\ logNumber = imm /\ imm \in DOMAIN mems
      /\ \A n \in DOMAIN logs : n >= imm => n = mem \/ n = imm
  BY <1>1, <1>3, RunningIs
<1>8. /\ mem \in Nat /\ imm \in Nat /\ DOMAIN logs \subseteq Nat /\ history \subseteq Entry /\ lastSeq \in Nat
      /\ E \subseteq Entry
  BY <1>1, <1>7 DEF TypeInv
<1>9. DOMAIN G = DOMAIN logs /\ G[imm] = LogE(imm) /\ G[mem] = LogE(mem)
  BY <1>7, LoggedIs DEF LogE
<1>10. E = LogE(imm) /\ E # {} /\ mems[mem] \cup writing = LogE(mem) /\ Older(Stored(tables, version), LogE(mem))
  BY <1>2, <1>3 DEF Memory
<1>11. /\ tables[f.file] = E
       /\ f.level > 0 => \A i \in Levels : i <= f.level => \A n \in version[i] : Apart(E, tables[n])
       /\ \A n \in Files(version) : n < f.file
  BY <1>2 DEF Flushing
<1>13. Consistent(tables, G, history, version, lastSeq, imm, Twins)
  BY <1>2, <1>3, <1>7 DEF Tree, Fits
<1>15. \A h \in history : h.seq <= lastSeq \/ h \in LogE(mem)
  BY <1>2, <1>3, <1>10 DEF Sequence
<1> HIDE DEF w, G, E
<1>16. WhereNew(tables, version, f.level, f.file, E, Twins)
  <2>1. \A i \in Levels : \A n \in version[i] : Older(tables[n], E) \/ (Twins /\ tables[n] = E)
    <3>1. \A t \in Files(version) : Older(tables[t], G[imm]) \/ (Twins /\ tables[t] = G[imm])
      BY <1>7, <1>8, <1>9, <1>13 DEF Consistent, Follows
    <3> QED BY <1>5, <1>9, <1>10, <3>1, InFiles
  <2>3. \A i \in Levels : \A n \in version[i] : n < f.file
    BY <1>5, <1>11, InFiles
  <2> QED BY <1>11, <2>1, <2>3 DEF WhereNew
<1>17. Consistent(tables, G, history, w, lastSeq, mem, Twins)
  <2>1. imm \in DOMAIN G /\ mem \in DOMAIN G /\ G[imm] = E /\ \A n \in DOMAIN G : n >= imm => n = imm \/ n = mem
    BY <1>7, <1>9, <1>10
  <2>2. \A h \in history : h.seq <= lastSeq \/ h \in G[mem]
    BY <1>9, <1>15
  <2>3. DOMAIN G \subseteq Nat /\ lastSeq <= lastSeq
    BY <1>8, <1>9
  <2> QED BY <1>4, <1>5, <1>7, <1>8, <1>10, <1>11, <1>13, <1>16, <2>1, <2>2, <2>3, ConsistentFlush DEF w
<1>18. Older(E, LogE(mem))
  BY <1>7, <1>8, <1>9, <1>10, <1>13 DEF Consistent, Follows
<1>21. w \in Versions /\ Stored(tables, w) = Stored(tables, version) \cup E
  <2> DEFINE j == f.level
             g == f.file
  <2>1. j \in Levels /\ g \in Nat /\ w = WithTables(version, j, {g})
    BY <1>4 DEF w
  <2> HIDE DEF j, g
  <2>2. w \in Versions /\ Stored(tables, w) = Stored(tables, version) \cup tables[g]
    BY <1>5, <2>1, StoredOne
  <2> QED BY <1>11, <2>2 DEF g
<1>22. Older(Stored(tables, w), LogE(mem))
  BY <1>10, <1>18, <1>21 DEF Older
<1>24. \A c \in comp : CompFits(tables, c, w)
  <2> SUFFICES ASSUME NEW c \in comp PROVE CompFits(tables, c, w)
    OBVIOUS
  <2>1. /\ c \in CompRecord /\ c.level \in Levels /\ c.level + 1 \in Levels
        /\ c.in0 \subseteq version[c.level] /\ c.in1 \subseteq version[c.level + 1]
        /\ \A n \in c.in0 \cup c.in1 : n \in Files(version)
    BY <1>1, CompIs
  <2>2. CompFits(tables, c, version) /\ Connected(tables, c)
    BY <1>2, <1>3 DEF Compacting, CompWork
  <2>3. In(tables, c) \subseteq Entry
    <3>1. \A n \in Files(version) : tables[n] \subseteq Entry
      BY <1>1, <1>3, RunningIs DEF TypeInv
    <3> QED BY <2>1, <3>1, InIs
  <2>4. \A n \in version[0] : n < f.file
    BY <1>5, <1>11, InFiles, LevelNumbers
  <2>5. f.level > c.level => \A n \in c.in0 \cup c.in1 : Apart(tables[f.file], tables[n])
    <3> SUFFICES ASSUME f.level > c.level, NEW n \in c.in0 \cup c.in1 PROVE Apart(E, tables[n])
      BY <1>11
    <3>1. c.level \in Nat
      BY <2>1, LevelOf
    <3>2. c.level <= f.level /\ c.level + 1 <= f.level /\ f.level > 0
      BY <1>4, <3>1
    <3> QED BY <1>11, <2>1, <3>2
  <2> QED BY <1>4, <1>5, <1>8, <1>11, <2>1, <2>2, <2>3, <2>4, <2>5, FitsMore DEF w
<1> QED BY <1>17, <1>21, <1>22, <1>24 DEF w, G

\* A version under its logs, while files that nobody needs go.
LEMMA CollectFits ==
    ASSUME TypeInv, TypeInv', NEW v \in Versions, NEW last \in Nat, NEW ln \in Nat,
           Consistent(tables, Logged(logs), history, v, last, ln, Twins),
           UNCHANGED <<history, faults>>, LogsStay(ln), TablesStay(Files(v))
    PROVE  Consistent(tables', Logged(logs'), history', v, last, ln, Twins')
<1>1. faults' \in Nat /\ faults <= faults' /\ last <= last /\ DOMAIN logs' \subseteq Nat
  <2>1. faults' \in Nat /\ DOMAIN logs' \subseteq Nat
    BY DEF TypeInv
  <2>2. faults' = faults /\ last \in Nat
    OBVIOUS
  <2> QED BY <2>1, <2>2
<1>2. Fits(v, last, ln) /\ \A n \in Files(v) : tables'[n] = tables[n]
  BY DEF Fits, TablesStay
<1> QED BY <1>1, <1>2, FitsStay

\* A flush installed, and the files nobody needs deleted.
LEMMA FlushInstallContents == ASSUME Books, Books', Contents, FlushInstall PROVE Contents'
<1>1. /\ Collect(version', mem, comp)
      /\ logNumber' = mem /\ imm' = 0 /\ flush' = {} /\ mems' = Pinned({mem}, views)
      /\ UNCHANGED <<current, up, mem, manifestFile, nextFile, lastSeq, recovered, writing, comp,
                     views, bgError, history, crashes, faults>>
  BY DEF FlushInstall
<1>2. PICK f \in flush : f.logged /\ version' = Edited(version, FlushEdit(f))
  BY DEF FlushInstall
<1>4. TypeInv /\ TypeInv' /\ Running /\ Running' /\ Readers /\ Readers' /\ Tasks /\ Tasks' /\ Closed
  BY OpenParts
<1>5. Disk /\ Sequence /\ Memory /\ Tree /\ Stale /\ Flushing /\ Compacting /\ Viewing
  BY OpenParts
<1> DEFINE w == WithTables(version, f.level, {f.file})
<1>6. up = "open" /\ imm # 0 /\ up' = "open"
  BY <1>1, <1>4 DEF Closed, Tasks
<1>7. version' = w
  BY <1>2, <1>4, EditedFlush DEF TypeInv
<1>8. /\ Consistent(tables, Logged(logs), history, w, lastSeq, mem, Twins)
      /\ \A c \in comp : CompFits(tables, c, w)
      /\ Older(Stored(tables, w), LogE(mem))
      /\ w \in Versions
  BY InstallFits
<1> HIDE DEF w
<1>9. /\ current = manifestFile /\ Cur.log = mem /\ mem \in DOMAIN mems /\ mem \in DOMAIN logs
  BY <1>2, <1>4, <1>6, RunningIs
<1>10. /\ \A n \in DOMAIN tables' : tables'[n] = tables[n]
       /\ \A n \in DOMAIN logs' : logs'[n] = logs[n]
       /\ DOMAIN logs' \subseteq DOMAIN logs
       /\ \A n \in DOMAIN logs : n >= mem => n \in DOMAIN logs'
       /\ manifests'[current] = Cur
  BY <1>1, <1>4, <1>9, CollectIs
<1>11. Cur' = Cur
  BY <1>1, <1>10 DEF Cur
<1>12. LogsStay(mem)
  BY <1>10 DEF LogsStay
<1>13. Files(version') \subseteq DOMAIN tables' /\ Files(Cur.version) \subseteq DOMAIN tables'
  <2>1. ManifestBooks(Cur', current', DOMAIN tables')
    BY DEF Books
  <2>2. Files(version') \subseteq DOMAIN tables'
    BY <1>4, <1>6 DEF Running
  <2> QED BY <1>11, <2>1, <2>2 DEF ManifestBooks
<1>14. TablesStay(Files(w)) /\ TablesStay(Files(Cur.version))
  BY <1>7, <1>10, <1>13 DEF TablesStay
<1>15. lastSeq \in Nat /\ mem \in Nat /\ faults' \in Nat /\ faults <= faults' /\ Cur.version \in Versions
       /\ Cur.last \in Nat /\ DOMAIN logs' \subseteq Nat
  BY <1>1, <1>4, CurIs DEF TypeInv
<1>16. Disk'
  BY <1>1, <1>4, <1>5, <1>6, <1>9, <1>11, <1>12, <1>14, <1>15, DiskStays
<1>17. Tree'
  <2>1. Consistent(tables', Logged(logs'), history', w, lastSeq, mem, Twins')
    BY <1>1, <1>4, <1>8, <1>12, <1>14, <1>15, CollectFits
  <2>2. Consistent(tables', Logged(logs'), history', Cur.version, lastSeq, mem, Twins')
    <3>1. Fits(Cur.version, Cur.last, mem) /\ Cur.last <= lastSeq
      BY <1>5, <1>6, <1>9 DEF Disk, Sequence
    <3>2. \A n \in Files(Cur.version) : tables'[n] = tables[n]
      BY <1>14 DEF TablesStay
    <3> QED BY <1>1, <1>4, <1>12, <1>15, <3>1, <3>2, FitsStay
  <2> QED BY <1>1, <1>7, <1>11, <2>1, <2>2 DEF Tree, Fits
<1>18. Sequence' /\ Recovering'
  BY <1>1, <1>5, <1>6, <1>11, <1>15, SequenceStays DEF Recovering
<1>19. Stale' /\ Flushing'
  BY <1>1 DEF Stale, Flushing
<1>20. mems'[mem] = mems[mem] /\ \A x \in views', n \in DOMAIN mems : n \in {x.mem, x.imm} => mems'[n] = mems[n]
  <2>1. mem \in DOMAIN mems \cap {mem}
    BY <1>9
  <2>2. mems' = Pinned({mem}, views)
    BY <1>1
  <2>3. /\ \A n \in DOMAIN mems' : mems'[n] = mems[n]
        /\ \A n \in DOMAIN mems \cap {mem} : n \in DOMAIN mems'
        /\ \A x \in views, n \in DOMAIN mems : n \in {x.mem, x.imm} => n \in DOMAIN mems'
    BY <1>4, <2>2, PinnedIs
  <2> QED BY <1>1, <2>1, <2>3
<1>21. Memory'
  <2>1. LogE(mem)' = LogE(mem)
    BY <1>1, <1>9, <1>10, <1>15 DEF LogE
  <2>2. Stored(tables', w) = Stored(tables, w) /\ Stored(tables', Cur.version) = Stored(tables, Cur.version)
    BY <1>14, SameStored DEF TablesStay
  <2>3. mems[mem] \cup writing = LogE(mem) /\ Older(Stored(tables, Cur.version), LogE(mem))
    BY <1>5, <1>6 DEF Memory
  <2> QED BY <1>1, <1>7, <1>8, <1>11, <1>20, <2>1, <2>2, <2>3 DEF Memory
<1>22. Compacting'
  <2> SUFFICES ASSUME NEW c \in comp
               PROVE  /\ CompWork(tables', c) /\ CompFits(tables', c, w)
                      /\ ~c.logged => CompFits(tables', c, Cur.version)
    BY <1>1, <1>7, <1>11 DEF Compacting
  <2>1. c \in CompRecord /\ c.level \in Levels /\ c.level + 1 \in Levels
        /\ \A n \in c.in0 \cup c.in1 : n \in Files(c.version)
    BY <1>4, CompIs
  <2>2. Files(c.version) \subseteq DOMAIN tables' /\ c.outs \subseteq DOMAIN tables'
    BY <1>1, <1>4 DEF Tasks, CompBooks
  <2>3. CompWork(tables, c) /\ CompFits(tables, c, w) /\ (~c.logged => CompFits(tables, c, Cur.version))
    BY <1>5, <1>8 DEF Compacting
  <2>4. CompWork(tables', c)
    BY <1>10, <2>1, <2>2, <2>3, SameWork
  <2>5. CompFits(tables', c, w)
    BY <1>8, <1>14, <2>1, <2>3, SameFits DEF TablesStay
  <2>6. ~c.logged => CompFits(tables', c, Cur.version)
    BY <1>14, <1>15, <2>1, <2>3, SameFits DEF TablesStay
  <2> QED BY <2>4, <2>5, <2>6
<1>23. Viewing'
  <2>1. \A x \in views' : \A n \in Files(x.version) : tables'[n] = tables[n]
    BY <1>4, <1>10 DEF Readers, ViewBooks
  <2>2. \A x \in views' : mems'[x.mem] = mems[x.mem] /\ (x.imm # 0 => mems'[x.imm] = mems[x.imm])
    BY <1>1, <1>4, <1>20, ViewIs
  <2> QED BY <1>1, <1>4, <1>5, <1>15, <2>1, <2>2, ViewingStays
<1> QED BY <1>16, <1>17, <1>18, <1>19, <1>21, <1>22, <1>23 DEF Contents

-----------------------------------------------------------------------------
(* Compactions keep it *)

\* A compaction picked.
LEMMA CompactStartContents ==
    ASSUME Books, Books', Contents, NEW l \in Levels, NEW n \in version[l], CompactStart(l, n)
    PROVE  Contents'
<1>1. /\ up = "open" /\ comp = {} /\ flush = {} /\ imm = 0 /\ ~bgError /\ l + 1 \in Levels
      /\ UNCHANGED <<disk, up, mems, mem, imm, books, nextFile, lastSeq, recovered, writing, flush,
                     views, bgError, history, crashes, faults>>
  BY DEF CompactStart
<1>2. PICK in \in Inputs(l, n) : \E move \in Moves(l, in) :
       comp' = {[level |-> l, in0 |-> in[1], in1 |-> in[2], version |-> version, move |-> move,
                 smallest_snapshot |-> lastSeq,
                 rest |-> IF move THEN {} ELSE Content(in[1] \cup in[2]),
                 outs |-> {}, logged |-> FALSE]}
  BY DEF CompactStart
<1>3. PICK move \in Moves(l, in) :
       comp' = {[level |-> l, in0 |-> in[1], in1 |-> in[2], version |-> version, move |-> move,
                 smallest_snapshot |-> lastSeq,
                 rest |-> IF move THEN {} ELSE Content(in[1] \cup in[2]),
                 outs |-> {}, logged |-> FALSE]}
  BY <1>2
<1> DEFINE c == [level |-> l, in0 |-> in[1], in1 |-> in[2], version |-> version, move |-> move,
                 smallest_snapshot |-> lastSeq,
                 rest |-> IF move THEN {} ELSE Content(in[1] \cup in[2]),
                 outs |-> {}, logged |-> FALSE]
<1>4. /\ comp' = {c} /\ c.level = l /\ c.in0 = in[1] /\ c.in1 = in[2] /\ c.version = version /\ c.move = move
      /\ c.smallest_snapshot = lastSeq /\ c.rest = (IF move THEN {} ELSE Content(in[1] \cup in[2])) /\ c.outs = {}
  BY <1>3
<1> HIDE DEF c
<1>5. UNCHANGED <<logs, tables, manifests, current, logNumber, version, manifestFile>>
  BY <1>1 DEF disk, books
<1>6. TypeInv /\ TypeInv' /\ Running /\ Readers /\ Tasks /\ Tasks'
  BY OpenParts
<1>7. Disk /\ Sequence /\ Memory /\ Tree /\ Stale /\ Flushing /\ Compacting /\ Viewing
  BY OpenParts
<1>8. Cur' = Cur
  BY <1>5 DEF Cur
<1>9. (\A N : TablesStay(N)) /\ \A i : LogsStay(i)
  BY <1>5 DEF TablesStay, LogsStay
<1>10. faults <= faults' /\ lastSeq <= lastSeq' /\ faults' \in Nat /\ lastSeq \in Nat /\ version \in Versions
  BY <1>1, <1>6 DEF TypeInv
<1>11. Disk'
  BY <1>1, <1>6, <1>7, <1>8, <1>9, <1>10, DiskStays
<1>12. Tree'
  BY <1>1, <1>5, <1>6, <1>7, <1>8, <1>9, <1>10, TreeStays
<1>13. Sequence' /\ Recovering'
  BY <1>1, <1>7, <1>8, <1>10, SequenceStays DEF Recovering
<1>14. Stale' /\ Flushing'
  BY <1>1 DEF Stale, Flushing
<1>15. Memory'
  BY <1>1, <1>5, <1>6, <1>7, <1>8, <1>9, MemoryStays
<1>16. Viewing'
  BY <1>1, <1>5, <1>6, <1>7, <1>10, ViewingStays
<1>17. Fits(version, lastSeq, logNumber) /\ Cur.version = version
  BY <1>1, <1>7, CurFits DEF Tree
<1>18. /\ Good(tables, version, Twins) /\ (\A m \in Files(version) : tables[m] # {})
       /\ \A e \in Stored(tables, version) : e.seq <= lastSeq
  BY <1>17 DEF Fits, Consistent, Inside
<1>19. c \in CompRecord /\ Files(version) \subseteq DOMAIN tables
  BY <1>1, <1>4, <1>6, RunningIs DEF TypeInv
<1>20. Connected(tables, c) /\ CompFits(tables, c, version)
  BY <1>1, <1>4, <1>6, <1>18, <1>19, StartFits
<1>21. \A m \in in[1] \cup in[2] : m \in Files(version)
  <2>1. in[1] \subseteq version[l] /\ in[2] \subseteq version[l + 1]
    BY LevelOf, InputsAre
  <2> QED BY <1>1, <1>10, <2>1, InFiles
<1>22. CompWork(tables, c)
  <2>1. in[1] \cup in[2] \subseteq DOMAIN tables
    BY <1>19, <1>21
  <2>2. Content(in[1] \cup in[2]) = Holds(tables, in[1] \cup in[2])
    BY <1>6, <2>1, FileIs
  <2>3. In(tables, c) = Content(in[1] \cup in[2])
    BY <1>4, <2>2 DEF In
  <2>4. move \in BOOLEAN
    BY DEF Moves
  <2>5. (c.rest = {} /\ c.move) \/ c.rest = In(tables, c)
    BY <1>4, <2>3, <2>4
  <2>6. \A e \in In(tables, c) : e.seq <= c.smallest_snapshot
    <3>1. \A e \in In(tables, c) : \E m \in c.in0 \cup c.in1 : e \in tables[m]
      BY InIs
    <3>2. \A m \in Files(version) : tables[m] \subseteq Stored(tables, version)
      BY StoredIs
    <3> QED BY <1>4, <1>18, <1>21, <3>1, <3>2
  <2> QED BY <1>4, <1>19, <1>20, <2>5, <2>6, WorkStarts
<1>23. Compacting'
  BY <1>4, <1>5, <1>8, <1>17, <1>20, <1>22 DEF Compacting
<1> QED BY <1>11, <1>12, <1>13, <1>14, <1>15, <1>16, <1>23 DEF Contents

\* Whether a compaction fits does not depend on how far it is.
LEMMA SameInputsFit ==
    ASSUME NEW T, NEW c, NEW d, NEW v, SameInputs(c, d), CompFits(T, c, v)
    PROVE  CompFits(T, d, v)
<1>1. In(T, d) = In(T, c)
  BY DEF SameInputs, In
<1> QED BY <1>1 DEF SameInputs, CompFits

\* One more output of a compaction.
LEMMA CompactOutputContents == ASSUME Books, Books', Contents, CompactOutput PROVE Contents'
<1>1. /\ flush = {}
      /\ UNCHANGED <<logs, manifests, current, up, mems, mem, imm, logNumber, version, manifestFile, lastSeq,
                     recovered, writing, flush, views, bgError, history, crashes, faults>>
  BY DEF CompactOutput, books
<1>2. PICK c \in comp : \E e \in c.rest :
       LET read == {f \in c.rest : f = e \/ Before(f, e)}
           kept == {f \in read : ~Drop(c, f)}
       IN  IF kept = {}
              THEN /\ comp' = {[c EXCEPT !.rest = @ \ read]}
                   /\ UNCHANGED <<tables, nextFile>>
              ELSE /\ comp' = {[c EXCEPT !.rest = @ \ read, !.outs = @ \cup {nextFile}]}
                   /\ tables' = Created(tables, nextFile, kept)
                   /\ nextFile' = nextFile + 1
  BY DEF CompactOutput
<1>3. PICK e \in c.rest :
       LET read == {f \in c.rest : f = e \/ Before(f, e)}
           kept == {f \in read : ~Drop(c, f)}
       IN  IF kept = {}
              THEN /\ comp' = {[c EXCEPT !.rest = @ \ read]}
                   /\ UNCHANGED <<tables, nextFile>>
              ELSE /\ comp' = {[c EXCEPT !.rest = @ \ read, !.outs = @ \cup {nextFile}]}
                   /\ tables' = Created(tables, nextFile, kept)
                   /\ nextFile' = nextFile + 1
  BY <1>2
<1> DEFINE read == {f \in c.rest : f = e \/ Before(f, e)}
           kept == {f \in read : ~Drop(c, f)}
           d == IF kept = {} THEN [c EXCEPT !.rest = @ \ read]
                ELSE [c EXCEPT !.rest = @ \ read, !.outs = @ \cup {nextFile}]
<1>4. IF kept = {} THEN comp' = {d} /\ UNCHANGED <<tables, nextFile>>
      ELSE comp' = {d} /\ tables' = Created(tables, nextFile, kept) /\ nextFile' = nextFile + 1
  BY <1>3
<1>5. /\ \A f : f \in read <=> f \in c.rest /\ (f = e \/ Before(f, e))
      /\ \A f : f \in kept <=> f \in read /\ ~Drop(c, f)
  OBVIOUS
<1>6. TypeInv /\ TypeInv' /\ Running /\ Readers /\ Tasks /\ Closed
  BY OpenParts
<1>7. Disk /\ Sequence /\ Memory /\ Tree /\ Stale /\ Flushing /\ Compacting /\ Viewing
  BY OpenParts
<1> HIDE DEF read, kept
<1>8. /\ c \in CompRecord /\ c.version \in Versions /\ c.level \in Levels /\ c.level + 1 \in Levels
      /\ \A n \in c.in0 \cup c.in1 : n \in Files(version) /\ n \in Files(c.version)
      /\ Files(c.version) \subseteq DOMAIN tables /\ c.outs \subseteq DOMAIN tables
  BY <1>6, CompIs
<1>9. /\ SameInputs(c, d) /\ d.rest = c.rest \ read /\ d.logged = c.logged
      /\ d.outs = IF kept = {} THEN c.outs ELSE c.outs \cup {nextFile}
  BY <1>8 DEF CompRecord, SameInputs
<1> HIDE DEF d
<1>10. up = "open" /\ ~c.move
  BY <1>6 DEF Closed, Tasks, CompBooks
<1>11. (\A n \in DOMAIN tables : tables'[n] = tables[n]) /\ (kept # {} => tables'[nextFile] = kept)
  <2>1. CASE kept = {}
    BY <1>4, <2>1
  <2>2. CASE kept # {}
    <3>1. \A n \in DOMAIN tables : n < nextFile
      BY <1>6, <1>10, RunningIs
    <3>2. DOMAIN tables \subseteq Nat /\ nextFile \in Nat
      BY <1>6 DEF TypeInv
    <3>3. \A n \in DOMAIN tables : n # nextFile
      BY <3>1, <3>2
    <3>4. tables' = Created(tables, nextFile, kept)
      BY <1>4, <2>2
    <3> QED BY <3>3, <3>4 DEF Created
  <2> QED BY <2>1, <2>2
<1>12. Files(version) \subseteq DOMAIN tables /\ Files(Cur.version) \subseteq DOMAIN tables
       /\ version \in Versions /\ Cur.version \in Versions
  BY <1>6, <1>10, RunningIs, CurIs DEF Books, ManifestBooks, TypeInv
<1>13. TablesStay(Files(version)) /\ TablesStay(Files(Cur.version)) /\ \A i : LogsStay(i)
  BY <1>1, <1>11, <1>12 DEF TablesStay, LogsStay
<1>14. Cur' = Cur
  BY <1>1 DEF Cur
<1>15. faults <= faults' /\ lastSeq <= lastSeq' /\ faults' \in Nat /\ lastSeq \in Nat
  BY <1>1, <1>6 DEF TypeInv
<1>16. Disk'
  BY <1>1, <1>6, <1>7, <1>10, <1>13, <1>14, <1>15, DiskStays
<1>17. Tree'
  BY <1>1, <1>6, <1>7, <1>10, <1>13, <1>14, <1>15, TreeStays
<1>18. Sequence' /\ Recovering'
  BY <1>1, <1>7, <1>10, <1>14, <1>15, SequenceStays DEF Recovering
<1>19. Stale'
  BY <1>1, <1>6, <1>7, <1>10, <1>13, <1>14, StaleStays
<1>20. Flushing'
  BY <1>1 DEF Flushing
<1>21. Memory'
  BY <1>1, <1>6, <1>7, <1>10, <1>13, <1>14, MemoryStays
<1>22. Viewing'
  <2>1. \A x \in views' : \A n \in Files(x.version) : tables'[n] = tables[n]
    BY <1>1, <1>6, <1>11, ViewIs
  <2> QED BY <1>1, <1>6, <1>7, <1>15, <2>1, ViewingStays
<1>23. CompWork(tables, c) /\ CompFits(tables, c, version) /\ (~c.logged => CompFits(tables, c, Cur.version))
  BY <1>7 DEF Compacting
<1>24. CompWork(tables', d)
  <2>1. Fits(version, lastSeq, logNumber) /\ Distinct(history)
    BY <1>7, <1>10 DEF Tree, Disk
  <2>2. In(tables, c) \subseteq history
    <3>1. \A x \in In(tables, c) : \E n \in c.in0 \cup c.in1 : x \in tables[n]
      BY InIs
    <3>2. \A n \in Files(version) : tables[n] \subseteq Stored(tables, version)
      BY StoredIs
    <3>3. Stored(tables, version) \subseteq history
      BY <2>1 DEF Fits, Consistent, Inside
    <3> QED BY <1>8, <3>1, <3>2, <3>3
  <2>3. In(tables, c) \subseteq Entry /\ Distinct(In(tables, c))
    <3>1. history \subseteq Entry
      BY <1>6 DEF TypeInv
    <3> QED BY <2>1, <2>2, <3>1 DEF Distinct
  <2>4. \A f : Drop(c, f) <=> DropIn(tables, c, f)
    <3>1. c.in0 \cup c.in1 \subseteq DOMAIN tables
      BY <1>8
    <3> QED BY <1>6, <1>8, <3>1, DropIs
  <2>5. \A f : f \in kept <=> f \in read /\ ~DropIn(tables, c, f)
    BY <1>5, <2>4
  <2>6. \A f : f \in read <=> f \in c.rest /\ (f = e \/ Before(f, e))
    BY <1>5
  <2>7. \/ kept = {} /\ d.outs = c.outs
        \/ kept # {} /\ d.outs = c.outs \cup {nextFile} /\ tables'[nextFile] = kept
    BY <1>9, <1>11
  <2>8. \A n \in Files(c.version) \cup c.in0 \cup c.in1 \cup c.outs : tables'[n] = tables[n]
    BY <1>8, <1>11
  <2>9. e \in c.rest /\ d.rest = c.rest \ read /\ SameInputs(c, d)
    BY <1>9
  <2>10. ReadUpTo(tables, tables', c, d, e, read, kept, nextFile)
    BY <2>5, <2>6, <2>7, <2>8, <2>9 DEF ReadUpTo
  <2> QED BY <1>8, <1>10, <1>23, <2>3, <2>10, WorkGoesOn
<1>25. CompFits(tables', d, version)
  <2>1. CompFits(tables', c, version)
    BY <1>8, <1>12, <1>13, <1>23, SameFits DEF TablesStay
  <2> QED BY <1>9, <2>1, SameInputsFit
<1>26. ~d.logged => CompFits(tables', d, Cur.version)
  <2>1. ~c.logged => CompFits(tables', c, Cur.version)
    BY <1>8, <1>12, <1>13, <1>23, SameFits DEF TablesStay
  <2> QED BY <1>9, <2>1, SameInputsFit
<1>27. Compacting'
  <2>1. comp' = {d}
    BY <1>4
  <2> QED BY <1>1, <1>14, <1>24, <1>25, <1>26, <2>1 DEF Compacting
<1> QED BY <1>16, <1>17, <1>18, <1>19, <1>20, <1>21, <1>22, <1>27 DEF Contents

\* Nor does its work depend on the record.
LEMMA SameWorkDone ==
    ASSUME NEW T, NEW c \in CompRecord, NEW d, SameInputs(c, d), d.rest = c.rest, d.outs = c.outs, CompWork(T, c)
    PROVE  CompWork(T, d)
<1>1. c.version \in Versions
  BY DEF CompRecord
<1>2. In(T, d) = In(T, c) /\ (\A e : DropIn(T, d, e) <=> DropIn(T, c, e)) /\ (Connected(T, c) => Connected(T, d))
  BY <1>1, SameIn
<1> QED BY <1>2 DEF CompWork, SameInputs

\* The outputs in place of the inputs, under the logs in use.
LEMMA CompactFits ==
    ASSUME Books, Contents, NEW c \in comp, c.rest = {}, NEW v \in Versions,
           CompFits(tables, c, v), Fits(v, lastSeq, logNumber)
    PROVE  /\ Fits(WithOutputs(v, c), lastSeq, logNumber)
           /\ WithOutputs(v, c) \in Versions
           /\ Stored(tables, WithOutputs(v, c)) \subseteq Stored(tables, v)
<1>1. TypeInv /\ Running /\ Tasks /\ Closed
  BY DEF Books
<1>2. Memory /\ Tree /\ Compacting
  BY DEF Contents
<1>3. up = "open" /\ CompBooks(c, version, DOMAIN tables)
  BY <1>1 DEF Closed, Tasks
<1>4. /\ c \in CompRecord /\ c.level \in Levels /\ c.level + 1 \in Levels
      /\ \A n \in c.in0 \cup c.in1 : n \in Files(version)
  BY <1>1, CompIs
<1>5. Files(version) \subseteq DOMAIN tables /\ Fits(version, lastSeq, logNumber) /\ version \in Versions
  BY <1>1, <1>2, <1>3, RunningIs DEF Tree, TypeInv
<1>6. In(tables, c) \subseteq Stored(tables, version) /\ \A n \in c.in0 : tables[n] # {}
  <2>1. \A x \in In(tables, c) : \E n \in c.in0 \cup c.in1 : x \in tables[n]
    BY InIs
  <2>2. \A n \in Files(version) : tables[n] \subseteq Stored(tables, version)
    BY StoredIs
  <2>3. \A n \in Files(version) : tables[n] # {}
    BY <1>5 DEF Fits, Consistent, Inside
  <2> QED BY <1>4, <2>1, <2>2, <2>3
<1>7. In(tables, c) \subseteq Entry
  <2>1. Stored(tables, version) \subseteq history
    BY <1>5 DEF Fits, Consistent, Inside
  <2>2. history \subseteq Entry
    BY <1>1 DEF TypeInv
  <2> QED BY <1>6, <2>1, <2>2
<1>8. Telling(tables, c, Outs(c))
  <2>1. CompWork(tables, c)
    BY <1>2 DEF Compacting
  <2>2. c.move => c.outs = {} /\ c.in1 = {} /\ \E n : c.in0 = {n}
    BY <1>3 DEF CompBooks
  <2> QED BY <1>4, <1>6, <1>7, <2>1, <2>2, WorkTells
<1> DEFINE G == Logged(logs)
<1>9. DOMAIN G = DOMAIN logs /\ \A n \in DOMAIN logs : G[n] = LogE(n)
  BY LoggedIs DEF LogE
<1> HIDE DEF G
<1>10. \A a \in DOMAIN G : a >= logNumber => Older(In(tables, c), G[a])
  <2> SUFFICES ASSUME NEW a \in DOMAIN logs, a >= logNumber PROVE Older(In(tables, c), LogE(a))
    BY <1>9
  <2>1. a = mem \/ (a = imm /\ imm # 0)
    <3>1. a = mem \/ a = imm
      BY <1>1, <1>3, RunningIs
    <3>2. logNumber = (IF imm = 0 THEN mem ELSE imm) /\ 0 < mem
      BY <1>1, <1>3, RunningIs
    <3>3. mem \in Nat /\ imm \in Nat /\ a \in Nat
      BY <1>1 DEF TypeInv
    <3> QED BY <3>1, <3>2, <3>3
  <2>2. Older(Stored(tables, version), LogE(a))
    BY <1>2, <1>3, <2>1 DEF Memory
  <2> QED BY <1>6, <2>2 DEF Older
<1>11. DOMAIN G \subseteq Nat /\ history \subseteq Entry /\ lastSeq \in Nat /\ logNumber \in Nat /\ lastSeq <= lastSeq
  <2>1. DOMAIN logs \subseteq Nat /\ history \subseteq Entry /\ lastSeq \in Nat /\ logNumber \in Nat
    BY <1>1 DEF TypeInv
  <2> QED BY <1>9, <2>1
<1>12. Consistent(tables, G, history, v, lastSeq, logNumber, Twins)
  BY DEF Fits, G
<1>13. Consistent(tables, G, history, WithOutputs(v, c), lastSeq, logNumber, Twins)
  BY <1>4, <1>8, <1>10, <1>11, <1>12, ConsistentOutputs
<1>14. WithOutputs(v, c) \in Versions /\ Stored(tables, WithOutputs(v, c)) \subseteq Stored(tables, v)
  BY <1>4, <1>8, StoredOutputs
<1> QED BY <1>13, <1>14 DEF Fits, G

\* The record of a compaction.
LEMMA CompactLogContents == ASSUME Books, Books', Contents, CompactLog PROVE Contents'
<1>1. /\ flush = {}
      /\ UNCHANGED <<logs, tables, current, up, mems, mem, imm, books, nextFile, lastSeq, recovered,
                     writing, flush, views, bgError, history, crashes, faults>>
  BY DEF CompactLog
<1>2. PICK c \in comp : /\ c.rest = {} /\ ~c.logged /\ comp' = {[c EXCEPT !.logged = TRUE]}
                        /\ Record(CompactEdit(c))
  BY DEF CompactLog
<1>3. UNCHANGED <<logNumber, version, manifestFile>>
  BY <1>1 DEF books
<1>4. TypeInv /\ TypeInv' /\ Running /\ Readers /\ Tasks /\ Closed
  BY OpenParts
<1>5. Disk /\ Sequence /\ Memory /\ Tree /\ Stale /\ Flushing /\ Compacting /\ Viewing
  BY OpenParts
<1>6. up = "open" /\ c \in CompRecord /\ comp = {c}
  BY <1>4 DEF Closed, TypeInv, Tasks
<1> DEFINE V == WithOutputs(Cur.version, c)
           d == [c EXCEPT !.logged = TRUE]
<1>7. Cur' = [log |-> logNumber, next |-> nextFile, last |-> lastSeq, version |-> V]
  BY <1>1, <1>2, <1>6, CompactionRecorded
<1>8. Cur'.log = logNumber /\ Cur'.last = lastSeq /\ Cur'.version = V
  BY <1>7
<1>9. Fits(Cur.version, lastSeq, logNumber) /\ Cur.version \in Versions
  <2>1. (\A f \in flush : ~f.logged) /\ \A x \in comp : ~x.logged
    BY <1>1, <1>2, <1>6
  <2> QED BY <1>4, <1>6, <2>1, CurFits, CurIs
<1>10. CompWork(tables, c) /\ CompFits(tables, c, version) /\ CompFits(tables, c, Cur.version)
  BY <1>2, <1>5 DEF Compacting
<1>11. Fits(V, lastSeq, logNumber) /\ Stored(tables, V) \subseteq Stored(tables, Cur.version)
  BY <1>2, <1>9, <1>10, CompactFits
<1>12. SameInputs(c, d) /\ d.rest = c.rest /\ d.outs = c.outs /\ d.logged /\ comp' = {d}
  BY <1>2, <1>6 DEF CompRecord, SameInputs
<1> HIDE DEF V, d
<1>13. Twins' = Twins /\ lastSeq \in Nat /\ faults <= faults' /\ faults' \in Nat
  BY <1>1, <1>4 DEF TypeInv, Twins
<1>14. Disk'
  BY <1>1, <1>3, <1>5, <1>6, <1>8, <1>11, <1>13 DEF Disk, Fits
<1>15. Tree'
  BY <1>1, <1>3, <1>5, <1>6, <1>8, <1>11, <1>13 DEF Tree, Fits
<1>16. Sequence' /\ Recovering'
  BY <1>1, <1>5, <1>6, <1>8, <1>13, SequenceStays DEF Recovering
<1>17. Stale' /\ Flushing'
  BY <1>1, <1>2, <1>12 DEF Stale, Flushing
<1>18. Compacting'
  <2>1. CompWork(tables, d)
    BY <1>6, <1>10, <1>12, SameWorkDone
  <2>2. CompFits(tables, d, version)
    BY <1>10, <1>12, SameInputsFit
  <2> QED BY <1>1, <1>3, <1>12, <2>1, <2>2 DEF Compacting
<1>19. Memory'
  <2>1. LogE(mem)' = LogE(mem) /\ LogE(imm)' = LogE(imm)
    BY <1>1 DEF LogE
  <2>2. Older(Stored(tables, V), LogE(mem))
    BY <1>5, <1>6, <1>11 DEF Memory, Older
  <2> QED BY <1>1, <1>3, <1>5, <1>6, <1>8, <2>1, <2>2 DEF Memory
<1>20. Viewing'
  BY <1>1, <1>4, <1>5, <1>13, ViewingStays
<1> QED BY <1>14, <1>15, <1>16, <1>17, <1>18, <1>19, <1>20 DEF Contents

\* A compaction installed, and its inputs deleted unless somebody reads them.
LEMMA CompactInstallContents == ASSUME Books, Books', Contents, CompactInstall PROVE Contents'
<1>1. /\ comp' = {}
      /\ UNCHANGED <<current, up, mems, mem, imm, logNumber, manifestFile, nextFile, lastSeq, recovered,
                     writing, flush, views, bgError, history, crashes, faults>>
  BY DEF CompactInstall
<1>2. PICK c \in comp : /\ c.logged /\ version' = Edited(version, CompactEdit(c))
                        /\ IF c.move THEN UNCHANGED <<logs, tables, manifests>>
                           ELSE Collect(version', logNumber, {})
  BY DEF CompactInstall
<1>4. TypeInv /\ TypeInv' /\ Running /\ Running' /\ Readers /\ Readers' /\ Tasks /\ Tasks' /\ Closed
  BY OpenParts
<1>5. Disk /\ Sequence /\ Memory /\ Tree /\ Stale /\ Flushing /\ Compacting /\ Viewing
  BY OpenParts
<1>6. up = "open" /\ up' = "open" /\ c \in CompRecord /\ c.rest = {} /\ flush = {}
  <2>1. comp # {} /\ CompBooks(c, version, DOMAIN tables)
    BY <1>2, <1>4 DEF Tasks
  <2>2. c.rest = {}
    BY <1>2, <2>1 DEF CompBooks
  <2>3. flush = {}
    BY <1>4, <2>2 DEF Tasks
  <2> QED BY <1>1, <1>4, <2>1, <2>2, <2>3 DEF Closed, TypeInv
<1> DEFINE w == WithOutputs(version, c)
<1>7. version' = w
  BY <1>2, <1>4, <1>6, EditedCompaction DEF TypeInv
<1>8. /\ Fits(w, lastSeq, logNumber) /\ w \in Versions
      /\ Stored(tables, w) \subseteq Stored(tables, version)
  <2>1. CompFits(tables, c, version) /\ Fits(version, lastSeq, logNumber) /\ version \in Versions
    BY <1>4, <1>5, <1>6 DEF Compacting, Tree, TypeInv
  <2> QED BY <1>6, <2>1, CompactFits
<1> HIDE DEF w
<1>9. /\ current = manifestFile /\ mem \in DOMAIN mems /\ mem \in DOMAIN logs
      /\ mem >= logNumber /\ (imm # 0 => imm >= logNumber /\ imm \in DOMAIN logs)
      /\ (Cur.log = logNumber \/ Cur.log = mem)
  <2>1. /\ current = manifestFile /\ mem \in DOMAIN mems /\ mem \in DOMAIN logs
        /\ logNumber = (IF imm = 0 THEN mem ELSE imm) /\ (imm # 0 => imm < mem /\ imm \in DOMAIN logs)
        /\ (Cur.log = logNumber \/ Cur.log = mem)
    BY <1>4, <1>6, RunningIs
  <2>2. mem \in Nat /\ imm \in Nat
    BY <1>4 DEF TypeInv
  <2> QED BY <2>1, <2>2
<1>10. /\ \A n \in DOMAIN tables' : tables'[n] = tables[n]
       /\ \A n \in DOMAIN logs' : logs'[n] = logs[n]
       /\ DOMAIN logs' \subseteq DOMAIN logs
       /\ \A n \in DOMAIN logs : n >= logNumber => n \in DOMAIN logs'
       /\ manifests'[current] = Cur
  <2>1. c.move => UNCHANGED <<logs, tables, manifests>>
    BY <1>2
  <2>2. ~c.move => Collect(version', logNumber, {})
    BY <1>2
  <2>3. CASE c.move
    BY <2>1, <2>3 DEF Cur
  <2>4. CASE ~c.move
    BY <1>4, <1>9, <2>2, <2>4, CollectIs
  <2> QED BY <2>3, <2>4
<1>11. Cur' = Cur
  BY <1>1, <1>10 DEF Cur
<1>12. LogsStay(logNumber)
  BY <1>10 DEF LogsStay
<1>13. Files(version') \subseteq DOMAIN tables' /\ Files(Cur.version) \subseteq DOMAIN tables'
  <2>1. ManifestBooks(Cur', current', DOMAIN tables')
    BY DEF Books
  <2>2. Files(version') \subseteq DOMAIN tables'
    BY <1>4, <1>6 DEF Running
  <2> QED BY <1>11, <2>1, <2>2 DEF ManifestBooks
<1>14. TablesStay(Files(w)) /\ TablesStay(Files(Cur.version))
  BY <1>7, <1>10, <1>13 DEF TablesStay
<1>15. lastSeq \in Nat /\ mem \in Nat /\ faults' \in Nat /\ faults <= faults' /\ Cur.version \in Versions
       /\ Cur.last \in Nat /\ DOMAIN logs' \subseteq Nat /\ DOMAIN logs \subseteq Nat /\ logNumber \in Nat
  BY <1>1, <1>4, CurIs DEF TypeInv
<1>16. Disk'
  <2>1. \A n \in DOMAIN logs : n >= Cur.log => n >= logNumber
    BY <1>9, <1>15
  <2>2. LogsStay(Cur.log)
    BY <1>10, <2>1 DEF LogsStay
  <2> QED BY <1>1, <1>4, <1>5, <1>6, <1>11, <1>14, <1>15, <2>2, DiskStays
<1>17. Tree'
  <2>1. Consistent(tables, Logged(logs), history, w, lastSeq, logNumber, Twins)
    BY <1>8 DEF Fits
  <2>2. Consistent(tables', Logged(logs'), history', w, lastSeq, logNumber, Twins')
    BY <1>1, <1>4, <1>8, <1>12, <1>14, <1>15, <2>1, CollectFits
  <2>3. bgError => Consistent(tables', Logged(logs'), history', Cur.version, lastSeq, logNumber, Twins')
    <3>1. bgError => Consistent(tables, Logged(logs), history, Cur.version, lastSeq, logNumber, Twins)
      BY <1>5, <1>6 DEF Tree, Fits
    <3> QED BY <1>1, <1>4, <1>12, <1>14, <1>15, <3>1, CollectFits
  <2> QED BY <1>1, <1>7, <1>11, <2>2, <2>3 DEF Tree, Fits
<1>18. Sequence' /\ Recovering'
  BY <1>1, <1>5, <1>6, <1>11, <1>15, SequenceStays DEF Recovering
<1>19. Stale' /\ Flushing' /\ Compacting'
  BY <1>1, <1>6 DEF Stale, Flushing, Compacting
<1>21. Memory'
  <2>1. LogE(mem)' = LogE(mem) /\ (imm # 0 => LogE(imm)' = LogE(imm))
    BY <1>1, <1>9, <1>10, <1>15 DEF LogE
  <2>2. Stored(tables', w) = Stored(tables, w) /\ Stored(tables', Cur.version) = Stored(tables, Cur.version)
    BY <1>14, SameStored DEF TablesStay
  <2>3. /\ mems[mem] \cup writing = LogE(mem) /\ Older(Stored(tables, Cur.version), LogE(mem))
        /\ Older(Stored(tables, version), LogE(mem))
        /\ imm # 0 => /\ mems[imm] = LogE(imm) /\ mems[imm] # {}
                      /\ Older(Stored(tables, version), mems[imm])
    BY <1>5, <1>6 DEF Memory
  <2>4. Older(Stored(tables, w), LogE(mem)) /\ (imm # 0 => Older(Stored(tables, w), mems[imm]))
    BY <1>8, <2>3 DEF Older
  <2> QED BY <1>1, <1>7, <1>11, <2>1, <2>2, <2>3, <2>4 DEF Memory
<1>23. Viewing'
  <2>1. \A x \in views' : \A n \in Files(x.version) : tables'[n] = tables[n]
    BY <1>4, <1>10 DEF Readers, ViewBooks
  <2> QED BY <1>1, <1>4, <1>5, <1>15, <2>1, ViewingStays
<1> QED BY <1>16, <1>17, <1>18, <1>19, <1>21, <1>23 DEF Contents

\* A compaction that fails, its record written or not.
LEMMA CompactFailContents == ASSUME Books, Books', Contents, CompactFail PROVE Contents'
<1>1. /\ faults' = faults + 1 /\ bgError' = TRUE /\ flush = {} /\ comp' = {}
      /\ UNCHANGED <<logs, tables, current, up, mems, mem, imm, books, nextFile, lastSeq, recovered,
                     writing, flush, views, history, crashes>>
  BY DEF CompactFail
<1>2. PICK c \in comp : \/ c.rest # {} /\ UNCHANGED manifests
                        \/ c.rest = {} /\ ~c.logged /\ (Record(CompactEdit(c)) \/ UNCHANGED manifests)
  BY DEF CompactFail
<1>3. UNCHANGED <<logNumber, version, manifestFile>>
  BY <1>1 DEF books
<1>4. TypeInv /\ TypeInv' /\ Running /\ Readers /\ Tasks /\ Closed
  BY OpenParts
<1>5. Disk /\ Sequence /\ Memory /\ Tree /\ Stale /\ Flushing /\ Compacting /\ Viewing
  BY OpenParts
<1>6. up = "open" /\ comp = {c} /\ ~c.logged /\ c \in CompRecord
  <2>1. comp = {c} /\ CompBooks(c, version, DOMAIN tables)
    BY <1>4 DEF Tasks
  <2>2. ~c.logged
    BY <1>2, <2>1 DEF CompBooks
  <2> QED BY <1>4, <2>1, <2>2 DEF Closed, TypeInv
<1>8. Fits(Cur.version, lastSeq, logNumber) /\ Cur.version \in Versions
  <2>1. (\A f \in flush : ~f.logged) /\ \A x \in comp : ~x.logged
    BY <1>1, <1>6
  <2> QED BY <1>4, <1>6, <2>1, CurFits, CurIs
<1>9. lastSeq \in Nat /\ faults <= faults' /\ faults' \in Nat /\ lastSeq <= lastSeq' /\ logNumber \in Nat
      /\ Twins' = TRUE /\ version \in Versions /\ DOMAIN logs' \subseteq Nat /\ DOMAIN logs \subseteq Nat
      /\ history \subseteq Entry /\ lastSeq <= lastSeq
  BY <1>1, <1>4 DEF TypeInv, Twins
<1>10. (\A N : TablesStay(N)) /\ \A n : LogsStay(n)
  BY <1>1 DEF TablesStay, LogsStay
<1> DEFINE G == Logged(logs)
<1>11. /\ DOMAIN G \subseteq Nat
       /\ \A v, ln : Fits(v, lastSeq, ln) <=> Consistent(tables, G, history, v, lastSeq, ln, Twins)
       /\ \A v, ln : Consistent(tables', Logged(logs'), history', v, lastSeq', ln, Twins')
                       = Consistent(tables, G, history, v, lastSeq, ln, TRUE)
  BY <1>1, <1>9, LoggedIs DEF Fits
<1> HIDE DEF G
<1>12. \A v \in Versions : Fits(v, lastSeq, logNumber) => Consistent(tables, G, history, v, lastSeq, logNumber, TRUE)
  <2> SUFFICES ASSUME NEW v \in Versions, Fits(v, lastSeq, logNumber)
               PROVE  Consistent(tables, G, history, v, lastSeq, logNumber, TRUE)
    OBVIOUS
  <2>1. Consistent(tables, G, history, v, lastSeq, logNumber, Twins)
    BY <1>11
  <2> QED BY <1>9, <1>11, <2>1, SameConsistent
<1>13. Consistent(tables, G, history, version, lastSeq, logNumber, TRUE)
  BY <1>5, <1>6, <1>9, <1>12 DEF Tree
<1>14. Flushing' /\ Recovering' /\ Compacting' /\ Stale'
  BY <1>1, <1>6 DEF Flushing, Recovering, Compacting, Stale
<1>15. Viewing'
  BY <1>1, <1>4, <1>5, <1>9, ViewingStays
<1>16. ASSUME UNCHANGED manifests PROVE Contents'
  <2>1. Cur' = Cur
    BY <1>1, <1>16 DEF Cur
  <2>2. Disk'
    BY <1>1, <1>4, <1>5, <1>6, <1>9, <1>10, <2>1, DiskStays
  <2>3. Tree'
    <3>1. Consistent(tables, G, history, Cur.version, lastSeq, logNumber, TRUE)
      BY <1>8, <1>12
    <3> QED BY <1>1, <1>3, <1>11, <1>13, <2>1, <3>1 DEF Tree, Fits
  <2>4. Sequence'
    BY <1>1, <1>5, <1>6, <1>9, <2>1, SequenceStays
  <2>7. Memory'
    BY <1>1, <1>3, <1>4, <1>5, <1>6, <1>10, <2>1, MemoryStays
  <2> QED BY <1>14, <1>15, <2>2, <2>3, <2>4, <2>7 DEF Contents
<1>17. ASSUME c.rest = {}, Record(CompactEdit(c)) PROVE Contents'
  <2> DEFINE V == WithOutputs(Cur.version, c)
  <2>1. Cur' = [log |-> logNumber, next |-> nextFile, last |-> lastSeq, version |-> V]
    BY <1>1, <1>6, <1>17, CompactionRecorded
  <2>2. Fits(V, lastSeq, logNumber) /\ V \in Versions /\ Stored(tables, V) \subseteq Stored(tables, Cur.version)
    <3>1. CompFits(tables, c, Cur.version)
      BY <1>5, <1>6 DEF Compacting
    <3> QED BY <1>8, <1>17, <3>1, CompactFits
  <2>3. Cur'.log = logNumber /\ Cur'.last = lastSeq /\ Cur'.version = V
    BY <2>1
  <2> HIDE DEF V
  <2>4. Consistent(tables, G, history, V, lastSeq, logNumber, TRUE)
    BY <1>12, <2>2
  <2>5. Disk'
    BY <1>1, <1>5, <1>6, <1>11, <2>3, <2>4 DEF Disk, Fits
  <2>6. Tree'
    BY <1>1, <1>3, <1>11, <1>13, <2>3, <2>4 DEF Tree, Fits
  <2>7. Sequence'
    BY <1>1, <1>5, <1>6, <1>9, <2>3, SequenceStays
  <2>10. Memory'
    <3>1. LogE(mem)' = LogE(mem) /\ LogE(imm)' = LogE(imm)
      BY <1>1 DEF LogE
    <3>2. Older(Stored(tables, V), LogE(mem))
      BY <1>5, <1>6, <2>2 DEF Memory, Older
    <3> QED BY <1>1, <1>3, <1>5, <1>6, <2>3, <3>1, <3>2 DEF Memory
  <2> QED BY <1>14, <1>15, <2>5, <2>6, <2>7, <2>10 DEF Contents
<1> QED BY <1>2, <1>16, <1>17

-----------------------------------------------------------------------------
(* Restarts keep it *)

\* No write of a file has failed, or no power cut takes a log entry that a table
\* of the manifest holds.
Sound == faults = 0 \/ ~TornLogs

\* With the process gone only the disk counts.
LEMMA DownContents ==
  ASSUME Restarting, Disk'
  PROVE  Contents'
BY DEF Restarting, Contents, Recovering, Sequence, Memory, Tree, Stale, Flushing, Compacting, Viewing

\* The process ends: the files are as they were.
LEMMA CrashContents == ASSUME Books, Books', Contents, Crash PROVE Contents'
<1>1. Restarting /\ UNCHANGED <<logs, tables, manifests, current, history, faults>>
  BY DEF Crash, disk
<1>2. up' = "down"
  BY <1>1 DEF Restarting
<1>3. TypeInv /\ TypeInv' /\ Disk
  BY OpenParts
<1>4. Cur' = Cur
  BY <1>1 DEF Cur
<1>5. faults <= faults' /\ TablesStay(Files(Cur.version)) /\ LogsStay(Cur.log)
  BY <1>1, <1>3 DEF TypeInv, TablesStay, LogsStay
<1>6. Disk'
  BY <1>1, <1>2, <1>3, <1>4, <1>5, DiskStays
<1> QED BY <1>1, <1>6, DownContents

\* A log cut off holds no more than the whole one.
LEMMA CutLog ==
  ASSUME NEW S, NEW l \in Seq(S), NEW k \in Nat, k <= Len(l)
  PROVE  LogEntries(SubSeq(l, 1, k)) \subseteq LogEntries(l)
<1>1. DOMAIN SubSeq(l, 1, k) = 1..k /\ \A i \in 1..k : SubSeq(l, 1, k)[i] = l[i] /\ i \in DOMAIN l
  OBVIOUS
<1> QED BY <1>1 DEF LogEntries, Range

\* The machine goes down: the ends of the logs are lost, and no table holds them.
LEMMA PowerCutContents == ASSUME Books, Books', Contents, Sound, PowerCut PROVE Contents'
<1>1. Restarting /\ UNCHANGED <<tables, manifests, current, faults>>
  BY DEF PowerCut
<1>2. up' = "down"
  BY <1>1 DEF Restarting
<1>3. TypeInv /\ TypeInv' /\ Disk
  BY OpenParts
<1>4. Cur' = Cur
  BY <1>1 DEF Cur
<1> DEFINE gone == UNION {LogEntries(logs[n]) \ LogEntries(logs'[n]) : n \in LogsToReplay}
           G == Logged(logs)
           K == Logged(logs')
<1>5. PICK kept \in [DOMAIN logs -> Nat] :
             /\ logs' = [n \in DOMAIN logs |-> SubSeq(logs[n], 1, kept[n])]
             /\ \A n \in DOMAIN logs : kept[n] <= Len(logs[n])
             /\ TornLogs \/ gone \cap Content(Files(Cur.version)) = {}
             /\ history' = history \ (gone \ Content(Files(Cur.version)))
  BY <1>3, PowerCutIs
<1>6. Files(Cur.version) \subseteq DOMAIN tables /\ Cur.version \in Versions /\ Cur.last \in Nat /\ Cur.log \in Nat
  BY <1>3, CurIs DEF Books, ManifestBooks
<1>7. Content(Files(Cur.version)) = Stored(tables, Cur.version)
  BY <1>3, <1>6, FileIs DEF Stored
<1>8. DOMAIN G = DOMAIN logs /\ DOMAIN K = DOMAIN logs
      /\ \A n \in DOMAIN logs : G[n] = LogEntries(logs[n]) /\ K[n] = LogEntries(logs'[n])
  BY <1>5, LoggedIs
<1>9. \A n \in DOMAIN G : K[n] \subseteq G[n]
  <2> SUFFICES ASSUME NEW n \in DOMAIN logs PROVE LogEntries(logs'[n]) \subseteq LogEntries(logs[n])
    BY <1>8
  <2>1. logs[n] \in Seq(SUBSET Entry) /\ kept[n] \in Nat /\ kept[n] <= Len(logs[n])
    BY <1>3, <1>5 DEF TypeInv
  <2>2. LogEntries(SubSeq(logs[n], 1, kept[n])) \subseteq LogEntries(logs[n])
    BY <2>1, CutLog
  <2> QED BY <1>5, <2>2
<1>10. \A e : e \in gone <=> \E n \in DOMAIN G : n >= Cur.log /\ e \in G[n] /\ e \notin K[n]
  BY <1>8 DEF LogsToReplay, Cur
<1> HIDE DEF G, K, gone
<1>11. Consistent(tables, G, history, Cur.version, Cur.last, Cur.log, Twins) /\ Distinct(history)
  BY <1>3 DEF Disk, Fits, G
<1>12. history \subseteq Entry /\ DOMAIN G \subseteq Nat
  BY <1>3, <1>8 DEF TypeInv
<1>13. gone \cap Stored(tables, Cur.version) = {}
  <2>1. CASE ~TornLogs
    BY <1>5, <1>7, <2>1
  <2>2. CASE faults = 0
    <3> SUFFICES ASSUME NEW e \in gone, e \in Stored(tables, Cur.version) PROVE FALSE
      OBVIOUS
    <3>1. PICK n \in DOMAIN G : n >= Cur.log /\ e \in G[n]
      BY <1>10
    <3>2. PICK t \in Files(Cur.version) : e \in tables[t]
      BY StoredIs
    <3>3. ~Twins
      BY <2>2 DEF Twins
    <3>4. Older(tables[t], G[n])
      BY <1>6, <1>11, <3>1, <3>2, <3>3 DEF Consistent, Follows
    <3>5. e.seq < e.seq
      BY <3>1, <3>2, <3>4 DEF Older
    <3>6. e \in Entry
      BY <1>3, <1>6, <3>2 DEF TypeInv
    <3> QED BY <3>5, <3>6, EntryIs
  <2> QED BY <2>1, <2>2 DEF Sound
<1>14. history' = history \ gone
  BY <1>5, <1>7, <1>13
<1>15. Consistent(tables, K, history \ gone, Cur.version, Cur.last, Cur.log, Twins)
  BY <1>6, <1>8, <1>9, <1>10, <1>11, <1>12, <1>13, ConsistentCut
<1>16. Disk'
  <2>1. Distinct(history')
    BY <1>11, <1>14 DEF Distinct
  <2>2. Twins' = Twins
    BY <1>1 DEF Twins
  <2> QED BY <1>1, <1>2, <1>4, <1>14, <1>15, <2>1, <2>2 DEF Disk, Fits, K
<1> QED BY <1>1, <1>16, DownContents

\* What the logs to be replayed hold.
LEMMA ReplayHeld ==
  ASSUME TypeInv
  PROVE  /\ \A e \in Replay(Logged(logs), Cur.log) : \E n \in Held : e \in LogEntries(logs[n])
         /\ \A n \in Held : /\ n \in DOMAIN logs /\ n \in LogsToReplay /\ n >= Cur.log
                            /\ Logged(logs)[n] = LogEntries(logs[n]) /\ LogEntries(logs[n]) # {}
                            /\ LogEntries(logs[n]) \subseteq Replay(Logged(logs), Cur.log)
<1>1. DOMAIN Logged(logs) = DOMAIN logs /\ \A n \in DOMAIN logs : Logged(logs)[n] = LogEntries(logs[n])
  BY LoggedIs
<1>2. \A n : n \in LogsToReplay <=> n \in DOMAIN logs /\ n >= Cur.log
  BY DEF LogsToReplay, Cur
<1>3. \A n : n \in Held <=> n \in LogsToReplay /\ LogEntries(logs[n]) # {}
  BY DEF Held
<1> DEFINE G == Logged(logs)
<1>4. /\ \A e \in Replay(G, Cur.log) : \E n \in DOMAIN G : n >= Cur.log /\ e \in G[n]
      /\ \A n \in DOMAIN G : n >= Cur.log => G[n] \subseteq Replay(G, Cur.log)
  BY ReplayIs
<1> HIDE DEF G
<1>5. \A e \in Replay(G, Cur.log) : \E n \in Held : e \in LogEntries(logs[n])
  <2> SUFFICES ASSUME NEW e \in Replay(G, Cur.log) PROVE \E n \in Held : e \in LogEntries(logs[n])
    OBVIOUS
  <2>1. PICK n \in DOMAIN G : n >= Cur.log /\ e \in G[n]
    BY <1>4
  <2>2. n \in Held /\ e \in LogEntries(logs[n])
    BY <1>1, <1>2, <1>3, <2>1 DEF G
  <2> QED BY <2>2
<1>6. \A n \in Held : /\ n \in DOMAIN logs /\ n \in LogsToReplay /\ n >= Cur.log
                      /\ G[n] = LogEntries(logs[n]) /\ LogEntries(logs[n]) # {}
                      /\ LogEntries(logs[n]) \subseteq Replay(G, Cur.log)
  BY <1>1, <1>2, <1>3, <1>4 DEF G
<1> QED BY <1>5, <1>6 DEF G

\* Open's replay: each log becomes a table, newer than all before it.
LEMMA OpenReplayContents == ASSUME Books, Books', Contents, OpenReplay PROVE Contents'
<1>1. TypeInv /\ TypeInv' /\ Closed /\ Disk
  BY OpenParts
<1>2. /\ up = "down" /\ up' = "replayed"
      /\ DOMAIN tables' = DOMAIN tables \cup Range(Number)
      /\ \A t \in Range(Number) : tables'[t] = BuiltTables[t]
      /\ \A t \in DOMAIN tables \ Range(Number) : tables'[t] = tables[t]
      /\ recovered' = Range(Number) /\ logs' = Created(logs, NextNumber, <<>>) /\ version' = Cur.version
      /\ UNCHANGED <<manifests, current, writing, flush, comp, views, history, faults>>
  BY <1>1, OpenReplayIs
<1>3. Cur' = Cur
  BY <1>2 DEF Cur
<1>4. /\ Number \in [Held -> Nat]
      /\ \A n \in Held : Cur.next + 1 <= Number[n]
      /\ \A n, m \in Held : n < m => Number[n] < Number[m]
      /\ \A t : t \in Range(Number) <=> \E n \in Held : t = Number[n]
      /\ NextNumber \in Nat /\ \A n \in LogsToReplay : n < NextNumber
  BY <1>1, NumbersAre
<1>5. \A n \in Held : Number[n] \in Range(Number) /\ BuiltTables[Number[n]] = LogEntries(logs[n])
  BY <1>1, BuiltAre
<1> DEFINE G == Logged(logs)
           E == Replay(G, Cur.log)
<1>6. /\ \A e \in E : \E n \in Held : e \in LogEntries(logs[n])
      /\ \A n \in Held : /\ n \in DOMAIN logs /\ n >= Cur.log
                         /\ G[n] = LogEntries(logs[n]) /\ LogEntries(logs[n]) # {}
                         /\ LogEntries(logs[n]) \subseteq E
  BY <1>1, ReplayHeld
<1>7. Cur.version \in Versions /\ Cur.next \in Nat /\ Files(Cur.version) \subseteq DOMAIN tables
      /\ (\A t \in Files(Cur.version) : t < Cur.next) /\ Files(Cur.version) \subseteq Nat
  BY <1>1, CurIs, FilesAre DEF Books, ManifestBooks
<1>8. \A t \in Files(Cur.version) : t \notin Range(Number) /\ tables'[t] = tables[t]
  <2> SUFFICES ASSUME NEW t \in Files(Cur.version) PROVE t \notin Range(Number)
    BY <1>2, <1>7
  <2>1. t < Cur.next /\ t \in Nat
    BY <1>7
  <2>2. ASSUME NEW n \in Held, t = Number[n] PROVE FALSE
    BY <1>4, <1>7, <2>1, <2>2
  <2> QED BY <1>4, <2>2
<1>9. \A n \in Held : tables'[Number[n]] = G[n]
  BY <1>2, <1>5, <1>6
<1>10. DOMAIN logs \subseteq Nat /\ DOMAIN logs' \subseteq Nat /\ DOMAIN G = DOMAIN logs
  BY <1>1, LoggedIs DEF TypeInv
<1>11. LogsStay(Cur.log)
  <2>1. \A n \in DOMAIN logs : n >= Cur.log => n # NextNumber
    <3> SUFFICES ASSUME NEW n \in DOMAIN logs, n >= Cur.log PROVE n # NextNumber
      OBVIOUS
    <3>1. n \in LogsToReplay
      BY DEF LogsToReplay, Cur
    <3> QED BY <1>4, <1>10, <3>1
  <2>2. \A n \in DOMAIN logs : n >= Cur.log => n \in DOMAIN logs' /\ logs'[n] = logs[n]
    BY <1>2, <2>1 DEF Created
  <2>3. \A n \in DOMAIN logs' : (n \in DOMAIN logs /\ logs'[n] = logs[n]) \/ logs'[n] = <<>>
    BY <1>2 DEF Created
  <2> QED BY <2>2, <2>3 DEF LogsStay
<1>12. Replay(Logged(logs'), Cur.log) = E
  <2> DEFINE K == Logged(logs')
  <2>1. DOMAIN K = DOMAIN logs' /\ \A n \in DOMAIN logs' : K[n] = LogEntries(logs'[n])
    BY LoggedIs
  <2>2. \A n \in DOMAIN logs : G[n] = LogEntries(logs[n])
    BY LoggedIs
  <2> HIDE DEF K, G
  <2>3. \A n \in DOMAIN G : n >= Cur.log => n \in DOMAIN K /\ K[n] = G[n]
    BY <1>10, <1>11, <2>1, <2>2 DEF LogsStay
  <2>4. \A n \in DOMAIN K : n >= Cur.log => (n \in DOMAIN G /\ K[n] = G[n]) \/ K[n] = {}
    BY <1>10, <1>11, <2>1, <2>2, EmptyLog DEF LogsStay
  <2>5. Replay(K, Cur.log) = Replay(G, Cur.log)
    BY <2>3, <2>4, SameReplay
  <2> QED BY <2>5 DEF K
<1> HIDE DEF G, E
<1>13. Consistent(tables, G, history, Cur.version, Cur.last, Cur.log, Twins)
  BY <1>1 DEF Disk, Fits, G
<1>14. faults <= faults' /\ TablesStay(Files(Cur.version)) /\ Twins' = Twins
  BY <1>1, <1>2, <1>8 DEF TypeInv, TablesStay, Twins
<1>15. Disk'
  BY <1>1, <1>2, <1>3, <1>11, <1>14, DiskStays
<1> DEFINE R == Range(Number)
<1>16. Rebuilt(tables', R, Cur.version, E, Twins)
  <2>1. Holds(tables', R) = E
    <3>1. \A e \in Holds(tables', R) : e \in E
      <4> SUFFICES ASSUME NEW e \in Holds(tables', R) PROVE e \in E
        OBVIOUS
      <4>1. PICK r \in R : e \in tables'[r]
        BY HoldsIs
      <4>2. PICK n \in Held : r = Number[n]
        BY <1>4, <4>1
      <4> QED BY <1>6, <1>9, <4>1, <4>2
    <3>2. \A e \in E : e \in Holds(tables', R)
      <4> SUFFICES ASSUME NEW e \in E PROVE e \in Holds(tables', R)
        OBVIOUS
      <4>1. PICK n \in Held : e \in LogEntries(logs[n])
        BY <1>6
      <4>2. Number[n] \in R /\ e \in tables'[Number[n]]
        BY <1>5, <1>6, <1>9, <4>1
      <4> HIDE DEF R
      <4> QED BY <4>2, HoldsIs
    <3> QED BY <3>1, <3>2
  <2>2. \A r \in R : tables'[r] # {}
    BY <1>4, <1>6, <1>9
  <2>3. \A r, s \in R : r < s => Older(tables'[r], tables'[s])
    <3> SUFFICES ASSUME NEW r \in R, NEW s \in R, r < s PROVE Older(tables'[r], tables'[s])
      OBVIOUS
    <3>1. PICK n \in Held : r = Number[n]
      BY <1>4
    <3>2. PICK m \in Held : s = Number[m]
      BY <1>4
    <3>3. n \in Nat /\ m \in Nat /\ Number[n] \in Nat /\ Number[m] \in Nat
      BY <1>4, <1>6, <1>10
    <3>4. n < m
      <4>1. n = m \/ n < m \/ m < n
        BY <3>3
      <4>2. m < n => Number[m] < Number[n]
        BY <1>4
      <4> QED BY <3>1, <3>2, <3>3, <4>1, <4>2
    <3>5. Older(G[n], G[m])
      BY <1>6, <1>10, <1>13, <3>4 DEF Consistent, Follows
    <3> QED BY <1>9, <3>1, <3>2, <3>5
  <2>4. \A r \in R, t \in Files(Cur.version) :
           t < r /\ (Older(tables'[t], tables'[r]) \/ (Twins /\ tables'[t] = tables'[r]))
    <3> SUFFICES ASSUME NEW r \in R, NEW t \in Files(Cur.version)
                 PROVE  t < r /\ (Older(tables'[t], tables'[r]) \/ (Twins /\ tables'[t] = tables'[r]))
      OBVIOUS
    <3>1. PICK n \in Held : r = Number[n]
      BY <1>4
    <3>2. t < r
      BY <1>4, <1>7, <3>1
    <3>3. Older(tables[t], G[n]) \/ (Twins /\ tables[t] = G[n])
      BY <1>6, <1>10, <1>13, <3>1 DEF Consistent, Follows
    <3> QED BY <1>8, <1>9, <3>1, <3>2, <3>3
  <2> QED BY <2>1, <2>2, <2>3, <2>4 DEF Rebuilt
<1>17. Recovering'
  BY <1>2, <1>3, <1>12, <1>14, <1>16 DEF Recovering
<1>18. Sequence'
  <2>1. writing' = {}
    BY <1>1, <1>2 DEF Closed
  <2>2. /\ lastSeq' \in Nat /\ Cur.last <= lastSeq'
        /\ \A n \in Held : \A e \in LogEntries(logs[n]) : e.seq <= lastSeq'
    BY <1>1, LastReplayed
  <2>3. \A h \in history : h.seq <= Cur.last \/ h \in E
    BY <1>13 DEF Consistent, E
  <2>4. \A h \in history : h.seq \in Nat
    BY <1>1, EntryIs DEF TypeInv
  <2>5. Cur.last \in Nat
    BY <1>1, CurIs
  <2>6. \A h \in history : h.seq <= lastSeq'
    <3> SUFFICES ASSUME NEW h \in history PROVE h.seq <= lastSeq'
      OBVIOUS
    <3>1. CASE h.seq <= Cur.last
      BY <2>2, <2>4, <2>5, <3>1
    <3>2. CASE h \in E
      BY <1>6, <2>2, <3>2
    <3> QED BY <2>3, <3>1, <3>2
  <2> QED BY <1>2, <1>3, <2>1, <2>2, <2>6 DEF Sequence
<1>19. Memory' /\ Tree' /\ Stale'
  BY <1>2 DEF Memory, Tree, Stale
<1>20. Flushing' /\ Compacting' /\ Viewing'
  BY <1>1, <1>2 DEF Closed, Flushing, Compacting, Viewing
<1> QED BY <1>15, <1>17, <1>18, <1>19, <1>20 DEF Contents

\* The new manifest's version holds what the logs held.
LEMMA OpenManifestContents == ASSUME Books, Books', Contents, OpenManifest PROVE Contents'
<1>1. /\ up = "replayed" /\ up' = "written"
      /\ manifests' = Created(manifests, manifestFile, [log |-> mem, next |-> nextFile, last |-> lastSeq,
                                                        version |-> Edited(version, OpenEdit)])
      /\ UNCHANGED <<logs, tables, current, mems, mem, imm, books, nextFile, lastSeq, recovered, writing,
                     flush, comp, views, bgError, history, faults>>
  BY DEF OpenManifest
<1>2. TypeInv /\ TypeInv' /\ Closed /\ Disk /\ Recovering /\ Sequence
  BY OpenParts
<1>3. manifestFile = Cur.next /\ version = Cur.version /\ mem \in DOMAIN logs /\ logs[mem] = <<>>
      /\ \A n \in DOMAIN logs : n <= mem
  BY <1>1 DEF Books, Opening
<1>4. current # manifestFile
  <2>1. current < Cur.next
    BY DEF Books, ManifestBooks
  <2>2. current \in Nat /\ Cur.next \in Nat
    BY <1>2, CurIs DEF TypeInv
  <2> QED BY <1>3, <2>1, <2>2
<1>5. Cur' = Cur
  <2>1. manifests'[current] = manifests[current]
    BY <1>1, <1>2, <1>4 DEF Created, TypeInv
  <2> QED BY <1>1, <2>1 DEF Cur
<1>6. UNCHANGED version /\ writing = {}
  BY <1>1, <1>2 DEF books, Closed
<1> DEFINE G == Logged(logs)
<1>7. DOMAIN G = DOMAIN logs /\ G[mem] = {}
  BY <1>3, LoggedIs, EmptyLog
<1>8. /\ Consistent(tables, G, history, Cur.version, Cur.last, Cur.log, Twins)
      /\ Rebuilt(tables, recovered, Cur.version, Replay(G, Cur.log), Twins)
  BY <1>1, <1>2, <1>3 DEF Disk, Recovering, Fits
<1>9. /\ history \subseteq Entry /\ DOMAIN logs \subseteq Nat /\ recovered \in SUBSET Nat
      /\ Cur.version \in Versions /\ Cur.last \in Nat /\ Cur.log \in Nat /\ lastSeq \in Nat
  BY <1>2, CurIs DEF TypeInv
<1>10. Cur.last <= lastSeq /\ \A h \in history : h.seq <= lastSeq
  BY <1>1, <1>2, <1>6 DEF Sequence
<1> HIDE DEF G
<1>11. Consistent(tables, G, history, WithTables(Cur.version, 0, recovered), lastSeq, mem, Twins)
  BY <1>3, <1>7, <1>8, <1>9, <1>10, ConsistentRecovered
<1>12. Twins' = Twins
  BY <1>1 DEF Twins
<1>13. Disk'
  <2>1. Distinct(history) /\ Fits(Cur.version, Cur.last, Cur.log)
    BY <1>2 DEF Disk
  <2> QED BY <1>1, <1>3, <1>5, <1>6, <1>11, <1>12, <2>1 DEF Disk, Fits, G
<1>14. Recovering' /\ Memory' /\ Tree' /\ Stale'
  BY <1>1 DEF Recovering, Memory, Tree, Stale
<1>15. Sequence'
  BY <1>1, <1>2, <1>5 DEF Sequence
<1>16. Flushing' /\ Compacting' /\ Viewing'
  BY <1>1, <1>2 DEF Closed, Flushing, Compacting, Viewing
<1> QED BY <1>13, <1>14, <1>15, <1>16 DEF Contents

\* CURRENT names it.
LEMMA OpenCurrentContents == ASSUME Books, Books', Contents, OpenCurrent PROVE Contents'
<1>1. /\ up = "written" /\ up' = "pointed" /\ current' = manifestFile
      /\ UNCHANGED <<logs, tables, manifests, mems, mem, imm, books, nextFile, lastSeq, recovered, writing,
                     flush, comp, views, bgError, history, faults>>
  BY DEF OpenCurrent
<1>2. TypeInv /\ TypeInv' /\ Closed /\ Disk /\ Sequence
  BY OpenParts
<1>3. manifests[manifestFile] = NewManifest
  BY <1>1 DEF Books, Opening
<1>4. Cur'.log = mem /\ Cur'.last = lastSeq /\ Cur'.version = WithTables(version, 0, recovered)
  <2>1. Cur' = NewManifest
    BY <1>1, <1>3 DEF Cur
  <2> QED BY <2>1 DEF NewManifest
<1>5. Twins' = Twins /\ writing = {} /\ lastSeq \in Nat
  BY <1>1, <1>2 DEF Twins, Closed, TypeInv
<1>6. Distinct(history) /\ Fits(WithTables(version, 0, recovered), lastSeq, mem)
  BY <1>1, <1>2 DEF Disk
<1>7. Disk'
  BY <1>1, <1>4, <1>5, <1>6 DEF Disk, Fits
<1>8. Recovering' /\ Memory' /\ Tree' /\ Stale'
  BY <1>1 DEF Recovering, Memory, Tree, Stale
<1>9. Sequence'
  BY <1>1, <1>2, <1>4, <1>5 DEF Sequence
<1>10. Flushing' /\ Compacting' /\ Viewing'
  BY <1>1, <1>2 DEF Closed, Flushing, Compacting, Viewing
<1> QED BY <1>7, <1>8, <1>9, <1>10 DEF Contents

\* The replayed logs are deleted, and the database is open.
LEMMA OpenDoneContents == ASSUME Books, Books', Contents, OpenDone PROVE Contents'
<1>1. /\ up = "pointed" /\ up' = "open" /\ version' = Edited(version, OpenEdit) /\ logNumber' = mem
      /\ Collect(version', mem, {})
      /\ UNCHANGED <<current, mems, mem, imm, manifestFile, nextFile, lastSeq, writing, flush, comp,
                     views, bgError, history, faults>>
  BY DEF OpenDone
<1>2. TypeInv /\ TypeInv' /\ Closed /\ Disk /\ Sequence
  BY OpenParts
<1>3. /\ current = manifestFile /\ Cur = NewManifest /\ mem \in DOMAIN logs /\ mems[mem] = {} /\ logs[mem] = <<>>
  BY <1>1 DEF Books, Opening
<1>4. imm = 0 /\ writing = {} /\ flush = {} /\ comp = {} /\ views = {} /\ ~bgError
  BY <1>1, <1>2 DEF Closed
<1>5. Cur.log = mem /\ Cur.last = lastSeq /\ version' = Cur.version
  <2>1. Edited(version, OpenEdit) = WithTables(version, 0, recovered)
    BY <1>2, EditedOpen DEF TypeInv
  <2>2. Cur.version = WithTables(version, 0, recovered) /\ Cur.log = mem /\ Cur.last = lastSeq
    BY <1>3 DEF NewManifest
  <2> QED BY <1>1, <2>1, <2>2
<1>6. /\ \A n \in DOMAIN tables' : tables'[n] = tables[n]
      /\ \A n \in DOMAIN logs' : logs'[n] = logs[n]
      /\ DOMAIN logs' \subseteq DOMAIN logs
      /\ \A n \in DOMAIN logs : n >= mem => n \in DOMAIN logs'
      /\ manifests'[current] = Cur
  BY <1>1, <1>2, <1>3, CollectIs
<1>7. Cur' = Cur
  BY <1>1, <1>6 DEF Cur
<1>8. LogsStay(mem)
  BY <1>6 DEF LogsStay
<1>9. Files(Cur.version) \subseteq DOMAIN tables'
  <2>1. ManifestBooks(Cur', current', DOMAIN tables')
    BY DEF Books
  <2> QED BY <1>7, <2>1 DEF ManifestBooks
<1>10. TablesStay(Files(Cur.version))
  BY <1>6, <1>9 DEF TablesStay
<1>11. lastSeq \in Nat /\ mem \in Nat /\ faults <= faults' /\ Cur.version \in Versions
  BY <1>1, <1>2, CurIs DEF TypeInv
<1>12. Disk'
  BY <1>1, <1>2, <1>5, <1>7, <1>8, <1>10, <1>11, DiskStays
<1>13. Fits(Cur.version, lastSeq, mem)'
  <2>1. Fits(Cur.version, Cur.last, Cur.log)'
    BY <1>12 DEF Disk
  <2> QED BY <1>1, <1>5, <1>7, <2>1
<1>14. Tree'
  BY <1>1, <1>4, <1>5, <1>7, <1>13 DEF Tree, Fits
<1>15. Sequence'
  BY <1>1, <1>2, <1>7 DEF Sequence
<1>16. Memory'
  <2>1. LogE(mem)' = {} /\ mems'[mem] = {}
    <3>1. logs'[mem] = <<>>
      BY <1>3, <1>6, <1>11
    <3> QED BY <1>1, <1>3, <3>1, EmptyLog DEF LogE
  <2> QED BY <1>1, <1>4, <2>1 DEF Memory, Older
<1>17. Recovering' /\ Stale' /\ Flushing' /\ Compacting' /\ Viewing'
  BY <1>1, <1>4 DEF Recovering, Stale, Flushing, Compacting, Viewing
<1> QED BY <1>12, <1>14, <1>15, <1>16, <1>17 DEF Contents

-----------------------------------------------------------------------------
(* The theorems *)

\* Nothing is written at first.
LEMMA InitialContents == LevelDBInit => Contents
<1> SUFFICES ASSUME LevelDBInit PROVE Contents
  OBVIOUS
<1>1. /\ logs = Nothing /\ tables = Nothing /\ history = {} /\ up = "down" /\ writing = {} /\ flush = {}
      /\ comp = {} /\ views = {}
  BY DEF LevelDBInit, VolatileInit
<1>2. Cur.version = NoFiles /\ Cur.last = 0 /\ Cur.log = 0
  BY DEF LevelDBInit, Cur
<1>3. DOMAIN Logged(logs) = {}
  BY <1>1, LoggedIs, NothingIs
<1>4. Files(NoFiles) = {} /\ \A l \in Levels : NoFiles[l] = {}
  BY NoFilesIs
<1> DEFINE G == Logged(logs)
<1>5. Replay(G, 0) = {} /\ Stored(tables, NoFiles) = {}
  BY <1>3, <1>4 DEF Replay, Stored, Holds
<1> HIDE DEF G
<1>6. Consistent(tables, G, history, NoFiles, 0, 0, Twins)
  <2>1. Inside(tables, history, NoFiles, 0)
    BY <1>4, <1>5 DEF Inside
  <2>2. Follows(tables, G, history, NoFiles, 0, Twins)
    BY <1>1, <1>3, <1>4, <1>5 DEF Follows, Older, G
  <2>3. Good(tables, NoFiles, Twins)
    BY <1>4 DEF Good
  <2>4. Complete(Stored(tables, NoFiles), history \ Replay(G, 0))
    BY <1>1 DEF Complete
  <2> QED BY <1>1, <1>5, <2>1, <2>2, <2>3, <2>4 DEF Consistent
<1>7. Disk
  BY <1>1, <1>2, <1>6 DEF Disk, Distinct, Fits, G
<1> QED BY <1>1, <1>7 DEF Contents, Recovering, Sequence, Memory, Tree, Stale, Flushing, Compacting, Viewing

\* A failed write stays counted.
LEMMA FaultsGrow ==
  ASSUME LevelDBNext
  PROVE  faults' = faults \/ faults' = faults + 1
<1>1. CASE Write
  BY <1>1 DEF Write, SwitchMem, WriteLog, WriteInsert, WritePublish
<1>2. CASE Read
  BY <1>2 DEF Read, OpenView, CloseView
<1>3. CASE Background
  BY <1>3 DEF Background, FlushBuild, FlushLog, FlushInstall, FlushFail, CompactStart, CompactOutput,
              CompactLog, CompactInstall, CompactFail
<1>4. CASE Restart
  BY <1>4 DEF Restart, Crash, PowerCut, OpenReplay, OpenManifest, OpenCurrent, OpenDone
<1> QED BY <1>1, <1>2, <1>3, <1>4 DEF LevelDBNext

\* What has been written stays where it is looked for.
LEMMA ContentsStep ==
  ASSUME Books, Books', Contents, Sound, [LevelDBNext]_levelDBVars
  PROVE  Contents'
<1>1. CASE Write
  BY <1>1, SwitchMemContents, WriteLogContents, WriteInsertContents, WritePublishContents DEF Write
<1>2. CASE Read
  BY <1>2, OpenViewContents, CloseViewContents DEF Read
<1>3. CASE Background
  BY <1>3, FlushBuildContents, FlushLogContents, FlushInstallContents, FlushFailContents,
     CompactStartContents, CompactOutputContents, CompactLogContents, CompactInstallContents,
     CompactFailContents DEF Background
<1>4. CASE Restart
  BY <1>4, CrashContents, PowerCutContents, OpenReplayContents, OpenManifestContents,
     OpenCurrentContents, OpenDoneContents DEF Restart
<1>5. CASE UNCHANGED levelDBVars
  BY <1>5 DEF levelDBVars, disk, books, Contents, Disk, Recovering, Sequence, Memory, Tree, Stale,
     Flushing, Compacting, Viewing, Twins, Cur, Fits, LogE, LogEntries
<1> QED BY <1>1, <1>2, <1>3, <1>4, <1>5 DEF LevelDBNext

\* The files are always there, and what was written is where it is looked for.
LEMMA ContentsHold == LevelDBSpec => [](Books /\ (Sound => Contents))
<1>1. LevelDBInit => (Sound => Contents)
  BY InitialContents
<1>2. ASSUME Books, Books', Sound => Contents, [LevelDBNext]_levelDBVars PROVE Sound' => Contents'
  <2> SUFFICES ASSUME Sound' PROVE Contents'
    OBVIOUS
  <2>1. faults \in Nat
    BY <1>2 DEF Books, TypeInv
  <2>2. faults' = faults \/ faults' = faults + 1
    BY <1>2, FaultsGrow DEF levelDBVars
  <2>3. Sound
    BY <2>1, <2>2 DEF Sound
  <2> QED BY <1>2, <2>3, ContentsStep
<1>3. Books /\ Books' /\ (Sound => Contents) /\ [LevelDBNext]_levelDBVars => (Sound => Contents)'
  BY <1>2
<1> QED BY <1>1, <1>3, BooksHold, PTL DEF LevelDBSpec

\* Every version in use lies in the order its readers look through.
LEMMA VersionsGood ==
  ASSUME Books, Contents, NEW v \in {version, Cur.version}
  PROVE  v \in Versions /\ Files(v) \subseteq DOMAIN tables /\ Good(tables, v, Twins)
<1>1. TypeInv /\ Disk /\ Tree
  BY DEF Books, Contents
<1>2. Cur.version \in Versions /\ version \in Versions
  BY <1>1, CurIs DEF TypeInv
<1>3. Files(Cur.version) \subseteq DOMAIN tables /\ Good(tables, Cur.version, Twins)
  BY <1>1 DEF Books, ManifestBooks, Disk, Fits, Consistent
<1>4. Files(version) \subseteq DOMAIN tables /\ Good(tables, version, Twins)
  <2>1. CASE up = "down"
    <3>1. version = NoFiles
      BY <2>1 DEF Books, Closed
    <3> QED BY <3>1, NoFilesIs DEF Good
  <2>2. CASE up \in {"replayed", "written"}
    BY <1>3, <2>2 DEF Books, Opening
  <2>3. CASE up = "pointed"
    <3>1. Cur.version = WithTables(version, 0, recovered) /\ Files(version) \subseteq DOMAIN tables
      BY <2>3 DEF Books, Opening, NewManifest
    <3>2. \A l \in Levels : version[l] \subseteq Cur.version[l]
      BY <3>1 DEF WithTables
    <3> QED BY <1>3, <3>1, <3>2, SubGood
  <2>4. CASE up = "open"
    BY <1>1, <2>4 DEF Books, Running, Tree, Fits, Consistent
  <2> QED BY <1>1, <2>1, <2>2, <2>3, <2>4 DEF TypeInv
<1> QED BY <1>2, <1>3, <1>4

\* Below level 0 the tables of a level never overlap, in the version in use and
\* in the manifest's, as long as no write of a file has failed: the check
\* VersionSet::Builder::SaveTo makes never finds anything, whatever levels
\* PickLevelForMemTableOutput chooses and whatever compactions run.
THEOREM LevelDBLevelsAreDisjoint == LevelDBSpec => []LevelsAreDisjoint
<1>1. Books /\ (Sound => Contents) => LevelsAreDisjoint
  <2> SUFFICES ASSUME Books, Sound => Contents, faults = 0,
                      NEW v \in {version, Cur.version}, NEW l \in 1..NumLevels - 1,
                      NEW n \in v[l], NEW m \in v[l] \ {n}
               PROVE  \/ \A e \in File(n), f \in File(m) : Before(e, f)
                      \/ \A e \in File(n), f \in File(m) : Before(f, e)
    BY DEF LevelsAreDisjoint, Cur
  <2>1. Contents /\ ~Twins
    BY DEF Sound, Twins
  <2>2. v \in Versions /\ Files(v) \subseteq DOMAIN tables /\ Good(tables, v, Twins)
    BY <2>1, VersionsGood
  <2>3. l \in Levels \ {0}
    BY LevelNumbers DEF Levels
  <2>4. n \in Files(v) /\ m \in Files(v)
    BY <2>2, <2>3, InFiles
  <2>5. Apart(tables[n], tables[m])
    BY <2>1, <2>2, <2>3 DEF Good
  <2>6. File(n) = tables[n] /\ File(m) = tables[m] /\ tables[n] \subseteq Entry /\ tables[m] \subseteq Entry
    BY <2>2, <2>4, FileIs DEF Books
  <2>7. CASE \A a \in tables[n], b \in tables[m] : a.key < b.key
    BY <2>6, <2>7 DEF Before
  <2>8. CASE \A a \in tables[n], b \in tables[m] : a.key > b.key
    BY <2>6, <2>8, EntryIs DEF Before
  <2> QED BY <2>5, <2>7, <2>8 DEF Apart
<1> QED BY <1>1, ContentsHold, PTL

\* A Get, and every reader DBImpl::NewInternalIterator has opened, finds of each
\* key the newest entry no newer than it asked for, whatever MakeRoomForWrite,
\* the flushes, the compactions and DeleteObsoleteFiles have done since, and
\* after any number of restarts; unless a write of a file has failed and a
\* power cut then takes log entries that a table holds.
THEOREM LevelDBReadsAreCurrent ==
  LevelDBSpec => [](faults = 0 \/ ~TornLogs => ReadsAreCurrent)
<1>1. Books /\ (Sound => Contents) => (faults = 0 \/ ~TornLogs => ReadsAreCurrent)
  <2> SUFFICES ASSUME Books, Contents PROVE ReadsAreCurrent
    BY DEF Sound
  <2>1. /\ TypeInv /\ Running /\ Readers /\ Closed
        /\ Disk /\ Sequence /\ Memory /\ Tree /\ Viewing
    BY DEF Books, Contents
  <2>2. Distinct(history) /\ lastSeq \in Nat /\ nextFile \in Nat /\ version \in Versions
    BY <2>1 DEF Disk, TypeInv
  <2>3. ASSUME up = "open", NEW k \in UserKeys
        PROVE  Get(MemHits(mem, imm, k, lastSeq), version, k, lastSeq) = Truth(k, lastSeq)
    <3>1. Readable(tables, version, mems[mem], ImmEntries(mems, imm), history, lastSeq, Twins)
      BY <2>1, <2>3, OpenReadable
    <3>2. /\ Files(version) \subseteq DOMAIN tables /\ (\A n \in DOMAIN tables : n < nextFile)
          /\ mem \in DOMAIN mems /\ (imm # 0 => imm \in DOMAIN mems)
      BY <2>1, <2>3, RunningIs
    <3>3. \A n \in Files(version) : n < nextFile
      BY <3>2
    <3> QED BY <2>1, <2>2, <3>1, <3>2, <3>3, ReadIs DEF ImmEntries
  <2>4. ASSUME NEW w \in views, NEW k \in UserKeys
        PROVE  Get(MemHits(w.mem, w.imm, k, w.seq), w.version, k, w.seq) = Truth(k, w.seq)
    <3>1. Readable(tables, w.version, mems[w.mem], ImmEntries(mems, w.imm), history, w.seq, Twins)
      BY <2>1 DEF Viewing
    <3>2. /\ w.version \in Versions /\ w.seq \in Nat /\ Files(w.version) \subseteq DOMAIN tables
          /\ w.mem \in DOMAIN mems /\ (w.imm # 0 => w.imm \in DOMAIN mems)
      BY <2>1, ViewIs
    <3>3. up = "open"
      BY <2>1 DEF Closed
    <3>4. \A n \in DOMAIN tables : n < nextFile
      BY <2>1, <3>3, RunningIs
    <3>5. \A n \in Files(w.version) : n < nextFile
      BY <3>2, <3>4
    <3> DEFINE m == w.mem
               i == w.imm
               s == w.seq
               v == w.version
    <3>6. /\ v \in Versions /\ s \in Nat /\ Files(v) \subseteq DOMAIN tables
          /\ m \in DOMAIN mems /\ (i # 0 => i \in DOMAIN mems) /\ \A n \in Files(v) : n < nextFile
      BY <3>2, <3>5
    <3>7. Readable(tables, v, mems[m], IF i = 0 THEN {} ELSE mems[i], history, s, Twins)
      BY <3>1 DEF ImmEntries
    <3> HIDE DEF m, i, s, v
    <3>8. Get(MemHits(m, i, k, s), v, k, s) = Truth(k, s)
      BY <2>1, <2>2, <3>6, <3>7, ReadIs
    <3> QED BY <3>8 DEF m, i, s, v
  <2> QED BY <2>3, <2>4 DEF ReadsAreCurrent
<1> QED BY <1>1, ContentsHold, PTL

\* At every step the files alone give everything back: the version of the
\* manifest CURRENT names, under the logs VersionSet::Recover and
\* DBImpl::RecoverLogFile replay; under the same condition.
THEOREM LevelDBRecoveryFindsEverything ==
  LevelDBSpec => [](faults = 0 \/ ~TornLogs => RecoveryFindsEverything)
<1>1. Books /\ (Sound => Contents) => (faults = 0 \/ ~TornLogs => RecoveryFindsEverything)
  <2> SUFFICES ASSUME Books, Contents PROVE RecoveryFindsEverything
    BY DEF Sound
  <2>1. TypeInv /\ Disk
    BY DEF Books, Contents
  <2>2. Files(Cur.version) \subseteq DOMAIN tables /\ \A n \in Files(Cur.version) : n < Cur.next
    BY DEF Books, ManifestBooks
  <2>3. Cur.next \in Nat
    BY <2>1, CurIs
  <2>4. Distinct(history) /\ Consistent(tables, Logged(logs), history, Cur.version, Cur.last, Cur.log, Twins)
    BY <2>1 DEF Disk, Fits
  <2> QED BY <2>1, <2>2, <2>3, <2>4, RecoveryIs
<1> QED BY <1>1, ContentsHold, PTL
=============================================================================

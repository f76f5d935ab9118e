------------------------- MODULE LevelDBFilesProofs -------------------------
(***************************************************************************)
(* For any keys, batches, levels, readers, restarts and failed writes: no  *)
(* file is deleted, or its number given again, while something needs it.   *)
(*                                                                         *)
(* Books is the inductive invariant: the shapes of the state, and for each *)
(* of the database's parts the files it names.  A number given is below    *)
(* the counter, in memory while the database is open and in the manifest   *)
(* otherwise; so the tables that Open builds of the logs, which may have   *)
(* been there before a crash, overwrite none that the manifest names.      *)
(* Unless a write has failed, the manifest's version is the one in use, or *)
(* ahead of it by the one record that is down and not yet installed; and   *)
(* after a failed write nothing is deleted any more.                       *)
(***************************************************************************)
EXTENDS LevelDB, FiniteSetTheorems, SequenceTheorems, WellFoundedInduction, TLAPS

-----------------------------------------------------------------------------
(* Groups of entries, versions and edits *)

\* What one group of entries says of another.
Covers(A, B) ==
    \A b \in B : (\E a \in A : a.key = b.key) => \E a \in A : a.key = b.key /\ a.seq >= b.seq
Older(A, B) == \A a \in A, b \in B : a.seq < b.seq
Apart(A, B) == (\A a \in A, b \in B : a.key < b.key) \/ (\A a \in A, b \in B : a.key > b.key)
Rank(l, n) == IF l = 0 THEN -n ELSE l
Holds(T, ns) == UNION {T[n] : n \in ns}

Versions == [Levels -> SUBSET Nat]
WithTables(v, l, N) == [i \in Levels |-> IF i = l THEN v[i] \cup N ELSE v[i]]
Outs(c) == IF c.move THEN c.in0 ELSE c.outs
WithOutputs(v, c) ==
    [i \in Levels |-> IF i = c.level THEN v[i] \ c.in0
                      ELSE IF i = c.level + 1 THEN (v[i] \ c.in1) \cup Outs(c) ELSE v[i]]

FlushRecord == [file : Nat, level : 0..MaxMemCompactLevel, logged : BOOLEAN]
CompRecord == [level : Nat, in0 : SUBSET Nat, in1 : SUBSET Nat, version : Versions, move : BOOLEAN,
               smallest_snapshot : Nat, rest : SUBSET Entry, outs : SUBSET Nat, logged : BOOLEAN]
ViewRecord == [seq : Nat, mem : Nat, imm : Nat, version : Versions]
ManifestRecord == [log : Nat, next : Nat, last : Nat, version : Versions]

\* There is a level 0, and memtables go to existing levels.
LEMMA LevelNumbers ==
    /\ NumLevels \in Nat /\ NumLevels >= 1 /\ 0 \in Levels /\ Levels \subseteq Nat
    /\ 0..MaxMemCompactLevel \subseteq Levels
BY LevelsAssumption DEF Levels

\* The tables of a version, level by level.
LEMMA FilesAre ==
    ASSUME NEW v \in Versions
    PROVE  /\ Files(v) = UNION {v[l] : l \in Levels}
           /\ \A n : n \in Files(v) <=> \E l \in Levels : n \in v[l]
           /\ Files(v) \subseteq Nat
BY DEF Files, Range, Versions

Pairs(l, N) == {<<l, n>> : n \in N}
Numbers(P, i) == {a[2] : a \in {a \in P : a[1] = i}}

\* What an edit does, level by level.
LEMMA EditedIs ==
    ASSUME NEW v, NEW e
    PROVE  Edited(v, e) = [l \in Levels |-> (v[l] \ Numbers(e.del, l)) \cup Numbers(e.add, l)]
BY DEF Edited, Numbers

\* The numbers that the pairs of an edit give level i.
LEMMA Picked ==
    ASSUME NEW l, NEW i, NEW N
    PROVE  Numbers(Pairs(l, N), i) = IF i = l THEN N ELSE {}
<1> DEFINE P == Pairs(l, N)
<1> USE DEF Numbers, Pairs
<1>1. CASE i = l
  <2>1. {a \in P : a[1] = i} = P
    BY <1>1
  <2>2. \A n \in N : <<l, n>> \in P /\ <<l, n>>[2] = n
    OBVIOUS
  <2>3. \A a \in P : a[2] \in N
    OBVIOUS
  <2>4. {a[2] : a \in P} = N
    BY <2>2, <2>3
  <2> QED BY <2>1, <2>4, <1>1
<1>2. CASE i # l
  <2>1. {a \in P : a[1] = i} = {}
    BY <1>2
  <2> QED BY <2>1, <1>2
<1> QED BY <1>1, <1>2

\* An edit that adds the tables N to level l.
LEMMA EditedAdds ==
    ASSUME NEW v \in Versions, NEW l \in Levels, NEW N \in SUBSET Nat, NEW e,
           e.del = {}, e.add = Pairs(l, N)
    PROVE  /\ Edited(v, e) = WithTables(v, l, N)
           /\ WithTables(v, l, N) \in Versions
           /\ Files(WithTables(v, l, N)) = Files(v) \cup N
<1>1. ASSUME NEW i \in Levels
      PROVE  (v[i] \ Numbers(e.del, i)) \cup Numbers(e.add, i)
               = IF i = l THEN v[i] \cup N ELSE v[i]
  <2>1. Numbers(e.del, i) = {}
    BY DEF Numbers
  <2>2. Numbers(e.add, i) = IF i = l THEN N ELSE {}
    BY Picked
  <2> QED BY <2>1, <2>2
<1>2. Edited(v, e) = WithTables(v, l, N)
  BY <1>1, EditedIs DEF WithTables
<1>3. WithTables(v, l, N) \in Versions
  BY DEF WithTables, Versions
<1>4. Files(WithTables(v, l, N)) = Files(v) \cup N
  <2> DEFINE w == WithTables(v, l, N)
  <2>1. \A n : n \in Files(w) <=> \E i \in Levels : n \in w[i]
    BY <1>3, FilesAre
  <2>2. \A i \in Levels : w[i] = IF i = l THEN v[i] \cup N ELSE v[i]
    BY DEF WithTables
  <2>3. \A n : n \in Files(v) <=> \E i \in Levels : n \in v[i]
    BY FilesAre
  <2> HIDE DEF w
  <2>4. \A n \in Files(w) : n \in Files(v) \cup N
    BY <2>1, <2>2, <2>3
  <2>5. \A n \in Files(v) \cup N : n \in Files(w)
    BY <2>1, <2>2, <2>3
  <2> QED BY <2>4, <2>5 DEF w
<1> QED BY <1>2, <1>3, <1>4

\* The edit of a flush adds its table.
LEMMA EditedFlush ==
    ASSUME NEW v \in Versions, NEW f \in FlushRecord
    PROVE  /\ Edited(v, FlushEdit(f)) = WithTables(v, f.level, {f.file})
           /\ WithTables(v, f.level, {f.file}) \in Versions
           /\ Files(WithTables(v, f.level, {f.file})) = Files(v) \cup {f.file}
<1>1. f.level \in Levels /\ {f.file} \in SUBSET Nat
  BY LevelNumbers DEF FlushRecord
<1>2. FlushEdit(f).del = {} /\ FlushEdit(f).add = Pairs(f.level, {f.file})
  BY DEF FlushEdit, Pairs
<1> QED BY <1>1, <1>2, EditedAdds

\* The edit Open writes adds what was recovered, at level 0.
LEMMA EditedOpen ==
    ASSUME NEW v \in Versions, recovered \in SUBSET Nat
    PROVE  /\ Edited(v, OpenEdit) = WithTables(v, 0, recovered)
           /\ WithTables(v, 0, recovered) \in Versions
           /\ Files(WithTables(v, 0, recovered)) = Files(v) \cup recovered
<1>1. 0 \in Levels /\ OpenEdit.del = {} /\ OpenEdit.add = Pairs(0, recovered)
  BY LevelNumbers DEF OpenEdit, Pairs
<1> QED BY <1>1, EditedAdds

\* The edit of a compaction puts its outputs in place of its inputs.
LEMMA EditedCompaction ==
    ASSUME NEW v \in Versions, NEW c \in CompRecord
    PROVE  /\ Edited(v, CompactEdit(c)) = WithOutputs(v, c)
           /\ WithOutputs(v, c) \in Versions
           /\ Files(WithOutputs(v, c)) \subseteq Files(v) \cup Outs(c)
           /\ Outs(c) \subseteq Nat
<1> DEFINE e == CompactEdit(c)
           D1 == Pairs(c.level, c.in0)
           D2 == Pairs(c.level + 1, c.in1)
           D == D1 \cup D2
           A == Pairs(c.level + 1, Outs(c))
<1>1. e.del = D /\ e.add = A
  BY DEF CompactEdit, Outs, Pairs
<1>2. c.level \in Nat /\ c.in0 \subseteq Nat /\ c.in1 \subseteq Nat /\ Outs(c) \subseteq Nat
  BY DEF CompRecord, Outs
<1>3. ASSUME NEW i \in Levels
      PROVE  (v[i] \ Numbers(D, i)) \cup Numbers(A, i)
               = IF i = c.level THEN v[i] \ c.in0
                 ELSE IF i = c.level + 1 THEN (v[i] \ c.in1) \cup Outs(c) ELSE v[i]
  <2> HIDE DEF e
  <2>1. i \in Nat
    BY LevelNumbers
  <2>2. Numbers(A, i) = IF i = c.level + 1 THEN Outs(c) ELSE {}
    BY Picked
  <2>3. Numbers(D, i) = Numbers(D1, i) \cup Numbers(D2, i)
    BY DEF Numbers
  <2>4. Numbers(D1, i) = IF i = c.level THEN c.in0 ELSE {}
    BY Picked
  <2>5. Numbers(D2, i) = IF i = c.level + 1 THEN c.in1 ELSE {}
    BY Picked
  <2> HIDE DEF D, A, D1, D2
  <2>6. CASE i = c.level
    BY <2>6, <2>2, <2>3, <2>4, <2>5, <1>2
  <2>7. CASE i = c.level + 1
    BY <2>7, <2>2, <2>3, <2>4, <2>5, <1>2
  <2>8. CASE i # c.level /\ i # c.level + 1
    BY <2>8, <2>2, <2>3, <2>4, <2>5
  <2> QED BY <2>6, <2>7, <2>8
<1> HIDE DEF e
<1>4. Edited(v, e) = WithOutputs(v, c)
  <2>1. Edited(v, e) = [i \in Levels |-> (v[i] \ Numbers(D, i)) \cup Numbers(A, i)]
    BY <1>1, EditedIs
  <2> HIDE DEF D, A
  <2> QED BY <2>1, <1>3 DEF WithOutputs
<1>5. WithOutputs(v, c) \in Versions
  BY <1>2 DEF WithOutputs, Versions
<1>6. Files(WithOutputs(v, c)) \subseteq Files(v) \cup Outs(c)
  <2> DEFINE w == WithOutputs(v, c)
  <2>1. \A n : n \in Files(w) <=> \E i \in Levels : n \in w[i]
    BY <1>5, FilesAre
  <2>2. \A i \in Levels : w[i] \subseteq v[i] \cup Outs(c)
    BY DEF WithOutputs
  <2>3. \A n : n \in Files(v) <=> \E i \in Levels : n \in v[i]
    BY FilesAre
  <2> HIDE DEF w
  <2>4. \A n \in Files(w) : n \in Files(v) \cup Outs(c)
    BY <2>1, <2>2, <2>3
  <2> QED BY <2>4 DEF w
<1> QED BY <1>2, <1>4, <1>5, <1>6 DEF e

\* A finite set of integers has a greatest element.
LEMMA GreatestIs ==
    ASSUME NEW S, S \subseteq Int, IsFiniteSet(S), S # {}
    PROVE  Max(S) \in S /\ \A y \in S : y <= Max(S)
<1> DEFINE Bad(k) == \E R \in SUBSET Int : /\ R # {} /\ IsFiniteSet(R) /\ Cardinality(R) = k
                                          /\ ~\E x \in R : \A y \in R : y <= x
           B == {k \in Nat : Bad(k)}
           Less == {ss \in Nat \X Nat : ss[1] < ss[2]}
<1>1. B = {}
  <2> SUFFICES ASSUME B # {} PROVE FALSE
    OBVIOUS
  <2>1. IsWellFoundedOn(Less, Nat)
    BY NatLessThanWellFounded DEF OpToRel
  <2> HIDE DEF Less
  <2>2. PICK k \in B : \A j \in B : <<j, k>> \notin Less
    BY <2>1, WFMin
  <2>3. PICK R \in SUBSET Int : /\ R # {} /\ IsFiniteSet(R) /\ Cardinality(R) = k
                                /\ ~\E x \in R : \A y \in R : y <= x
    OBVIOUS
  <2>4. PICK x \in R : TRUE
    BY <2>3
  <2>5. IsFiniteSet(R \ {x}) /\ Cardinality(R \ {x}) = k - 1 /\ k - 1 \in Nat
    <3>1. IsFiniteSet(R \ {x}) /\ Cardinality(R \ {x}) = Cardinality(R) - 1
      BY <2>3, FS_RemoveElement
    <3>2. Cardinality(R \ {x}) \in Nat
      BY <3>1, FS_CardinalityType
    <3> QED BY <3>1, <3>2, <2>3
  <2>6. R \ {x} # {}
    BY <2>3
  <2>7. k - 1 \notin B
    <3>1. k \in Nat /\ <<k - 1, k>> \in Less
      BY <2>5 DEF Less
    <3> HIDE DEF B
    <3> QED BY <2>2, <3>1
  <2>8. PICK z \in R \ {x} : \A y \in R \ {x} : y <= z
    BY <2>5, <2>6, <2>7
  <2>9. CASE z >= x
    BY <2>3, <2>8, <2>9
  <2>10. CASE z < x
    BY <2>3, <2>8, <2>10
  <2> QED BY <2>9, <2>10
<1>2. Cardinality(S) \in Nat
  BY FS_CardinalityType
<1>3. \E x \in S : \A y \in S : y <= x
  BY <1>1, <1>2
<1> QED BY <1>3 DEF Max

-----------------------------------------------------------------------------
(* The books: the shapes of the state, and which files exist *)

\* What CURRENT leads to.
Cur == manifests[current]

TypeInv ==
    /\ logs \in [DOMAIN logs -> Seq(SUBSET Entry)]
    /\ DOMAIN logs \subseteq Nat /\ IsFiniteSet(DOMAIN logs)
    /\ tables \in [DOMAIN tables -> SUBSET Entry] /\ DOMAIN tables \subseteq Nat
    /\ mems \in [DOMAIN mems -> SUBSET Entry]
    /\ current \in DOMAIN manifests /\ current \in Nat /\ Cur \in ManifestRecord
    /\ up \in {"down", "replayed", "written", "pointed", "open"}
    /\ mem \in Nat /\ imm \in Nat /\ logNumber \in Nat /\ nextFile \in Nat
    /\ lastSeq \in Nat /\ manifestFile \in Nat
    /\ version \in Versions /\ recovered \in SUBSET Nat
    /\ writing \in SUBSET Entry /\ IsFiniteSet(writing) /\ history \in SUBSET Entry
    /\ flush \in SUBSET FlushRecord /\ comp \in SUBSET CompRecord /\ views \in SUBSET ViewRecord
    /\ bgError \in BOOLEAN /\ crashes \in Nat /\ faults \in Nat

\* A manifest's counters are past the numbers it uses.
ManifestBooks(m, number, existing) ==
    /\ Files(m.version) \subseteq existing
    /\ \A n \in Files(m.version) : n < m.next
    /\ m.log < m.next /\ number < m.next

\* Before Open is done nobody works on the database.
Closed ==
    /\ up # "open" => ~bgError /\ imm = 0 /\ flush = {} /\ comp = {} /\ views = {} /\ writing = {}
    /\ up = "down" => version = NoFiles /\ recovered = {}

\* The steps of Open: the manifest it writes, and the numbers it has given.
NewManifest == [log |-> mem, next |-> nextFile, last |-> lastSeq, version |-> WithTables(version, 0, recovered)]
Opening ==
    /\ up \in {"replayed", "written"} =>
         manifestFile = Cur.next /\ version = Cur.version /\ logNumber = Cur.log
    /\ up = "written" => manifestFile \in DOMAIN manifests /\ manifests[manifestFile] = NewManifest
    /\ up = "pointed" => current = manifestFile /\ Cur = NewManifest
    /\ up \in {"replayed", "written", "pointed"} =>
         /\ recovered \subseteq DOMAIN tables /\ Files(version) \subseteq DOMAIN tables
         /\ \A n \in recovered \cup Files(version) : n < nextFile
         /\ mem \in DOMAIN logs /\ 0 < mem /\ mem < nextFile /\ manifestFile < nextFile
         /\ mem \in DOMAIN mems /\ mems[mem] = {} /\ logs[mem] = <<>>
         /\ \A n \in DOMAIN logs : n <= mem

\* The background thread: one flush and one compaction, the flush only before
\* or in between the entries of the compaction.
CompBooks(c, v, existing) ==
    /\ c.level \in Levels /\ c.level + 1 \in Levels
    /\ Files(c.version) \subseteq existing /\ c.outs \subseteq existing
    /\ c.in0 \subseteq v[c.level] /\ c.in1 \subseteq v[c.level + 1]
    /\ c.in0 \subseteq c.version[c.level] /\ c.in1 \subseteq c.version[c.level + 1]
    /\ c.logged => c.rest = {}
    /\ c.move => c.rest = {} /\ c.outs = {} /\ c.in1 = {} /\ \E n : c.in0 = {n}
Tasks ==
    /\ flush = {} \/ \E f : flush = {f}
    /\ comp = {} \/ \E c : comp = {c}
    /\ \A f \in flush : f.file \in DOMAIN tables /\ imm # 0
    /\ flush # {} => \A c \in comp : c.rest # {}
    /\ \A c \in comp : CompBooks(c, version, DOMAIN tables)

ViewBooks(w, existing, memtables, newest, last) ==
    /\ Files(w.version) \subseteq existing
    /\ w.mem \in memtables /\ w.mem <= newest /\ (w.imm # 0 => w.imm \in memtables /\ w.imm < w.mem)
    /\ w.seq <= last
Readers == \A w \in views : ViewBooks(w, DOMAIN tables, DOMAIN mems, mem, lastSeq)

\* What the manifest says of version v while a record is down that is not
\* installed.
Ahead(cv, v, flushes, comps) ==
    /\ \A f \in flushes : f.logged => cv = WithTables(v, f.level, {f.file})
    /\ \A c \in comps : c.logged => cv = WithOutputs(v, c)
    /\ (\A f \in flushes : ~f.logged) /\ (\A c \in comps : ~c.logged) => cv = v
Running ==
    up = "open" =>
      /\ current = manifestFile /\ manifestFile < nextFile /\ Cur.next <= nextFile
      /\ \A n \in DOMAIN tables : n < nextFile
      /\ mem \in DOMAIN logs /\ mem \in DOMAIN mems /\ 0 < mem /\ mem < nextFile
      /\ imm # 0 => imm \in DOMAIN logs /\ imm \in DOMAIN mems /\ imm < mem
      /\ logNumber = IF imm = 0 THEN mem ELSE imm
      /\ \A n \in DOMAIN logs : n < nextFile /\ (n >= logNumber => n = mem \/ n = imm)
      /\ Cur.log = logNumber \/ Cur.log = mem
      /\ Files(version) \subseteq DOMAIN tables
      /\ ~bgError => Ahead(Cur.version, version, flush, comp)
      /\ \A f \in flush : f.logged => Cur.log = mem

Books ==
    /\ TypeInv /\ ManifestBooks(Cur, current, DOMAIN tables) /\ Closed /\ Opening /\ Tasks /\ Readers
    /\ Running /\ (faults = 0 => ~bgError)

\* A database without files.
LEMMA NothingIs == DOMAIN Nothing = {} /\ Nothing \in [{} -> SUBSET Entry]
                   /\ Nothing \in [{} -> Seq(SUBSET Entry)]
BY DEF Nothing

\* A version without tables.
LEMMA NoFilesIs == NoFiles \in Versions /\ Files(NoFiles) = {} /\ \A l \in Levels : NoFiles[l] = {}
<1>1. NoFiles \in Versions /\ \A l \in Levels : NoFiles[l] = {}
  BY DEF NoFiles, Versions
<1> QED BY <1>1, FilesAre

\* The files once one more is created.
LEMMA CreatedIs ==
    ASSUME NEW f, NEW n, NEW x
    PROVE  /\ DOMAIN Created(f, n, x) = DOMAIN f \cup {n}
           /\ Created(f, n, x)[n] = x
           /\ \A m \in DOMAIN f : m # n => Created(f, n, x)[m] = f[m]
BY DEF Created

\* They have the type of the new one and of the others.
LEMMA CreatedTyped ==
    ASSUME NEW f, NEW n, NEW S, NEW x \in S, \A m \in DOMAIN f : f[m] \in S
    PROVE  Created(f, n, x) \in [DOMAIN f \cup {n} -> S]
BY DEF Created

\* The files that are left when the others are deleted,
LEMMA Restricted ==
    ASSUME NEW f, NEW S, S \subseteq DOMAIN f
    PROVE  DOMAIN Restrict(f, S) = S /\ \A x \in S : Restrict(f, S)[x] = f[x]
BY DEF Restrict

\* and their type.
LEMMA RestrictedTyped ==
    ASSUME NEW f, NEW S, NEW R, S \subseteq DOMAIN f, \A x \in DOMAIN f : f[x] \in R
    PROVE  Restrict(f, S) \in [S -> R]
BY DEF Restrict

\* A new database's books are right.
LEMMA InitialBooks == LevelDBInit => Books
<1> SUFFICES ASSUME LevelDBInit PROVE Books
  OBVIOUS
<1> USE DEF LevelDBInit, VolatileInit
<1> DEFINE m == [log |-> 0, next |-> 2, last |-> 0, version |-> NoFiles]
<1>1. current = 1 /\ DOMAIN manifests = {1} /\ Cur = m
  BY DEF Cur
<1>2. m \in ManifestRecord
  BY NoFilesIs DEF ManifestRecord
<1>3. IsFiniteSet({})
  BY FS_EmptySet
<1>4. TypeInv
  <2>1. /\ logs \in [DOMAIN logs -> Seq(SUBSET Entry)] /\ DOMAIN logs = {}
        /\ tables \in [DOMAIN tables -> SUBSET Entry] /\ DOMAIN tables = {}
        /\ mems \in [DOMAIN mems -> SUBSET Entry]
    BY NothingIs
  <2>2. /\ current \in DOMAIN manifests /\ current \in Nat /\ Cur \in ManifestRecord
    BY <1>1, <1>2
  <2> QED BY <2>1, <2>2, <1>3, NoFilesIs DEF TypeInv
<1>5. ManifestBooks(Cur, current, DOMAIN tables)
  BY <1>1, NothingIs, NoFilesIs DEF ManifestBooks
<1>6. Closed /\ Opening /\ Tasks /\ Readers /\ Running
  BY DEF Closed, Opening, Tasks, Readers, Running
<1> QED BY <1>4, <1>5, <1>6 DEF Books

\* GetOverlappingInputs on level 0: the least set that no table outside meets.
Meets(v, R, S) == {n \in v[0] : Overlaps(n, R \cup Content(S))}

\* The wider the range, the more tables meet it.
LEMMA MeetsGrows ==
    ASSUME NEW v, NEW R, NEW S, NEW T, S \subseteq T
    PROVE  Meets(v, R, S) \subseteq Meets(v, R, T)
<1>1. R \cup Content(S) \subseteq R \cup Content(T)
  BY DEF Content
<1>2. \A n, A, B : A \subseteq B /\ Overlaps(n, A) => Overlaps(n, B)
  BY DEF Overlaps
<1> QED BY <1>1, <1>2 DEF Meets

\* There is a least closed set, and it is the one chosen.
LEMMA OverlappingAtZero ==
    ASSUME NEW v, NEW R
    PROVE  LET S == Overlapping(v, 0, R)
           IN  /\ S \subseteq v[0] /\ S = Meets(v, R, S)
               /\ \A T \in SUBSET v[0] : Meets(v, R, T) \subseteq T => S \subseteq T
<1> DEFINE Least == {n \in v[0] : \A T \in SUBSET v[0] : Meets(v, R, T) \subseteq T => n \in T}
<1>1. \A T \in SUBSET v[0] : Meets(v, R, T) \subseteq T => Least \subseteq T
  OBVIOUS
<1>2. Meets(v, R, Least) \subseteq Least
  <2>1. \A T \in SUBSET v[0] : Meets(v, R, T) \subseteq T => Meets(v, R, Least) \subseteq T
    BY <1>1, MeetsGrows
  <2>2. Meets(v, R, Least) \subseteq v[0]
    BY DEF Meets
  <2> QED BY <2>1, <2>2
<1>3. Least \subseteq Meets(v, R, Least)
  <2>1. Meets(v, R, Meets(v, R, Least)) \subseteq Meets(v, R, Least)
    BY <1>2, MeetsGrows
  <2>2. Meets(v, R, Least) \in SUBSET v[0]
    BY DEF Meets
  <2> HIDE DEF Least
  <2> QED BY <1>1, <2>1, <2>2
<1>4. /\ Least \in SUBSET v[0] /\ Least = Meets(v, R, Least)
      /\ \A T \in SUBSET v[0] : T = Meets(v, R, T) => Least \subseteq T
  BY <1>1, <1>2, <1>3
<1> HIDE DEF Least
<1>5. Overlapping(v, 0, R) = CHOOSE S \in SUBSET v[0] :
         S = Meets(v, R, S) /\ \A T \in SUBSET v[0] : T = Meets(v, R, T) => S \subseteq T
  BY DEF Overlapping, Meets
<1>6. LET S == Overlapping(v, 0, R)
      IN  S \subseteq v[0] /\ S = Meets(v, R, S) /\ S \subseteq Least
  BY <1>4, <1>5
<1> QED BY <1>1, <1>6

\* The tables found are of the level.
LEMMA OverlappingIn ==
    ASSUME NEW v, NEW l \in Nat, NEW R
    PROVE  Overlapping(v, l, R) \subseteq v[l]
<1>1. CASE l > 0
  BY <1>1 DEF Overlapping
<1>2. CASE l = 0
  BY <1>2, OverlappingAtZero
<1> QED BY <1>1, <1>2

\* PickLevelForMemTableOutput picks one of the first levels.
LEMMA PickedLevel ==
    ASSUME NEW v, NEW R, NEW l \in PickLevels(v, R)
    PROVE  l \in 0..MaxMemCompactLevel
BY LevelsAssumption DEF PickLevels

-----------------------------------------------------------------------------
(* Writers keep the books *)

\* A compaction's files are there still when there are more.
LEMMA MoreExist ==
    ASSUME NEW c, NEW v, NEW X, NEW Y, X \subseteq Y, CompBooks(c, v, X)
    PROVE  CompBooks(c, v, Y)
BY DEF CompBooks

\* A batch becomes entries, finitely many.
LEMMA EntriesAre ==
    ASSUME NEW b \in Batches, lastSeq \in Nat, lastSeq + Len(b) <= MaxSeq
    PROVE  /\ Entries(b) \subseteq Entry /\ IsFiniteSet(Entries(b))
           /\ b \in Seq([key : Int, del : BOOLEAN])
<1>1. b \in Seq([key : Int, del : BOOLEAN]) /\ DOMAIN b = 1..Len(b) /\ Len(b) \in Nat
  BY LevelsAssumption
<1>2. ASSUME NEW i \in DOMAIN b
      PROVE  [key |-> b[i].key, seq |-> lastSeq + i, del |-> b[i].del] \in Entry
  <2> DEFINE S == [key : Int, del : BOOLEAN]
  <2>1. b[i] \in S
    <3>1. b \in Seq(S) /\ i \in 1..Len(b)
      BY <1>1
    <3> HIDE DEF S
    <3> QED BY <3>1, ElementOfSeq
  <2>2. b[i].key \in UserKeys /\ b[i].del \in BOOLEAN
    BY <2>1 DEF UserKeys
  <2>3. lastSeq + i \in 1..MaxSeq
    BY <1>1, LevelsAssumption
  <2> QED BY <2>2, <2>3 DEF Entry
<1>3. IsFiniteSet(DOMAIN b)
  BY <1>1, FS_Interval
<1>4. IsFiniteSet(Entries(b))
  <2> DEFINE f == [i \in DOMAIN b |-> [key |-> b[i].key, seq |-> lastSeq + i, del |-> b[i].del]]
  <2>1. f \in Surjection(DOMAIN b, Entries(b))
    BY DEF Surjection, Entries
  <2> HIDE DEF f
  <2> QED BY <1>3, <2>1, FS_Surjection
<1> QED BY <1>1, <1>2, <1>4 DEF Entries

\* A new memtable and its log take a new number.
LEMMA SwitchMemBooks == ASSUME Books, SwitchMem PROVE Books'
<1> USE DEF SwitchMem, books
<1>1. up = "open" /\ imm = 0 /\ flush = {}
  BY DEF Books, Tasks
<1>2. /\ mem \in DOMAIN logs /\ mem \in DOMAIN mems /\ 0 < mem /\ mem < nextFile /\ logNumber = mem
      /\ \A n \in DOMAIN logs : n < nextFile /\ (n >= logNumber => n = mem)
      /\ nextFile \in Nat /\ mem \in Nat /\ Cur.next \in Nat /\ Cur.log = mem
  BY <1>1 DEF Books, Running, TypeInv, ManifestRecord
<1>3. /\ DOMAIN logs' = DOMAIN logs \cup {nextFile} /\ DOMAIN mems' = DOMAIN mems \cup {nextFile}
      /\ logs' \in [DOMAIN logs' -> Seq(SUBSET Entry)] /\ mems' \in [DOMAIN mems' -> SUBSET Entry]
  <2>1. \A n \in DOMAIN logs : logs[n] \in Seq(SUBSET Entry)
    BY DEF Books, TypeInv
  <2>2. \A n \in DOMAIN mems : mems[n] \in SUBSET Entry
    BY DEF Books, TypeInv
  <2>3. <<>> \in Seq(SUBSET Entry) /\ {} \in SUBSET Entry
    OBVIOUS
  <2>4. DOMAIN logs' = DOMAIN logs \cup {nextFile} /\ logs' \in [DOMAIN logs \cup {nextFile} -> Seq(SUBSET Entry)]
    BY <2>1, <2>3, CreatedIs DEF Created
  <2>5. DOMAIN mems' = DOMAIN mems \cup {nextFile} /\ mems' \in [DOMAIN mems \cup {nextFile} -> SUBSET Entry]
    BY <2>2, <2>3, CreatedIs DEF Created
  <2> QED BY <2>4, <2>5
<1>4. TypeInv'
  <2>1. IsFiniteSet(DOMAIN logs')
    <3>1. IsFiniteSet(DOMAIN logs)
      BY DEF Books, TypeInv
    <3>2. IsFiniteSet(DOMAIN logs \cup {nextFile})
      BY <3>1, FS_AddElement
    <3> QED BY <1>3, <3>2
  <2> QED BY <1>2, <1>3, <2>1 DEF Books, TypeInv, Cur
<1>5. ManifestBooks(Cur, current, DOMAIN tables)' /\ Closed' /\ Opening' /\ (faults = 0 => ~bgError)'
  BY <1>1 DEF Books, Closed, Opening, Cur
<1>6. Tasks'
  BY <1>1 DEF Books, Tasks
<1>7. Readers'
  <2>1. ASSUME NEW w \in views PROVE ViewBooks(w, DOMAIN tables, DOMAIN mems', nextFile, lastSeq)
    <3>1. ViewBooks(w, DOMAIN tables, DOMAIN mems, mem, lastSeq) /\ w.mem \in Nat
      BY DEF Books, Readers, TypeInv, ViewRecord
    <3> QED BY <3>1, <1>2, <1>3 DEF ViewBooks
  <2> QED BY <2>1 DEF Readers
<1>8. Running'
  <2>1. mem' = nextFile /\ imm' = mem /\ nextFile' = nextFile + 1 /\ logNumber' = mem
    BY <1>2
  <2>2. \A n \in DOMAIN logs' : n < nextFile' /\ (n >= logNumber' => n = mem' \/ n = imm')
    BY <1>2, <1>3, <2>1 DEF Books, TypeInv
  <2>3. \A n \in DOMAIN tables : n < nextFile + 1
    BY <1>1, <1>2 DEF Books, TypeInv, Running
  <2>4. (~bgError => Ahead(Cur.version, version, flush, comp))'
    BY <1>1 DEF Books, Running, Cur
  <2>5. Cur' = Cur /\ Cur.next <= nextFile + 1 /\ current = manifestFile /\ manifestFile < nextFile + 1
    BY <1>1, <1>2 DEF Books, Running, Cur, TypeInv
  <2>6. Files(version) \subseteq DOMAIN tables
    BY <1>1 DEF Books, Running
  <2>7. mem' \in DOMAIN logs' /\ mem' \in DOMAIN mems' /\ imm' \in DOMAIN logs' /\ imm' \in DOMAIN mems'
    BY <1>2, <1>3, <2>1
  <2> QED BY <1>1, <1>2, <2>1, <2>2, <2>3, <2>4, <2>5, <2>6, <2>7 DEF Running
<1> QED BY <1>4, <1>5, <1>6, <1>7, <1>8 DEF Books

\* A record added to the log in use.
LEMMA WriteLogBooks == ASSUME Books, NEW b \in Batches, WriteLog(b) PROVE Books'
<1> USE DEF WriteLog, books
<1>1. up = "open" /\ mem \in DOMAIN logs
  BY DEF Books, Running
<1>2. Entries(b) \subseteq Entry /\ IsFiniteSet(Entries(b))
  BY EntriesAre DEF Books, TypeInv
<1>3. TypeInv'
  <2>1. Append(logs[mem], Entries(b)) \in Seq(SUBSET Entry)
    BY <1>1, <1>2 DEF Books, TypeInv
  <2>2. logs' \in [DOMAIN logs' -> Seq(SUBSET Entry)] /\ DOMAIN logs' = DOMAIN logs
    BY <1>1, <2>1 DEF Books, TypeInv
  <2>3. history' \in SUBSET Entry /\ writing' \in SUBSET Entry /\ IsFiniteSet(writing')
    BY <1>2 DEF Books, TypeInv
  <2> QED BY <2>2, <2>3 DEF Books, TypeInv, Cur
<1>4. Closed' /\ Opening'
  BY <1>1 DEF Books, Closed, Opening
<1>5. ManifestBooks(Cur, current, DOMAIN tables)' /\ Tasks' /\ Readers' /\ (faults = 0 => ~bgError)'
  BY DEF Books, Tasks, Readers, Cur
<1>6. Running'
  <2>1. DOMAIN logs' = DOMAIN logs
    OBVIOUS
  <2> QED BY <2>1 DEF Books, Running, Cur
<1> QED BY <1>3, <1>4, <1>5, <1>6 DEF Books

\* An entry added to the memtable.
LEMMA WriteInsertBooks == ASSUME Books, WriteInsert PROVE Books'
<1> USE DEF WriteInsert, books, disk
<1>1. up = "open" /\ mem \in DOMAIN mems
  BY DEF Books, Running, Closed
<1>2. PICK e \in writing \ mems[mem] : mems' = [mems EXCEPT ![mem] = @ \cup {e}]
  OBVIOUS
<1>3. DOMAIN mems' = DOMAIN mems /\ mems' \in [DOMAIN mems' -> SUBSET Entry]
  <2>1. mems[mem] \cup {e} \in SUBSET Entry
    BY <1>1 DEF Books, TypeInv
  <2> QED BY <1>2, <2>1 DEF Books, TypeInv
<1>4. TypeInv'
  BY <1>3 DEF Books, TypeInv, Cur
<1>5. Closed' /\ Opening'
  BY <1>1 DEF Books, Closed, Opening
<1>6. ManifestBooks(Cur, current, DOMAIN tables)' /\ Tasks' /\ Readers' /\ (faults = 0 => ~bgError)'
  BY <1>3 DEF Books, Tasks, Readers, Cur
<1>7. Running'
  BY <1>3 DEF Books, Running, Cur
<1> QED BY <1>4, <1>5, <1>6, <1>7 DEF Books

\* The last sequence number grows.
LEMMA WritePublishBooks == ASSUME Books, WritePublish PROVE Books'
<1> USE DEF WritePublish, books, disk
<1>1. up = "open"
  BY DEF Books, Closed
<1>2. lastSeq' \in Nat /\ lastSeq \in Nat /\ lastSeq <= lastSeq' /\ IsFiniteSet({})
  BY FS_CardinalityType, FS_EmptySet DEF Books, TypeInv
<1>3. TypeInv'
  BY <1>2 DEF Books, TypeInv, Cur
<1>4. Closed' /\ Opening'
  BY <1>1 DEF Books, Closed, Opening
<1>5. ManifestBooks(Cur, current, DOMAIN tables)' /\ Tasks' /\ (faults = 0 => ~bgError)'
  BY DEF Books, Tasks, Cur
<1>6. Readers'
  <2>1. ASSUME NEW w \in views PROVE ViewBooks(w, DOMAIN tables, DOMAIN mems, mem, lastSeq')
    <3>1. ViewBooks(w, DOMAIN tables, DOMAIN mems, mem, lastSeq) /\ w.seq \in Nat
      BY DEF Books, Readers, TypeInv, ViewRecord
    <3> QED BY <3>1, <1>2 DEF ViewBooks
  <2> QED BY <2>1 DEF Readers
<1>7. Running'
  BY DEF Books, Running, Cur
<1> QED BY <1>3, <1>4, <1>5, <1>6, <1>7 DEF Books

-----------------------------------------------------------------------------
(* Deleting files, and readers *)

\* DeleteObsoleteFiles leaves what is live as it is.
LEMMA CollectIs ==
    ASSUME NEW v, NEW ln, NEW c, TypeInv, current = manifestFile, Collect(v, ln, c)
    PROVE  /\ DOMAIN tables' \subseteq DOMAIN tables /\ tables' \in [DOMAIN tables' -> SUBSET Entry]
           /\ \A n \in DOMAIN tables' : tables'[n] = tables[n]
           /\ DOMAIN tables \cap Live(v, c) \subseteq DOMAIN tables'
           /\ DOMAIN logs' \subseteq DOMAIN logs /\ logs' \in [DOMAIN logs' -> Seq(SUBSET Entry)]
           /\ IsFiniteSet(DOMAIN logs')
           /\ \A n \in DOMAIN logs' : logs'[n] = logs[n] /\ (~bgError => n >= ln)
           /\ \A n \in DOMAIN logs : n >= ln => n \in DOMAIN logs'
           /\ current \in DOMAIN manifests' /\ manifests'[current] = Cur
           /\ bgError => tables' = tables /\ logs' = logs
<1>1. CASE bgError
  BY <1>1 DEF Collect, TypeInv, Cur
<1>2. CASE ~bgError
  <2> DEFINE L == {n \in DOMAIN logs : n >= ln}
             T == DOMAIN tables \cap Live(v, c)
             M == {n \in DOMAIN manifests : n >= manifestFile}
  <2>1. logs' = Restrict(logs, L) /\ tables' = Restrict(tables, T) /\ manifests' = Restrict(manifests, M)
    BY <1>2 DEF Collect
  <2>2. L \subseteq DOMAIN logs /\ T \subseteq DOMAIN tables /\ M \subseteq DOMAIN manifests
    OBVIOUS
  <2>3. /\ \A n \in DOMAIN logs : logs[n] \in Seq(SUBSET Entry)
        /\ \A n \in DOMAIN tables : tables[n] \in SUBSET Entry
    BY DEF TypeInv
  <2>4. current \in M
    BY DEF TypeInv
  <2>5. IsFiniteSet(L)
    BY <2>2, FS_Subset DEF TypeInv
  <2> HIDE DEF T, M
  <2>6. DOMAIN logs' = L /\ \A n \in L : logs'[n] = logs[n]
    BY <2>1, <2>2, Restricted
  <2>7. logs' \in [L -> Seq(SUBSET Entry)]
    BY <2>1, <2>2, <2>3 DEF Restrict
  <2>8. DOMAIN tables' = T /\ \A n \in T : tables'[n] = tables[n]
    BY <2>1, <2>2, Restricted
  <2>9. tables' \in [T -> SUBSET Entry]
    BY <2>1, <2>2, <2>3 DEF Restrict
  <2>10. DOMAIN manifests' = M /\ \A n \in M : manifests'[n] = manifests[n]
    BY <2>1, <2>2, Restricted
  <2>11. IsFiniteSet(DOMAIN logs')
    BY <2>5, <2>6
  <2>12. \A n \in DOMAIN logs' : logs'[n] = logs[n] /\ (~bgError => n >= ln)
    BY <2>6
  <2>13. \A n \in DOMAIN logs : n >= ln => n \in DOMAIN logs'
    BY <2>6
  <2>14. DOMAIN logs' \subseteq DOMAIN logs /\ logs' \in [DOMAIN logs' -> Seq(SUBSET Entry)]
    BY <2>2, <2>6, <2>7
  <2> QED BY <1>2, <2>2, <2>4, <2>8, <2>9, <2>10, <2>11, <2>12, <2>13, <2>14 DEF Cur, T
<1> QED BY <1>1, <1>2

\* The memtables kept hold what they held.
LEMMA PinnedIs ==
    ASSUME NEW N, NEW V, TypeInv
    PROVE  /\ DOMAIN Pinned(N, V) \subseteq DOMAIN mems
           /\ Pinned(N, V) \in [DOMAIN Pinned(N, V) -> SUBSET Entry]
           /\ \A n \in DOMAIN Pinned(N, V) : Pinned(N, V)[n] = mems[n]
           /\ \A n \in DOMAIN mems \cap N : n \in DOMAIN Pinned(N, V)
           /\ \A w \in V, n \in DOMAIN mems : n \in {w.mem, w.imm} => n \in DOMAIN Pinned(N, V)
<1> DEFINE S == DOMAIN mems \cap (N \cup UNION {{w.mem, w.imm} : w \in V})
<1>1. Pinned(N, V) = Restrict(mems, S) /\ S \subseteq DOMAIN mems
  BY DEF Pinned
<1>2. \A n \in DOMAIN mems : mems[n] \in SUBSET Entry
  BY DEF TypeInv
<1>3. \A n \in DOMAIN mems \cap N : n \in S
  OBVIOUS
<1>4. \A w \in V, n \in DOMAIN mems : n \in {w.mem, w.imm} => n \in S
  OBVIOUS
<1> HIDE DEF S
<1>5. DOMAIN Pinned(N, V) = S /\ \A n \in S : Pinned(N, V)[n] = mems[n]
  BY <1>1, Restricted
<1>6. Pinned(N, V) \in [S -> SUBSET Entry]
  BY <1>1, <1>2 DEF Restrict
<1> QED BY <1>1, <1>3, <1>4, <1>5, <1>6

\* A record of the manifest in use.
LEMMA RecordIs ==
    ASSUME NEW e, TypeInv, current = manifestFile, Record(e), UNCHANGED current
    PROVE  /\ current' \in DOMAIN manifests'
           /\ Cur' = [log |-> e.log, next |-> nextFile, last |-> lastSeq, version |-> Edited(Cur.version, e)]
BY DEF Record, TypeInv, Cur

\* A reader holds what is in use.
LEMMA OpenViewBooks == ASSUME Books, OpenView PROVE Books'
<1> USE DEF OpenView, books, disk
<1> DEFINE r == [seq |-> lastSeq, mem |-> mem, imm |-> imm, version |-> version]
<1>1. up = "open"
  OBVIOUS
<1>2. r \in ViewRecord
  BY DEF Books, TypeInv, ViewRecord
<1>3. TypeInv'
  BY <1>2 DEF Books, TypeInv, Cur
<1>4. Closed' /\ Opening'
  BY <1>1 DEF Books, Closed, Opening
<1>5. ManifestBooks(Cur, current, DOMAIN tables)' /\ Tasks' /\ (faults = 0 => ~bgError)'
  BY DEF Books, Tasks, Cur
<1>6. Readers'
  <2>1. ViewBooks(r, DOMAIN tables, DOMAIN mems, mem, lastSeq)
    BY <1>1 DEF Books, Running, ViewBooks, TypeInv
  <2>2. \A w \in views' : w \in views \/ w = r
    OBVIOUS
  <2> HIDE DEF r
  <2> QED BY <2>1, <2>2 DEF Books, Readers
<1>7. Running'
  BY DEF Books, Running, Cur
<1> QED BY <1>3, <1>4, <1>5, <1>6, <1>7 DEF Books

\* What other readers hold stays.
LEMMA CloseViewBooks == ASSUME Books, NEW w \in views, CloseView(w) PROVE Books'
<1> USE DEF CloseView, books, disk
<1>1. up = "open"
  BY DEF Books, Closed
<1>2. mems' = Pinned({mem, imm}, views') /\ views' = views \ {w}
  OBVIOUS
<1>3. /\ DOMAIN mems' \subseteq DOMAIN mems /\ mems' \in [DOMAIN mems' -> SUBSET Entry]
      /\ \A n \in DOMAIN mems : n \in {mem, imm} => n \in DOMAIN mems'
      /\ \A x \in views', n \in DOMAIN mems : n \in {x.mem, x.imm} => n \in DOMAIN mems'
  <2>1. TypeInv
    BY DEF Books
  <2> DEFINE V == views'
             N == {mem, imm}
  <2>2. mems' = Pinned(N, V)
    BY <1>2
  <2> HIDE DEF V, N
  <2>3. /\ DOMAIN Pinned(N, V) \subseteq DOMAIN mems
        /\ Pinned(N, V) \in [DOMAIN Pinned(N, V) -> SUBSET Entry]
        /\ \A n \in DOMAIN mems \cap N : n \in DOMAIN Pinned(N, V)
        /\ \A w_1 \in V, n \in DOMAIN mems : n \in {w_1.mem, w_1.imm} => n \in DOMAIN Pinned(N, V)
    BY <2>1, PinnedIs
  <2> QED BY <2>2, <2>3 DEF V, N
<1>4. TypeInv'
  BY <1>3 DEF Books, TypeInv, Cur
<1>5. Closed' /\ Opening'
  BY <1>1 DEF Books, Closed, Opening
<1>6. ManifestBooks(Cur, current, DOMAIN tables)' /\ Tasks' /\ (faults = 0 => ~bgError)'
  BY DEF Books, Tasks, Cur
<1>7. Readers'
  <2>1. ASSUME NEW x \in views' PROVE ViewBooks(x, DOMAIN tables, DOMAIN mems', mem, lastSeq)
    BY <1>2, <1>3 DEF Books, Readers, ViewBooks
  <2> QED BY <2>1 DEF Readers
<1>8. Running'
  BY <1>3 DEF Books, Running, Cur
<1> QED BY <1>4, <1>5, <1>6, <1>7, <1>8 DEF Books

-----------------------------------------------------------------------------
(* Flushes keep the books *)

\* A new table changes no one else's books.
LEMMA TableAdded ==
    ASSUME Books, up = "open", NEW x \in SUBSET Entry,
           tables' = Created(tables, nextFile, x), nextFile' = nextFile + 1
    PROVE  /\ DOMAIN tables' = DOMAIN tables \cup {nextFile} /\ tables' \in [DOMAIN tables' -> SUBSET Entry]
           /\ DOMAIN tables' \subseteq Nat /\ \A n \in DOMAIN tables' : n < nextFile'
           /\ nextFile \in Nat /\ nextFile' \in Nat /\ nextFile \notin DOMAIN tables
           /\ tables'[nextFile] = x /\ \A n \in DOMAIN tables : tables'[n] = tables[n]
<1>1. /\ nextFile \in Nat /\ DOMAIN tables \subseteq Nat
      /\ \A n \in DOMAIN tables : n < nextFile /\ tables[n] \in SUBSET Entry
  BY DEF Books, TypeInv, Running
<1>2. DOMAIN tables' = DOMAIN tables \cup {nextFile}
  BY CreatedIs
<1>3. tables' \in [DOMAIN tables \cup {nextFile} -> SUBSET Entry]
  BY <1>1 DEF Created
<1>4. tables'[nextFile] = x /\ \A n \in DOMAIN tables : n # nextFile => tables'[n] = tables[n]
  <2> DEFINE T == Created(tables, nextFile, x)
  <2>1. T[nextFile] = x /\ \A n \in DOMAIN tables : n # nextFile => T[n] = tables[n]
    BY DEF Created
  <2>2. tables' = T
    OBVIOUS
  <2> HIDE DEF T
  <2> QED BY <2>1, <2>2
<1>5. nextFile \notin DOMAIN tables
  BY <1>1
<1>6. \A n \in DOMAIN tables' : n < nextFile'
  BY <1>1, <1>2
<1> QED BY <1>1, <1>2, <1>3, <1>4, <1>5, <1>6

\* The memtable's table takes a new number.
LEMMA FlushBuildBooks == ASSUME Books, FlushBuild PROVE Books'
<1> USE DEF FlushBuild, books
<1>1. up = "open" /\ imm # 0 /\ flush = {} /\ (comp = {} \/ \E c \in comp : c.rest # {})
  BY DEF FlushTurn
<1>2. PICK l \in PickLevels(version, mems[imm]) :
        flush' = {[file |-> nextFile, level |-> l, logged |-> FALSE]}
  OBVIOUS
<1>3. l \in 0..MaxMemCompactLevel
  BY PickedLevel
<1>4. mems[imm] \in SUBSET Entry
  BY <1>1 DEF Books, TypeInv, Running
<1>5. /\ DOMAIN tables' = DOMAIN tables \cup {nextFile} /\ tables' \in [DOMAIN tables' -> SUBSET Entry]
      /\ DOMAIN tables' \subseteq Nat /\ \A n \in DOMAIN tables' : n < nextFile'
      /\ nextFile \in Nat /\ nextFile' \in Nat
  BY <1>1, <1>4, TableAdded
<1> DEFINE r == [file |-> nextFile, level |-> l, logged |-> FALSE]
<1>6. r \in FlushRecord
  BY <1>3, <1>5 DEF FlushRecord
<1>7. TypeInv'
  BY <1>2, <1>5, <1>6 DEF Books, TypeInv, Cur
<1>8. ManifestBooks(Cur, current, DOMAIN tables)' /\ Closed' /\ Opening' /\ (faults = 0 => ~bgError)'
  BY <1>1, <1>5 DEF Books, Closed, Opening, Cur, ManifestBooks
<1>9. Tasks'
  <2>1. \A c \in comp : c.rest # {}
    BY <1>1 DEF Books, Tasks
  <2>2. \A c \in comp : CompBooks(c, version, DOMAIN tables')
    BY <1>5, MoreExist DEF Books, Tasks
  <2>3. \A f \in flush' : f.file \in DOMAIN tables' /\ imm # 0
    BY <1>1, <1>2, <1>5
  <2>4. flush' = {r}
    BY <1>2
  <2> HIDE DEF r
  <2>5. \E f : flush' = {f}
    BY <2>4
  <2> QED BY <2>1, <2>2, <2>3, <2>5 DEF Books, Tasks
<1>10. Readers'
  BY <1>5 DEF Books, Readers, ViewBooks
<1>11. Running'
  <2>1. current = manifestFile /\ manifestFile < nextFile /\ Cur.next <= nextFile /\ Cur' = Cur
    BY <1>1 DEF Books, Running, Cur
  <2>2. manifestFile < nextFile' /\ Cur.next <= nextFile'
    BY <2>1, <1>5 DEF Books, TypeInv, ManifestRecord
  <2>3. mem \in DOMAIN logs /\ mem \in DOMAIN mems /\ 0 < mem /\ mem < nextFile'
    BY <1>1, <1>5 DEF Books, Running, TypeInv
  <2>4. \A n \in DOMAIN logs : n < nextFile' /\ (n >= logNumber => n = mem \/ n = imm)
    BY <1>1, <1>5 DEF Books, Running, TypeInv
  <2>5. \A f \in flush' : ~f.logged
    BY <1>2
  <2>6. ~bgError => Ahead(Cur.version, version, flush', comp)
    BY <1>1, <2>5 DEF Books, Running, Ahead
  <2>7. Files(version) \subseteq DOMAIN tables'
    BY <1>1, <1>5 DEF Books, Running
  <2> QED BY <1>1, <1>5, <2>1, <2>2, <2>3, <2>4, <2>5, <2>6, <2>7 DEF Books, Running
<1> QED BY <1>7, <1>8, <1>9, <1>10, <1>11 DEF Books

\* The manifest in use gets a record with version v and log number ln.
LEMMA RecordBooks ==
    ASSUME Books, up = "open", NEW e, Record(e), UNCHANGED <<current, nextFile, lastSeq>>,
           Edited(Cur.version, e) \in Versions, e.log \in Nat, e.log < nextFile,
           Files(Edited(Cur.version, e)) \subseteq DOMAIN tables
    PROVE  /\ current' \in DOMAIN manifests' /\ Cur' \in ManifestRecord
           /\ ManifestBooks(Cur', current, DOMAIN tables)
           /\ Cur' = [log |-> e.log, next |-> nextFile, last |-> lastSeq, version |-> Edited(Cur.version, e)]
<1>1. current = manifestFile /\ manifestFile < nextFile /\ TypeInv
  BY DEF Books, Running
<1>2. current' \in DOMAIN manifests'
        /\ Cur' = [log |-> e.log, next |-> nextFile, last |-> lastSeq, version |-> Edited(Cur.version, e)]
  BY <1>1, RecordIs
<1>3. Cur' \in ManifestRecord
  BY <1>1, <1>2 DEF ManifestRecord, TypeInv
<1>4. \A n \in Files(Edited(Cur.version, e)) : n < nextFile
  BY DEF Books, Running
<1> QED BY <1>1, <1>2, <1>3, <1>4 DEF ManifestBooks

\* The record of a flush.
LEMMA FlushRecorded ==
    ASSUME Books, up = "open", NEW f \in flush, Record(FlushEdit(f)), UNCHANGED <<current, nextFile, lastSeq>>
    PROVE  /\ current' \in DOMAIN manifests' /\ Cur' \in ManifestRecord
           /\ ManifestBooks(Cur', current, DOMAIN tables)
           /\ Cur' = [log |-> mem, next |-> nextFile, last |-> lastSeq,
                      version |-> WithTables(Cur.version, f.level, {f.file})]
<1>1. /\ f \in FlushRecord /\ Cur.version \in Versions /\ mem \in Nat /\ mem < nextFile
      /\ f.file \in DOMAIN tables /\ Files(Cur.version) \subseteq DOMAIN tables
  BY DEF Books, TypeInv, Running, ManifestBooks, Tasks, ManifestRecord
<1>2. /\ Edited(Cur.version, FlushEdit(f)) = WithTables(Cur.version, f.level, {f.file})
      /\ WithTables(Cur.version, f.level, {f.file}) \in Versions
      /\ Files(WithTables(Cur.version, f.level, {f.file})) = Files(Cur.version) \cup {f.file}
  BY <1>1, EditedFlush
<1>3. FlushEdit(f).log = mem
  BY DEF FlushEdit
<1> QED BY <1>1, <1>2, <1>3, RecordBooks

\* The flush's record names a table that exists and the log in use.
LEMMA FlushLogBooks == ASSUME Books, FlushLog PROVE Books'
<1> USE DEF FlushLog, books
<1>1. PICK f \in flush : ~f.logged /\ flush' = {[f EXCEPT !.logged = TRUE]} /\ Record(FlushEdit(f))
  OBVIOUS
<1>2. /\ up = "open" /\ flush = {f} /\ f \in FlushRecord /\ imm # 0 /\ f.file \in DOMAIN tables
      /\ \A c \in comp : c.rest # {} /\ ~c.logged
  BY DEF Books, Closed, Tasks, TypeInv, CompBooks
<1>3. /\ current' \in DOMAIN manifests' /\ Cur' \in ManifestRecord
      /\ ManifestBooks(Cur', current, DOMAIN tables)
      /\ Cur' = [log |-> mem, next |-> nextFile, last |-> lastSeq,
                 version |-> WithTables(Cur.version, f.level, {f.file})]
  BY <1>1, <1>2, FlushRecorded
<1> DEFINE r == [f EXCEPT !.logged = TRUE]
<1>4. r \in FlushRecord /\ r.file = f.file /\ r.level = f.level /\ r.logged
  BY <1>2 DEF FlushRecord
<1>5. flush' = {r}
  BY <1>1
<1> HIDE DEF r
<1>6. TypeInv'
  BY <1>3, <1>4, <1>5 DEF Books, TypeInv, Cur
<1>7. ManifestBooks(Cur, current, DOMAIN tables)' /\ Closed' /\ Opening' /\ Readers' /\ (faults = 0 => ~bgError)'
  BY <1>2, <1>3 DEF Books, Closed, Opening, Readers
<1>8. Tasks'
  BY <1>2, <1>4, <1>5 DEF Books, Tasks
<1>9. Running'
  <2>1. Cur'.log = mem /\ Cur'.next = nextFile /\ nextFile \in Nat
    BY <1>3 DEF Books, TypeInv
  <2>2. ~bgError => Ahead(Cur'.version, version, flush', comp)
    <3>1. ~bgError => Cur.version = version
      BY <1>1, <1>2 DEF Books, Running, Ahead
    <3>2. ~bgError => Cur'.version = WithTables(version, r.level, {r.file})
      BY <3>1, <1>3, <1>4
    <3> QED BY <3>2, <1>2, <1>4, <1>5 DEF Ahead
  <2> QED BY <1>2, <1>5, <2>1, <2>2 DEF Books, Running
<1> QED BY <1>6, <1>7, <1>8, <1>9 DEF Books

\* What is live: the version, what readers hold, what a compaction holds.
LEMMA LiveHas ==
    ASSUME NEW v, NEW c
    PROVE  /\ Files(v) \subseteq Live(v, c)
           /\ \A w \in views : Files(w.version) \subseteq Live(v, c)
           /\ \A d \in c : Files(d.version) \cup d.outs \subseteq Live(v, c)
<1> DEFINE A == {Files(w.version) : w \in views}
           X(d) == Files(d.version) \cup d.outs
           B == {X(d) : d \in c}
<1>1. Live(v, c) = Files(v) \cup (UNION A) \cup (UNION B)
  BY DEF Live
<1>2. \A w \in views : Files(w.version) \in A
  OBVIOUS
<1>3. \A d \in c : X(d) \in B
  OBVIOUS
<1>4. Files(v) \subseteq Live(v, c) /\ UNION A \subseteq Live(v, c) /\ UNION B \subseteq Live(v, c)
  BY <1>1
<1> HIDE DEF A, B
<1>5. \A w \in views : Files(w.version) \subseteq Live(v, c)
  BY <1>2, <1>4
<1>6. \A d \in c : X(d) \subseteq Live(v, c)
  BY <1>3, <1>4
<1> QED BY <1>4, <1>5, <1>6

\* What a flush deletes nobody needs.
LEMMA FlushInstallBooks == ASSUME Books, FlushInstall PROVE Books'
<1> USE DEF FlushInstall, books
<1>1. PICK f \in flush : f.logged /\ version' = Edited(version, FlushEdit(f))
  OBVIOUS
<1>2. /\ up = "open" /\ flush = {f} /\ f \in FlushRecord /\ imm # 0 /\ f.file \in DOMAIN tables
      /\ \A c \in comp : c.rest # {} /\ ~c.logged
  BY <1>1 DEF Books, Closed, Tasks, TypeInv, CompBooks
<1> DEFINE w == WithTables(version, f.level, {f.file})
<1>3. version' = w /\ w \in Versions /\ Files(w) = Files(version) \cup {f.file} /\ f.level \in Levels
  BY <1>1, <1>2, EditedFlush, LevelNumbers DEF Books, TypeInv, FlushRecord
<1>4. \A i \in Levels : version[i] \subseteq w[i]
  BY DEF WithTables
<1> HIDE DEF w
<1>5. /\ ~bgError => Cur.version = w
      /\ Cur.log = mem /\ imm < mem /\ current = manifestFile /\ TypeInv
      /\ Files(version) \subseteq DOMAIN tables
  <2>1. ~bgError => Cur.version = WithTables(version, f.level, {f.file})
    BY <1>1, <1>2 DEF Books, Running, Ahead
  <2> QED BY <1>1, <1>2, <2>1 DEF Books, Running, w
<1>6. Collect(w, mem, comp)
  BY <1>3
<1>7. /\ DOMAIN tables' \subseteq DOMAIN tables /\ tables' \in [DOMAIN tables' -> SUBSET Entry]
      /\ DOMAIN tables \cap Live(w, comp) \subseteq DOMAIN tables'
      /\ DOMAIN logs' \subseteq DOMAIN logs /\ logs' \in [DOMAIN logs' -> Seq(SUBSET Entry)]
      /\ IsFiniteSet(DOMAIN logs')
      /\ \A n \in DOMAIN logs : n >= mem => n \in DOMAIN logs'
      /\ current \in DOMAIN manifests' /\ manifests'[current] = Cur
      /\ bgError => tables' = tables
  BY <1>5, <1>6, CollectIs
<1>8. /\ DOMAIN mems' \subseteq DOMAIN mems /\ mems' \in [DOMAIN mems' -> SUBSET Entry]
      /\ mem \in DOMAIN mems => mem \in DOMAIN mems'
      /\ \A x \in views, n \in DOMAIN mems : n \in {x.mem, x.imm} => n \in DOMAIN mems'
  <2> DEFINE N == {mem}
  <2>1. mems' = Pinned(N, views)
    OBVIOUS
  <2>2. mem \in DOMAIN mems => mem \in DOMAIN mems \cap N
    OBVIOUS
  <2> HIDE DEF N
  <2>3. /\ DOMAIN Pinned(N, views) \subseteq DOMAIN mems
        /\ Pinned(N, views) \in [DOMAIN Pinned(N, views) -> SUBSET Entry]
        /\ \A n \in DOMAIN mems \cap N : n \in DOMAIN Pinned(N, views)
        /\ \A x \in views, n \in DOMAIN mems : n \in {x.mem, x.imm} => n \in DOMAIN Pinned(N, views)
    BY <1>5, PinnedIs
  <2> QED BY <2>1, <2>2, <2>3
<1>9. /\ Files(w) \subseteq DOMAIN tables'
      /\ \A x \in views : Files(x.version) \subseteq DOMAIN tables \cap Live(w, comp)
      /\ \A c \in comp : Files(c.version) \cup c.outs \subseteq DOMAIN tables \cap Live(w, comp)
  <2>1. Files(w) \subseteq DOMAIN tables \cap Live(w, comp)
    BY <1>2, <1>3, <1>5 DEF Live
  <2>2. \A x \in views : Files(x.version) \subseteq DOMAIN tables
    BY DEF Books, Readers, ViewBooks
  <2>3. \A c \in comp : Files(c.version) \cup c.outs \subseteq DOMAIN tables
    BY DEF Books, Tasks, CompBooks
  <2>4. \A x \in views : Files(x.version) \subseteq Live(w, comp)
    BY LiveHas
  <2>5. \A c \in comp : Files(c.version) \cup c.outs \subseteq Live(w, comp)
    BY LiveHas
  <2>6. Files(w) \subseteq DOMAIN tables'
    BY <1>7, <2>1
  <2> QED BY <2>2, <2>3, <2>4, <2>5, <2>6
<1>10. current' = current /\ Cur' = Cur
  BY <1>7 DEF Cur
<1>11. TypeInv'
  <2>1. 0 \in Nat /\ {} \subseteq FlushRecord
    OBVIOUS
  <2> QED BY <1>3, <1>5, <1>7, <1>8, <1>10, <2>1 DEF TypeInv
<1>12. ManifestBooks(Cur, current, DOMAIN tables)'
  <2>1. Files(Cur.version) \subseteq DOMAIN tables'
    BY <1>5, <1>7, <1>9 DEF Books, ManifestBooks
  <2> QED BY <1>10, <2>1 DEF Books, ManifestBooks
<1>13. Closed' /\ Opening' /\ (faults = 0 => ~bgError)'
  BY <1>2 DEF Books, Closed, Opening
<1>14. Tasks'
  <2>1. ASSUME NEW c \in comp PROVE CompBooks(c, w, DOMAIN tables')
    <3>1. CompBooks(c, version, DOMAIN tables)
      BY DEF Books, Tasks
    <3>2. c.in0 \subseteq w[c.level] /\ c.in1 \subseteq w[c.level + 1]
      BY <3>1, <1>4 DEF CompBooks
    <3>3. Files(c.version) \subseteq DOMAIN tables' /\ c.outs \subseteq DOMAIN tables'
      BY <1>7, <1>9
    <3> QED BY <3>1, <3>2, <3>3 DEF CompBooks
  <2> QED BY <1>3, <2>1 DEF Books, Tasks
<1>15. Readers'
  <2>1. ASSUME NEW x \in views PROVE ViewBooks(x, DOMAIN tables', DOMAIN mems', mem, lastSeq)
    <3>1. ViewBooks(x, DOMAIN tables, DOMAIN mems, mem, lastSeq)
      BY DEF Books, Readers
    <3>2. Files(x.version) \subseteq DOMAIN tables'
      BY <1>7, <1>9
    <3> QED BY <3>1, <3>2, <1>8 DEF ViewBooks
  <2> QED BY <2>1 DEF Readers
<1>16. Running'
  <2>1. manifestFile < nextFile /\ Cur.next <= nextFile /\ mem \in DOMAIN logs /\ mem \in DOMAIN mems /\ 0 < mem
        /\ mem < nextFile /\ logNumber = imm /\ \A n \in DOMAIN tables : n < nextFile
    BY <1>2 DEF Books, Running
  <2>2. \A n \in DOMAIN logs : n < nextFile /\ (n >= mem => n = mem)
    <3>1. \A n \in DOMAIN logs : n < nextFile /\ (n >= imm => n = mem \/ n = imm)
      BY <1>2, <2>1 DEF Books, Running
    <3>2. DOMAIN logs \subseteq Nat /\ mem \in Nat /\ imm \in Nat
      BY <1>5 DEF TypeInv
    <3> QED BY <1>5, <3>1, <3>2
  <2>3. Ahead(Cur.version, w, {}, comp) \/ bgError
    BY <1>2, <1>5 DEF Ahead
  <2>4. mem \in DOMAIN logs'
    BY <1>7, <2>1 DEF Books, TypeInv
  <2>5. \A n \in DOMAIN logs' : n < nextFile /\ (n >= mem => n = mem)
    BY <1>7, <2>2
  <2>6. Cur'.version = Cur.version /\ Cur'.next <= nextFile /\ Cur'.log = mem /\ current' = manifestFile
    BY <1>5, <1>10, <2>1
  <2> QED BY <1>2, <1>3, <1>7, <1>8, <1>9, <2>1, <2>3, <2>4, <2>5, <2>6 DEF Running
<1> QED BY <1>11, <1>12, <1>13, <1>14, <1>15, <1>16 DEF Books

\* A flush that fails deletes nothing.
LEMMA FlushFailBooks == ASSUME Books, FlushFail PROVE Books'
<1> USE DEF FlushFail, books
<1>1. faults \in Nat /\ faults' = faults + 1 /\ bgError' = TRUE
  BY DEF Books, TypeInv
<1>2. CASE FlushTurn /\ nextFile' = nextFile + 1 /\ UNCHANGED <<flush, manifests>>
  <2>1. up = "open" /\ nextFile \in Nat /\ Cur' = Cur /\ Cur \in ManifestRecord
    BY <1>2 DEF FlushTurn, Cur, Books, TypeInv
  <2>2. TypeInv'
    <3>1. nextFile + 1 \in Nat /\ faults + 1 \in Nat /\ TRUE \in BOOLEAN /\ TypeInv
      BY <1>1, <2>1 DEF Books
    <3>2. Cur' \in ManifestRecord /\ current' \in DOMAIN manifests'
      BY <1>2, <2>1, <3>1 DEF TypeInv
    <3> QED BY <1>1, <1>2, <3>1, <3>2 DEF TypeInv
  <2>3. ManifestBooks(Cur, current, DOMAIN tables)' /\ Closed' /\ Opening' /\ Tasks' /\ Readers'
    BY <1>2, <2>1 DEF Books, Closed, Opening, Tasks, Readers
  <2>4. Running'
    <3>1. \A n : n \in Nat /\ n < nextFile => n < nextFile + 1
      BY <2>1
    <3>2. manifestFile < nextFile' /\ Cur.next <= nextFile' /\ mem < nextFile'
          /\ (\A n \in DOMAIN tables : n < nextFile') /\ \A n \in DOMAIN logs : n < nextFile'
      BY <1>2, <2>1 DEF Books, Running, TypeInv, ManifestRecord
    <3> QED BY <1>1, <1>2, <2>1, <3>2 DEF Books, Running
  <2> QED BY <1>1, <2>2, <2>3, <2>4 DEF Books
<1>3. CASE /\ \E f \in flush : ~f.logged /\ (Record(FlushEdit(f)) \/ UNCHANGED manifests)
           /\ flush' = {} /\ UNCHANGED nextFile
  <2>1. PICK f \in flush : ~f.logged /\ (Record(FlushEdit(f)) \/ UNCHANGED manifests)
    BY <1>3
  <2>2. up = "open" /\ \A c \in comp : c.rest # {}
    BY <2>1 DEF Books, Closed, Tasks
  <2>3. /\ current' \in DOMAIN manifests' /\ Cur' \in ManifestRecord
        /\ ManifestBooks(Cur', current, DOMAIN tables)
        /\ Cur' = Cur \/ (Cur'.log = mem /\ Cur'.next = nextFile)
    <3>1. CASE Record(FlushEdit(f))
      <4>1. UNCHANGED <<current, nextFile, lastSeq>>
        BY <1>3
      <4>2. /\ current' \in DOMAIN manifests' /\ Cur' \in ManifestRecord
            /\ ManifestBooks(Cur', current, DOMAIN tables)
            /\ Cur' = [log |-> mem, next |-> nextFile, last |-> lastSeq,
                       version |-> WithTables(Cur.version, f.level, {f.file})]
        BY <2>2, <3>1, <4>1, FlushRecorded
      <4> QED BY <4>2
    <3>2. CASE UNCHANGED manifests
      BY <3>2 DEF Books, TypeInv, Cur
    <3> QED BY <2>1, <3>1, <3>2
  <2>4. TypeInv'
    BY <1>1, <1>3, <2>3 DEF Books, TypeInv
  <2>5. ManifestBooks(Cur, current, DOMAIN tables)' /\ Closed' /\ Opening' /\ Readers'
    BY <1>3, <2>2, <2>3 DEF Books, Closed, Opening, Readers
  <2>6. Tasks'
    BY <1>3 DEF Books, Tasks
  <2>7. Running'
    BY <1>1, <1>3, <2>2, <2>3 DEF Books, Running, TypeInv
  <2> QED BY <1>1, <2>4, <2>5, <2>6, <2>7 DEF Books
<1> QED BY <1>2, <1>3

\* A compaction's inputs are of two neighbouring levels.
LEMMA InputsAre ==
    ASSUME NEW l \in Nat, NEW n \in version[l], NEW in \in Inputs(l, n)
    PROVE  in[1] \subseteq version[l] /\ in[2] \subseteq version[l + 1]
<1> DEFINE in0 == IF l = 0 THEN Overlapping(version, 0, File(n)) ELSE {n}
           in1 == Overlapping(version, l + 1, Content(in0))
           wide0 == Overlapping(version, l, Content(in0 \cup in1))
           wide1 == Overlapping(version, l + 1, Content(wide0))
<1>1. in0 \subseteq version[l]
  BY OverlappingIn
<1>2. in1 \subseteq version[l + 1]
  BY OverlappingIn
<1>3. wide0 \subseteq version[l]
  BY OverlappingIn
<1>4. in \in {<<in0, in1>>} \cup (IF in1 # {} /\ wide1 = in1 THEN {<<wide0, in1>>} ELSE {})
  BY DEF Inputs
<1> HIDE DEF in0, in1, wide0, wide1
<1>5. in = <<in0, in1>> \/ in = <<wide0, in1>>
  BY <1>4
<1> QED BY <1>1, <1>2, <1>3, <1>5

\* Files hold entries.
LEMMA ContentIn ==
    ASSUME TypeInv, NEW N
    PROVE  Content(N) \subseteq Entry
BY DEF TypeInv, Content, File

\* A compaction holds the version in use.
LEMMA CompactStartBooks ==
    ASSUME Books, NEW l \in Levels, NEW n \in version[l], CompactStart(l, n)
    PROVE  Books'
<1> USE DEF CompactStart, books, disk
<1>1. PICK in \in Inputs(l, n) : \E move \in Moves(l, in) :
       comp' = {[level |-> l, in0 |-> in[1], in1 |-> in[2], version |-> version, move |-> move,
                 smallest_snapshot |-> lastSeq,
                 rest |-> IF move THEN {} ELSE Content(in[1] \cup in[2]),
                 outs |-> {}, logged |-> FALSE]}
  OBVIOUS
<1>2. PICK move \in Moves(l, in) :
       comp' = {[level |-> l, in0 |-> in[1], in1 |-> in[2], version |-> version, move |-> move,
                 smallest_snapshot |-> lastSeq,
                 rest |-> IF move THEN {} ELSE Content(in[1] \cup in[2]),
                 outs |-> {}, logged |-> FALSE]}
  BY <1>1
<1> DEFINE c == [level |-> l, in0 |-> in[1], in1 |-> in[2], version |-> version, move |-> move,
                 smallest_snapshot |-> lastSeq,
                 rest |-> IF move THEN {} ELSE Content(in[1] \cup in[2]),
                 outs |-> {}, logged |-> FALSE]
<1>3. l \in Nat /\ l + 1 \in Levels
  BY LevelNumbers
<1>4. in[1] \subseteq version[l] /\ in[2] \subseteq version[l + 1]
  BY <1>3, InputsAre
<1>5. move \in BOOLEAN /\ (move => in[2] = {} /\ \E m : in[1] = {m})
  BY DEF Moves
<1>6. TypeInv /\ up = "open" /\ flush = {} /\ comp = {}
  BY DEF Books
<1>7. c \in CompRecord
  <2>1. Content(in[1] \cup in[2]) \subseteq Entry
    BY <1>6, ContentIn
  <2>2. version \in Versions /\ lastSeq \in Nat /\ version[l] \subseteq Nat /\ version[l + 1] \subseteq Nat
    BY <1>3, <1>6 DEF TypeInv, Versions
  <2> QED BY <1>3, <1>4, <1>5, <2>1, <2>2 DEF CompRecord
<1>8. TypeInv'
  BY <1>2, <1>6, <1>7 DEF TypeInv, Cur
<1>9. ManifestBooks(Cur, current, DOMAIN tables)' /\ Closed' /\ Opening' /\ Readers' /\ (faults = 0 => ~bgError)'
  BY <1>6 DEF Books, Closed, Opening, Readers, Cur
<1>10. CompBooks(c, version, DOMAIN tables)
  BY <1>3, <1>4, <1>5, <1>6 DEF Books, Running, CompBooks
<1>11. ~c.logged
  OBVIOUS
<1>12. comp' = {c}
  BY <1>2
<1> HIDE DEF c
<1>13. Tasks'
  BY <1>6, <1>10, <1>12 DEF Tasks
<1>14. Running'
  <2>1. ~bgError => Ahead(Cur.version, version, flush, comp')
    BY <1>6, <1>11, <1>12 DEF Books, Running, Ahead
  <2> QED BY <1>6, <2>1 DEF Books, Running, Cur
<1> QED BY <1>8, <1>9, <1>13, <1>14 DEF Books

-----------------------------------------------------------------------------
(* Compactions keep the books *)

\* An output takes a new number.
LEMMA CompactOutputBooks == ASSUME Books, CompactOutput PROVE Books'
<1>0. /\ flush = {}
      /\ UNCHANGED <<logs, manifests, current, up, mems, mem, imm, logNumber, version, manifestFile, lastSeq,
                     recovered, writing, flush, views, bgError, history, crashes, faults>>
  BY DEF CompactOutput, books
<1>1. PICK c \in comp : \E e \in c.rest :
       LET read == {f \in c.rest : f = e \/ Before(f, e)}
           kept == {f \in read : ~Drop(c, f)}
       IN  /\ e \in kept \/ read = c.rest
           /\ IF kept = {}
              THEN /\ comp' = {[c EXCEPT !.rest = @ \ read]}
                   /\ UNCHANGED <<tables, nextFile>>
              ELSE /\ comp' = {[c EXCEPT !.rest = @ \ read, !.outs = @ \cup {nextFile}]}
                   /\ tables' = Created(tables, nextFile, kept)
                   /\ nextFile' = nextFile + 1
  BY DEF CompactOutput
<1>2. PICK read, kept :
       /\ read \subseteq c.rest /\ kept \subseteq read /\ c.rest # {}
       /\ IF kept = {}
          THEN /\ comp' = {[c EXCEPT !.rest = @ \ read]}
               /\ UNCHANGED <<tables, nextFile>>
          ELSE /\ comp' = {[c EXCEPT !.rest = @ \ read, !.outs = @ \cup {nextFile}]}
               /\ tables' = Created(tables, nextFile, kept)
               /\ nextFile' = nextFile + 1
  <2>1. PICK e \in c.rest :
       LET read == {f \in c.rest : f = e \/ Before(f, e)}
           kept == {f \in read : ~Drop(c, f)}
       IN  IF kept = {}
              THEN /\ comp' = {[c EXCEPT !.rest = @ \ read]}
                   /\ UNCHANGED <<tables, nextFile>>
              ELSE /\ comp' = {[c EXCEPT !.rest = @ \ read, !.outs = @ \cup {nextFile}]}
                   /\ tables' = Created(tables, nextFile, kept)
                   /\ nextFile' = nextFile + 1
    BY <1>1
  <2> DEFINE r == {f \in c.rest : f = e \/ Before(f, e)}
             k == {f \in r : ~Drop(c, f)}
  <2>2. r \subseteq c.rest /\ k \subseteq r /\ c.rest # {}
    OBVIOUS
  <2>3. IF k = {}
        THEN /\ comp' = {[c EXCEPT !.rest = @ \ r]}
             /\ UNCHANGED <<tables, nextFile>>
        ELSE /\ comp' = {[c EXCEPT !.rest = @ \ r, !.outs = @ \cup {nextFile}]}
             /\ tables' = Created(tables, nextFile, k)
             /\ nextFile' = nextFile + 1
    BY <2>1
  <2> HIDE DEF r, k
  <2> QED BY <2>2, <2>3
<1>3. /\ up = "open" /\ flush = {} /\ comp = {c} /\ c \in CompRecord /\ c.rest \subseteq Entry
      /\ ~c.logged /\ ~c.move /\ nextFile \in Nat /\ CompBooks(c, version, DOMAIN tables)
  BY <1>0, <1>2 DEF Books, Closed, Tasks, CompBooks, TypeInv, CompRecord
<1> DEFINE d == [c EXCEPT !.rest = @ \ read, !.outs = IF kept = {} THEN @ ELSE @ \cup {nextFile}]
<1>4. d \in CompRecord /\ d.logged = c.logged /\ d.move = c.move /\ d.in0 = c.in0 /\ d.in1 = c.in1
      /\ d.version = c.version /\ d.level = c.level
      /\ d.outs = IF kept = {} THEN c.outs ELSE c.outs \cup {nextFile}
  BY <1>2, <1>3 DEF CompRecord
<1>5. comp' = {d}
  <2>1. CASE kept = {}
    BY <1>2, <1>3, <2>1 DEF CompRecord
  <2>2. CASE kept # {}
    BY <1>2, <1>3, <2>2 DEF CompRecord
  <2> QED BY <2>1, <2>2
<1> HIDE DEF d
<1>6. /\ DOMAIN tables \subseteq DOMAIN tables' /\ tables' \in [DOMAIN tables' -> SUBSET Entry]
      /\ DOMAIN tables' \subseteq Nat /\ \A n \in DOMAIN tables' : n < nextFile'
      /\ nextFile' \in Nat /\ nextFile <= nextFile' /\ d.outs \subseteq DOMAIN tables'
  <2>1. CASE kept = {}
    <3>1. tables' = tables /\ nextFile' = nextFile /\ d.outs = c.outs
      BY <1>2, <1>4, <2>1
    <3>2. /\ tables \in [DOMAIN tables -> SUBSET Entry] /\ DOMAIN tables \subseteq Nat
          /\ \A n \in DOMAIN tables : n < nextFile
      BY <1>3 DEF Books, TypeInv, Running
    <3>3. c.outs \subseteq DOMAIN tables
      BY <1>3 DEF CompBooks
    <3> QED BY <1>3, <3>1, <3>2, <3>3
  <2>2. CASE kept # {}
    <3>1. kept \in SUBSET Entry /\ tables' = Created(tables, nextFile, kept) /\ nextFile' = nextFile + 1
      BY <1>2, <1>3, <2>2
    <3>2. /\ DOMAIN tables' = DOMAIN tables \cup {nextFile} /\ tables' \in [DOMAIN tables' -> SUBSET Entry]
          /\ DOMAIN tables' \subseteq Nat /\ \A n \in DOMAIN tables' : n < nextFile'
          /\ nextFile \in Nat /\ nextFile' \in Nat
      BY <1>3, <3>1, TableAdded
    <3>3. d.outs \subseteq DOMAIN tables'
      <4>1. c.outs \subseteq DOMAIN tables
        BY <1>3 DEF CompBooks
      <4> QED BY <1>4, <2>2, <3>2, <4>1
    <3>4. nextFile <= nextFile' /\ DOMAIN tables \subseteq DOMAIN tables'
      BY <3>1, <3>2
    <3> QED BY <3>2, <3>3, <3>4
  <2> QED BY <2>1, <2>2
<1>7. TypeInv'
  BY <1>0, <1>4, <1>5, <1>6 DEF Books, TypeInv, Cur
<1>8. ManifestBooks(Cur, current, DOMAIN tables)' /\ Closed' /\ Opening' /\ (faults = 0 => ~bgError)'
  BY <1>0, <1>3, <1>6 DEF Books, Closed, Opening, Cur, ManifestBooks
<1>9. Readers'
  BY <1>0, <1>6 DEF Books, Readers, ViewBooks
<1>10. CompBooks(d, version, DOMAIN tables')
  BY <1>0, <1>3, <1>4, <1>6 DEF CompBooks
<1>11. Tasks'
  BY <1>0, <1>3, <1>5, <1>10 DEF Tasks
<1>12. Running'
  <2>1. current = manifestFile /\ Cur' = Cur /\ Files(version) \subseteq DOMAIN tables'
    BY <1>0, <1>3, <1>6 DEF Books, Running, Cur
  <2>2. \A n : n \in Nat /\ n < nextFile => n < nextFile'
    BY <1>0, <1>3, <1>6
  <2>3. manifestFile < nextFile' /\ mem < nextFile' /\ \A n \in DOMAIN logs : n < nextFile'
    BY <1>0, <1>3, <2>2 DEF Books, Running, TypeInv
  <2>4. Cur.next <= nextFile'
    BY <1>0, <1>3, <1>6 DEF Books, Running, TypeInv, ManifestRecord
  <2>5. ~bgError => Ahead(Cur.version, version, flush, comp')
    BY <1>0, <1>3, <1>4, <1>5 DEF Books, Running, Ahead
  <2> QED BY <1>0, <1>3, <1>6, <2>1, <2>3, <2>4, <2>5 DEF Books, Running
<1> QED BY <1>0, <1>7, <1>8, <1>9, <1>11, <1>12 DEF Books

\* The record of a compaction.
LEMMA CompactionRecorded ==
    ASSUME Books, up = "open", NEW c \in comp, Record(CompactEdit(c)), UNCHANGED <<current, nextFile, lastSeq>>
    PROVE  /\ current' \in DOMAIN manifests' /\ Cur' \in ManifestRecord
           /\ ManifestBooks(Cur', current, DOMAIN tables)
           /\ Cur' = [log |-> logNumber, next |-> nextFile, last |-> lastSeq,
                      version |-> WithOutputs(Cur.version, c)]
<1>1. /\ c \in CompRecord /\ Cur.version \in Versions /\ logNumber \in Nat /\ version \in Versions
      /\ Files(Cur.version) \subseteq DOMAIN tables /\ Files(version) \subseteq DOMAIN tables
      /\ CompBooks(c, version, DOMAIN tables)
  BY DEF Books, TypeInv, Running, ManifestBooks, Tasks, ManifestRecord
<1>2. /\ Edited(Cur.version, CompactEdit(c)) = WithOutputs(Cur.version, c)
      /\ WithOutputs(Cur.version, c) \in Versions
      /\ Files(WithOutputs(Cur.version, c)) \subseteq Files(Cur.version) \cup Outs(c)
  BY <1>1, EditedCompaction
<1>3. CompactEdit(c).log = logNumber
  BY DEF CompactEdit
<1>4. logNumber < nextFile
  BY DEF Books, Running, TypeInv
<1>5. Outs(c) \subseteq DOMAIN tables
  <2>1. c.in0 \subseteq Files(version) /\ c.outs \subseteq DOMAIN tables
    BY <1>1, FilesAre DEF CompBooks
  <2> QED BY <2>1, <1>1 DEF Outs
<1> QED BY <1>1, <1>2, <1>3, <1>4, <1>5, RecordBooks

\* The compaction's record names tables that exist.
LEMMA CompactLogBooks == ASSUME Books, CompactLog PROVE Books'
<1> USE DEF CompactLog, books
<1>1. PICK c \in comp : /\ c.rest = {} /\ ~c.logged
                        /\ comp' = {[c EXCEPT !.logged = TRUE]}
                        /\ Record(CompactEdit(c))
  OBVIOUS
<1>2. /\ up = "open" /\ comp = {c} /\ c \in CompRecord /\ flush = {}
      /\ CompBooks(c, version, DOMAIN tables)
  BY DEF Books, Closed, Tasks, TypeInv
<1>3. UNCHANGED <<current, nextFile, lastSeq>>
  OBVIOUS
<1>4. /\ current' \in DOMAIN manifests' /\ Cur' \in ManifestRecord
      /\ ManifestBooks(Cur', current, DOMAIN tables)
      /\ Cur' = [log |-> logNumber, next |-> nextFile, last |-> lastSeq,
                 version |-> WithOutputs(Cur.version, c)]
  BY <1>1, <1>2, <1>3, CompactionRecorded
<1> DEFINE d == [c EXCEPT !.logged = TRUE]
<1>5. d \in CompRecord /\ d.logged /\ d.move = c.move /\ d.in0 = c.in0 /\ d.in1 = c.in1
      /\ d.version = c.version /\ d.level = c.level /\ d.outs = c.outs /\ d.rest = {}
  BY <1>1, <1>2 DEF CompRecord
<1>6. comp' = {d}
  BY <1>1
<1> HIDE DEF d
<1>7. TypeInv'
  BY <1>4, <1>5, <1>6 DEF Books, TypeInv, Cur
<1>8. ManifestBooks(Cur, current, DOMAIN tables)' /\ Closed' /\ Opening' /\ Readers' /\ (faults = 0 => ~bgError)'
  BY <1>2, <1>4 DEF Books, Closed, Opening, Readers
<1>9. CompBooks(d, version, DOMAIN tables)
  BY <1>2, <1>5 DEF CompBooks
<1>10. Tasks'
  BY <1>2, <1>6, <1>9 DEF Tasks
<1>11. Running'
  <2>1. Cur'.log = logNumber /\ Cur'.next = nextFile /\ nextFile \in Nat
    BY <1>4 DEF Books, TypeInv
  <2>2. ~bgError => Ahead(Cur'.version, version, flush, comp')
    <3>1. ~bgError => Cur.version = version
      BY <1>1, <1>2 DEF Books, Running, Ahead
    <3>2. WithOutputs(version, c) = WithOutputs(version, d)
      BY <1>5 DEF WithOutputs, Outs
    <3> QED BY <3>1, <3>2, <1>2, <1>4, <1>5, <1>6 DEF Ahead
  <2> QED BY <1>2, <1>6, <2>1, <2>2 DEF Books, Running
<1> QED BY <1>7, <1>8, <1>10, <1>11 DEF Books

\* What a compaction deletes nobody needs.
LEMMA CompactInstallBooks == ASSUME Books, CompactInstall PROVE Books'
<1> USE DEF CompactInstall, books
<1>1. PICK c \in comp :
       /\ c.logged
       /\ version' = Edited(version, CompactEdit(c))
       /\ IF c.move THEN UNCHANGED <<logs, tables, manifests>> ELSE Collect(version', logNumber, {})
  OBVIOUS
<1>2. /\ up = "open" /\ comp = {c} /\ c \in CompRecord /\ flush = {} /\ TypeInv
      /\ CompBooks(c, version, DOMAIN tables)
  BY <1>1 DEF Books, Closed, Tasks, TypeInv, CompBooks
<1> DEFINE w == WithOutputs(version, c)
<1>3. version' = w /\ w \in Versions /\ Files(w) \subseteq Files(version) \cup Outs(c)
  BY <1>1, <1>2, EditedCompaction DEF TypeInv
<1>4. Files(w) \subseteq DOMAIN tables /\ Files(version) \subseteq DOMAIN tables
  <2>1. version \in Versions /\ Files(version) \subseteq DOMAIN tables
    BY <1>2 DEF Books, TypeInv, Running
  <2>2. c.in0 \subseteq Files(version) /\ c.outs \subseteq DOMAIN tables
    BY <1>2, <2>1, FilesAre DEF CompBooks
  <2> QED BY <1>3, <2>1, <2>2 DEF Outs
<1>5. ~bgError => Cur.version = w
  BY <1>1, <1>2 DEF Books, Running, Ahead
<1> HIDE DEF w
<1>6. current = manifestFile
  BY <1>2 DEF Books, Running
<1>7. /\ DOMAIN tables' \subseteq DOMAIN tables /\ tables' \in [DOMAIN tables' -> SUBSET Entry]
      /\ Files(w) \subseteq DOMAIN tables' /\ \A x \in views : Files(x.version) \subseteq DOMAIN tables'
      /\ DOMAIN logs' \subseteq DOMAIN logs /\ logs' \in [DOMAIN logs' -> Seq(SUBSET Entry)]
      /\ IsFiniteSet(DOMAIN logs')
      /\ \A n \in DOMAIN logs : n >= logNumber => n \in DOMAIN logs'
      /\ current \in DOMAIN manifests' /\ manifests'[current] = Cur
      /\ bgError => tables' = tables
  <2>1. \A x \in views : Files(x.version) \subseteq DOMAIN tables
    BY DEF Books, Readers, ViewBooks
  <2>2. CASE c.move
    BY <1>1, <1>2, <1>4, <2>1, <2>2 DEF TypeInv, Cur
  <2>3. CASE ~c.move
    <3>1. Collect(w, logNumber, {})
      BY <1>1, <1>3, <2>3
    <3>2. Files(w) \subseteq Live(w, {}) /\ \A x \in views : Files(x.version) \subseteq Live(w, {})
      BY LiveHas
    <3>3. /\ DOMAIN tables' \subseteq DOMAIN tables /\ tables' \in [DOMAIN tables' -> SUBSET Entry]
          /\ DOMAIN tables \cap Live(w, {}) \subseteq DOMAIN tables'
          /\ DOMAIN logs' \subseteq DOMAIN logs /\ logs' \in [DOMAIN logs' -> Seq(SUBSET Entry)]
          /\ IsFiniteSet(DOMAIN logs')
          /\ \A n \in DOMAIN logs : n >= logNumber => n \in DOMAIN logs'
          /\ current \in DOMAIN manifests' /\ manifests'[current] = Cur
          /\ bgError => tables' = tables
      BY <1>2, <1>6, <3>1, CollectIs
    <3> QED BY <1>4, <2>1, <3>2, <3>3
  <2> QED BY <2>2, <2>3
<1>8. current' = current /\ Cur' = Cur
  BY <1>7 DEF Cur
<1>9. TypeInv'
  BY <1>2, <1>3, <1>7, <1>8 DEF TypeInv
<1>10. ManifestBooks(Cur, current, DOMAIN tables)'
  <2>1. Files(Cur.version) \subseteq DOMAIN tables'
    BY <1>5, <1>7 DEF Books, ManifestBooks
  <2> QED BY <1>8, <2>1 DEF Books, ManifestBooks
<1>11. Closed' /\ Opening' /\ Tasks' /\ (faults = 0 => ~bgError)'
  BY <1>2 DEF Books, Closed, Opening, Tasks
<1>12. Readers'
  BY <1>7 DEF Books, Readers, ViewBooks
<1>13. Running'
  <2>1. manifestFile < nextFile /\ Cur.next <= nextFile /\ mem \in DOMAIN logs /\ mem \in DOMAIN mems /\ 0 < mem
        /\ mem < nextFile /\ logNumber = (IF imm = 0 THEN mem ELSE imm) /\ (\A n \in DOMAIN tables : n < nextFile)
        /\ (imm # 0 => imm \in DOMAIN logs /\ imm \in DOMAIN mems /\ imm < mem)
        /\ (Cur.log = logNumber \/ Cur.log = mem)
    BY <1>2 DEF Books, Running
  <2>2. \A n \in DOMAIN logs : n < nextFile /\ (n >= logNumber => n = mem \/ n = imm)
    BY <1>2 DEF Books, Running
  <2>3. mem \in DOMAIN logs' /\ (imm # 0 => imm \in DOMAIN logs')
    BY <1>2, <1>7, <2>1 DEF TypeInv
  <2>4. \A n \in DOMAIN logs' : n < nextFile /\ (n >= logNumber => n = mem \/ n = imm)
    BY <1>7, <2>2
  <2>5. ~bgError => Ahead(Cur.version, w, flush, {})
    BY <1>2, <1>5 DEF Ahead
  <2> QED BY <1>2, <1>3, <1>6, <1>7, <1>8, <2>1, <2>3, <2>4, <2>5 DEF Running
<1> QED BY <1>9, <1>10, <1>11, <1>12, <1>13 DEF Books

\* A compaction that fails deletes nothing.
LEMMA CompactFailBooks == ASSUME Books, CompactFail PROVE Books'
<1> USE DEF CompactFail, books
<1>1. faults \in Nat /\ faults' = faults + 1 /\ bgError' = TRUE /\ UNCHANGED <<current, nextFile, lastSeq>>
  BY DEF Books, TypeInv
<1>2. PICK c \in comp : UNCHANGED manifests \/ Record(CompactEdit(c))
  OBVIOUS
<1>3. up = "open" /\ flush = {}
  BY DEF Books, Closed
<1>4. /\ current' \in DOMAIN manifests' /\ Cur' \in ManifestRecord
      /\ ManifestBooks(Cur', current, DOMAIN tables)
      /\ Cur' = Cur \/ (Cur'.log = logNumber /\ Cur'.next = nextFile)
  <2>1. CASE Record(CompactEdit(c))
    <3>1. /\ current' \in DOMAIN manifests' /\ Cur' \in ManifestRecord
          /\ ManifestBooks(Cur', current, DOMAIN tables)
          /\ Cur' = [log |-> logNumber, next |-> nextFile, last |-> lastSeq,
                     version |-> WithOutputs(Cur.version, c)]
      BY <1>1, <1>3, <2>1, CompactionRecorded
    <3> QED BY <3>1
  <2>2. CASE UNCHANGED manifests
    BY <2>2 DEF Books, TypeInv, Cur
  <2> QED BY <1>2, <2>1, <2>2
<1>5. TypeInv'
  BY <1>1, <1>4 DEF Books, TypeInv
<1>6. ManifestBooks(Cur, current, DOMAIN tables)' /\ Closed' /\ Opening' /\ Readers' /\ Tasks'
  BY <1>3, <1>4 DEF Books, Closed, Opening, Readers, Tasks
<1>7. Running'
  BY <1>1, <1>3, <1>4 DEF Books, Running, TypeInv
<1> QED BY <1>1, <1>5, <1>6, <1>7 DEF Books

-----------------------------------------------------------------------------
(* Restarts keep the books *)

\* The process gone, the books are those of the manifest.
LEMMA RestartBooks ==
    ASSUME Books, Restarting, UNCHANGED <<tables, manifests, current, faults>>,
           DOMAIN logs' = DOMAIN logs, logs' \in [DOMAIN logs -> Seq(SUBSET Entry)], history' \subseteq history
    PROVE  Books'
<1>1. /\ up' = "down" /\ mems' = Nothing /\ mem' = 0 /\ imm' = 0
      /\ logNumber' = 0 /\ version' = NoFiles /\ nextFile' = 0 /\ lastSeq' = 0
      /\ manifestFile' = 0 /\ recovered' = {} /\ writing' = {} /\ flush' = {} /\ comp' = {}
      /\ views' = {} /\ bgError' = FALSE /\ crashes' = crashes + 1
  BY DEF Restarting
<1>2. Cur' = Cur /\ ManifestBooks(Cur, current, DOMAIN tables) /\ TypeInv
  BY DEF Cur, Books
<1>3. IsFiniteSet({})
  BY FS_EmptySet
<1>4. TypeInv'
  <2>1. mems' \in [DOMAIN mems' -> SUBSET Entry] /\ NoFiles \in Versions
    BY <1>1, NothingIs, NoFilesIs
  <2>2. crashes' \in Nat
    BY <1>1, <1>2 DEF TypeInv
  <2>3. logs' \in [DOMAIN logs' -> Seq(SUBSET Entry)]
    OBVIOUS
  <2> QED BY <1>1, <1>2, <1>3, <2>1, <2>2, <2>3 DEF TypeInv
<1>5. Closed' /\ Opening' /\ Tasks' /\ Readers' /\ Running' /\ (faults = 0 => ~bgError)'
  BY <1>1 DEF Closed, Opening, Tasks, Readers, Running
<1> QED BY <1>2, <1>4, <1>5 DEF Books

\* The process ends.
LEMMA CrashBooks == ASSUME Books, Crash PROVE Books'
<1>1. Restarting /\ UNCHANGED <<logs, tables, manifests, current, history, faults>>
  BY DEF Crash, disk
<1>2. logs \in [DOMAIN logs -> Seq(SUBSET Entry)]
  BY DEF Books, TypeInv
<1> QED BY <1>1, <1>2, RestartBooks

\* What a power cut leaves.
LEMMA PowerCutIs ==
    ASSUME TypeInv, PowerCut
    PROVE  \E kept \in [DOMAIN logs -> Nat] :
             LET gone == UNION {LogEntries(logs[n]) \ LogEntries(logs'[n]) : n \in LogsToReplay}
                 stored == Content(Files(Cur.version))
             IN  /\ logs' = [n \in DOMAIN logs |-> SubSeq(logs[n], 1, kept[n])]
                 /\ logs' \in [DOMAIN logs -> Seq(SUBSET Entry)]
                 /\ \A n \in DOMAIN logs : kept[n] <= Len(logs[n])
                 /\ TornLogs \/ gone \cap stored = {}
                 /\ history' = history \ (gone \ stored)
<1>1. PICK kept \in [DOMAIN logs -> 0..MaxSeq] :
       LET left(n) == SubSeq(logs[n], 1, kept[n])
           gone == UNION {LogEntries(logs[n]) \ LogEntries(left(n)) : n \in LogsToReplay}
           stored == Content(Files(manifests[current].version))
       IN  /\ \A n \in DOMAIN logs : kept[n] <= Len(logs[n])
           /\ TornLogs \/ gone \cap stored = {}
           /\ logs' = [n \in DOMAIN logs |-> left(n)]
           /\ history' = history \ (gone \ stored)
  BY DEF PowerCut
<1>2. kept \in [DOMAIN logs -> Nat]
  BY LevelsAssumption
<1> DEFINE gone1 == UNION {LogEntries(logs[n]) \ LogEntries(SubSeq(logs[n], 1, kept[n])) : n \in LogsToReplay}
           gone2 == UNION {LogEntries(logs[n]) \ LogEntries(logs'[n]) : n \in LogsToReplay}
           stored == Content(Files(Cur.version))
<1>3. /\ logs' = [n \in DOMAIN logs |-> SubSeq(logs[n], 1, kept[n])]
      /\ \A n \in DOMAIN logs : kept[n] <= Len(logs[n])
      /\ TornLogs \/ gone1 \cap stored = {}
      /\ history' = history \ (gone1 \ stored)
  BY <1>1 DEF Cur
<1>4. gone1 = gone2
  <2>1. \A n \in LogsToReplay : logs'[n] = SubSeq(logs[n], 1, kept[n])
    BY <1>3 DEF LogsToReplay
  <2> QED BY <2>1
<1>5. logs' \in [DOMAIN logs -> Seq(SUBSET Entry)]
  <2>1. ASSUME NEW n \in DOMAIN logs PROVE SubSeq(logs[n], 1, kept[n]) \in Seq(SUBSET Entry)
    <3> DEFINE S == SUBSET Entry
    <3>1. logs[n] \in Seq(S) /\ kept[n] \in Nat /\ kept[n] <= Len(logs[n])
      BY <1>2, <1>3 DEF TypeInv
    <3> HIDE DEF S
    <3>2. SubSeq(logs[n], 1, kept[n]) \in Seq(S)
      BY <3>1, SubSeqProperties
    <3> QED BY <3>2 DEF S
  <2> QED BY <1>3, <2>1
<1> HIDE DEF gone1, gone2, stored
<1>6. /\ logs' = [n \in DOMAIN logs |-> SubSeq(logs[n], 1, kept[n])]
      /\ logs' \in [DOMAIN logs -> Seq(SUBSET Entry)]
      /\ \A n \in DOMAIN logs : kept[n] <= Len(logs[n])
      /\ TornLogs \/ gone2 \cap stored = {}
      /\ history' = history \ (gone2 \ stored)
  BY <1>3, <1>4, <1>5
<1> QED BY <1>2, <1>6 DEF gone2, stored

\* A power cut takes ends of logs, never a log.
LEMMA PowerCutBooks == ASSUME Books, PowerCut PROVE Books'
<1>1. Restarting /\ UNCHANGED <<tables, manifests, current, faults>>
  BY DEF PowerCut
<1>2. DOMAIN logs' = DOMAIN logs /\ logs' \in [DOMAIN logs -> Seq(SUBSET Entry)] /\ history' \subseteq history
  BY PowerCutIs DEF Books
<1> QED BY <1>1, <1>2, RestartBooks

\* The number the next file gets once the logs S have been replayed.
BuiltFrom(S) == Cardinality({n \in S : LogEntries(logs[n]) # {}})
Counters(S) == {Cur.next + 1 + BuiltFrom(S)} \cup {n + 1 + BuiltFrom({j \in S : j > n}) : n \in S}

\* The counter, said with the sets the lemmas below are about.
LEMMA CounterIs ==
    ASSUME NEW S
    PROVE  CounterAfter(S) = Max(Counters(S))
BY DEF CounterAfter, Counters, BuiltFrom, Cur

\* How many tables are built of some logs.
LEMMA BuiltCounts ==
    ASSUME NEW S, IsFiniteSet(S)
    PROVE  /\ BuiltFrom(S) \in Nat
           /\ \A T : T \subseteq S => BuiltFrom(T) \in Nat
           /\ \A T, n : T \subseteq S /\ n \in S \ T /\ LogEntries(logs[n]) # {} => BuiltFrom(T) < BuiltFrom(S)
<1> DEFINE B(T) == {n \in T : LogEntries(logs[n]) # {}}
<1>1. \A T : T \subseteq S => IsFiniteSet(B(T))
  <2>1. \A T : T \subseteq S => B(T) \subseteq S
    OBVIOUS
  <2> HIDE DEF B
  <2> QED BY <2>1, FS_Subset
<1>2. \A T : T \subseteq S => BuiltFrom(T) \in Nat /\ BuiltFrom(T) = Cardinality(B(T))
  <2>1. \A T : T \subseteq S => Cardinality(B(T)) \in Nat
    <3> HIDE DEF B
    <3> QED BY <1>1, FS_CardinalityType
  <2> QED BY <2>1 DEF BuiltFrom
<1>3. ASSUME NEW T, NEW n, T \subseteq S, n \in S \ T, LogEntries(logs[n]) # {}
      PROVE  BuiltFrom(T) < BuiltFrom(S)
  <2>1. B(T) \subseteq B(S) /\ n \in B(S) /\ n \notin B(T)
    BY <1>3
  <2>2. IsFiniteSet(B(S)) /\ BuiltFrom(T) = Cardinality(B(T)) /\ BuiltFrom(S) = Cardinality(B(S))
    BY <1>1, <1>2, <1>3
  <2> HIDE DEF B
  <2>3. B(T) # B(S)
    BY <2>1
  <2>4. Cardinality(B(T)) < Cardinality(B(S))
    <3> DEFINE P == B(T)
               Q == B(S)
    <3>1. P \subseteq Q /\ P # Q /\ IsFiniteSet(Q)
      BY <2>1, <2>2, <2>3
    <3> HIDE DEF P, Q
    <3>2. IsFiniteSet(P) /\ Cardinality(P) <= Cardinality(Q) /\ Cardinality(P) # Cardinality(Q)
      BY <3>1, FS_Subset
    <3>3. Cardinality(P) \in Nat /\ Cardinality(Q) \in Nat
      BY <3>1, <3>2, FS_CardinalityType
    <3>4. Cardinality(P) < Cardinality(Q)
      BY <3>2, <3>3
    <3> QED BY <3>4 DEF P, Q
  <2> QED BY <2>2, <2>4
<1> QED BY <1>2, <1>3

\* The numbers the counter is the greatest of.
LEMMA CountersFinite ==
    ASSUME TypeInv, NEW S, S \subseteq DOMAIN logs
    PROVE  /\ IsFiniteSet(S) /\ S \subseteq Nat
           /\ Counters(S) \subseteq Nat /\ IsFiniteSet(Counters(S)) /\ Counters(S) # {}
           /\ \A n \in S : BuiltFrom({j \in S : j > n}) \in Nat
           /\ BuiltFrom(S) \in Nat /\ Cur.next \in Nat
           /\ Cur.next + 1 + BuiltFrom(S) \in Counters(S)
           /\ \A n \in S : n + 1 + BuiltFrom({j \in S : j > n}) \in Counters(S)
<1>1. IsFiniteSet(S) /\ S \subseteq Nat /\ Cur.next \in Nat
  BY FS_Subset DEF TypeInv, ManifestRecord
<1>2. BuiltFrom(S) \in Nat /\ \A n \in S : BuiltFrom({j \in S : j > n}) \in Nat
  <2>1. \A n \in S : {j \in S : j > n} \subseteq S
    OBVIOUS
  <2> QED BY <1>1, <2>1, BuiltCounts
<1> DEFINE A == {n + 1 + BuiltFrom({j \in S : j > n}) : n \in S}
           x == Cur.next + 1 + BuiltFrom(S)
<1>3. IsFiniteSet(A)
  <2> DEFINE f == [n \in S |-> n + 1 + BuiltFrom({j \in S : j > n})]
  <2>1. f \in Surjection(S, A)
    BY DEF Surjection
  <2> HIDE DEF f, A
  <2> QED BY <1>1, <2>1, FS_Surjection
<1>4. A \subseteq Nat /\ x \in Nat
  <2>1. \A n \in S : n + 1 + BuiltFrom({j \in S : j > n}) \in Nat
    <3>1. ASSUME NEW n \in S PROVE n + 1 + BuiltFrom({j \in S : j > n}) \in Nat
      <4> DEFINE b == BuiltFrom({j \in S : j > n})
      <4>1. b \in Nat /\ n \in Nat
        BY <1>1, <1>2
      <4> HIDE DEF b
      <4>2. n + 1 + b \in Nat
        BY <4>1
      <4> QED BY <4>2 DEF b
    <3> QED BY <3>1
  <2>2. A \subseteq Nat
    BY <2>1
  <2>3. x \in Nat
    BY <1>1, <1>2
  <2> QED BY <2>2, <2>3
<1>5. \A n \in S : n + 1 + BuiltFrom({j \in S : j > n}) \in A
  OBVIOUS
<1>6. Counters(S) = {x} \cup A
  BY DEF Counters
<1> HIDE DEF x, A
<1>7. IsFiniteSet({x} \cup A)
  <2>1. IsFiniteSet(A \cup {x})
    BY <1>3, FS_AddElement
  <2> QED BY <2>1
<1>8. IsFiniteSet(Counters(S)) /\ Counters(S) \subseteq Nat /\ Counters(S) # {} /\ x \in Counters(S)
  BY <1>4, <1>6, <1>7
<1> QED BY <1>1, <1>2, <1>5, <1>6, <1>8 DEF x

\* The counter is past the manifest's and past every log replayed.
LEMMA CounterPasses ==
    ASSUME TypeInv, NEW S, S \subseteq DOMAIN logs
    PROVE  /\ CounterAfter(S) \in Nat /\ CounterAfter(S) >= Cur.next + 1
           /\ \A n \in S : CounterAfter(S) > n
<1>1. /\ S \subseteq Nat /\ Cur.next \in Nat
      /\ Counters(S) \subseteq Int /\ IsFiniteSet(Counters(S)) /\ Counters(S) # {} /\ Counters(S) \subseteq Nat
      /\ \A n \in S : BuiltFrom({j \in S : j > n}) \in Nat
      /\ BuiltFrom(S) \in Nat /\ Cur.next + 1 + BuiltFrom(S) \in Counters(S)
      /\ \A n \in S : n + 1 + BuiltFrom({j \in S : j > n}) \in Counters(S)
  BY CountersFinite
<1>2. CounterAfter(S) \in Counters(S) /\ \A y \in Counters(S) : y <= CounterAfter(S)
  BY <1>1, CounterIs, GreatestIs
<1>3. CounterAfter(S) \in Nat
  BY <1>1, <1>2
<1>4. Cur.next + 1 + BuiltFrom(S) <= CounterAfter(S)
  BY <1>1, <1>2
<1>5. \A n \in S : n + 1 + BuiltFrom({j \in S : j > n}) <= CounterAfter(S)
  BY <1>1, <1>2
<1>6. \A n \in S : CounterAfter(S) > n
  <2>1. ASSUME NEW n \in S PROVE CounterAfter(S) > n
    <3> DEFINE b == BuiltFrom({j \in S : j > n})
    <3>1. b \in Nat /\ n \in Nat /\ n + 1 + b <= CounterAfter(S)
      BY <1>1, <1>5
    <3> HIDE DEF b
    <3> QED BY <1>3, <3>1
  <2> QED BY <2>1
<1>7. CounterAfter(S) >= Cur.next + 1
  BY <1>1, <1>3, <1>4
<1> QED BY <1>3, <1>6, <1>7

\* A log that held anything moved the counter.
LEMMA CounterGrows ==
    ASSUME TypeInv, NEW S, NEW T, T \subseteq DOMAIN logs, S \subseteq T, NEW n \in T,
           LogEntries(logs[n]) # {}, \A j \in S : j < n
    PROVE  CounterAfter(S) < CounterAfter(T)
<1>1. S \subseteq DOMAIN logs
  OBVIOUS
<1>2. /\ T \subseteq Nat /\ Cur.next \in Nat /\ IsFiniteSet(T)
      /\ Counters(T) \subseteq Int /\ IsFiniteSet(Counters(T)) /\ Counters(T) # {} /\ Counters(T) \subseteq Nat
      /\ \A i \in T : BuiltFrom({j \in T : j > i}) \in Nat
      /\ BuiltFrom(T) \in Nat /\ Cur.next + 1 + BuiltFrom(T) \in Counters(T)
      /\ \A i \in T : i + 1 + BuiltFrom({j \in T : j > i}) \in Counters(T)
  BY CountersFinite
<1>3. /\ Counters(S) \subseteq Int /\ IsFiniteSet(Counters(S)) /\ Counters(S) # {} /\ Counters(S) \subseteq Nat
      /\ \A i \in S : BuiltFrom({j \in S : j > i}) \in Nat
      /\ BuiltFrom(S) \in Nat
  BY <1>1, CountersFinite
<1>4. CounterAfter(T) \in Nat /\ \A y \in Counters(T) : y <= CounterAfter(T)
  BY <1>2, CounterIs, GreatestIs
<1>5. CounterAfter(S) \in Counters(S)
  BY <1>3, CounterIs, GreatestIs
<1>6. n \notin S
  BY <1>2
<1>7. CASE CounterAfter(S) = Cur.next + 1 + BuiltFrom(S)
  <2>1. BuiltFrom(S) < BuiltFrom(T)
    BY <1>2, <1>6, BuiltCounts
  <2>2. Cur.next + 1 + BuiltFrom(T) <= CounterAfter(T)
    BY <1>2, <1>4
  <2> QED BY <1>2, <1>3, <1>4, <1>7, <2>1, <2>2
<1>8. CASE \E i \in S : CounterAfter(S) = i + 1 + BuiltFrom({j \in S : j > i})
  <2>1. PICK i \in S : CounterAfter(S) = i + 1 + BuiltFrom({j \in S : j > i})
    BY <1>8
  <2> DEFINE A == {j \in S : j > i}
             B == {j \in T : j > i}
  <2>2. A \subseteq B /\ n \in B \ A /\ B \subseteq T /\ i \in Nat /\ i \in T
    BY <1>2, <1>6
  <2>3. BuiltFrom(A) \in Nat /\ BuiltFrom(B) \in Nat
    BY <1>2, <1>3, <2>2
  <2>4. i + 1 + BuiltFrom(B) <= CounterAfter(T)
    BY <1>2, <1>4, <2>2
  <2>5. CounterAfter(S) = i + 1 + BuiltFrom(A)
    BY <2>1
  <2> HIDE DEF A, B
  <2>6. BuiltFrom(A) < BuiltFrom(B)
    <3>1. IsFiniteSet(B)
      BY <1>2, <2>2, FS_Subset
    <3> QED BY <2>2, <3>1, BuiltCounts
  <2> QED BY <1>4, <2>2, <2>3, <2>4, <2>5, <2>6
<1> QED BY <1>5, <1>7, <1>8 DEF Counters

\* What RecoverLogFile makes of the logs: those that hold anything, the number
\* each one's table takes, and the tables.
Held == {n \in LogsToReplay : LogEntries(logs[n]) # {}}
Number == [n \in Held |-> CounterAfter({j \in LogsToReplay : j < n})]
BuiltTables == [t \in Range(Number) |->
                  UNION {LogEntries(logs[n]) : n \in {n \in DOMAIN Number : Number[n] = t}}]
NextNumber == CounterAfter(LogsToReplay)

\* Logs hold entries.
LEMMA LogEntriesIn ==
    ASSUME TypeInv, NEW n \in DOMAIN logs
    PROVE  LogEntries(logs[n]) \subseteq Entry
<1> DEFINE S == SUBSET Entry
<1>1. logs[n] \in Seq(S)
  BY DEF TypeInv
<1> HIDE DEF S
<1>2. \A i \in DOMAIN logs[n] : logs[n][i] \in S
  BY <1>1, ElementOfSeq
<1>3. Range(logs[n]) \subseteq S
  BY <1>2 DEF Range
<1> QED BY <1>3 DEF LogEntries, S

\* Tables of later logs take greater numbers, past all numbers of the manifest.
LEMMA NumbersAre ==
    ASSUME TypeInv
    PROVE  /\ Number \in [Held -> Nat]
           /\ \A n \in Held : Cur.next + 1 <= Number[n] /\ Number[n] < NextNumber
           /\ \A n, m \in Held : n < m => Number[n] < Number[m]
           /\ \A t : t \in Range(Number) <=> \E n \in Held : t = Number[n]
           /\ NextNumber \in Nat /\ NextNumber >= Cur.next + 1 /\ \A n \in LogsToReplay : n < NextNumber
<1> DEFINE Below(n) == {j \in LogsToReplay : j < n}
<1>1. LogsToReplay \subseteq DOMAIN logs /\ DOMAIN logs \subseteq Nat /\ Held \subseteq LogsToReplay
  BY DEF LogsToReplay, Held, TypeInv
<1>2. /\ NextNumber \in Nat /\ NextNumber >= Cur.next + 1 /\ \A n \in LogsToReplay : n < NextNumber
  <2>1. /\ CounterAfter(LogsToReplay) \in Nat /\ CounterAfter(LogsToReplay) >= Cur.next + 1
        /\ \A n \in LogsToReplay : CounterAfter(LogsToReplay) > n
    BY <1>1, CounterPasses
  <2> QED BY <2>1, <1>1 DEF NextNumber
<1>3. \A n \in Held : Number[n] = CounterAfter(Below(n))
  BY DEF Number
<1>4. ASSUME NEW n \in Held
      PROVE  CounterAfter(Below(n)) \in Nat /\ CounterAfter(Below(n)) >= Cur.next + 1
  <2>1. Below(n) \subseteq DOMAIN logs
    BY <1>1
  <2> HIDE DEF Below
  <2> QED BY <2>1, CounterPasses
<1>5. \A n \in Held : LogEntries(logs[n]) # {}
  BY DEF Held
<1>6. ASSUME NEW n \in Held PROVE CounterAfter(Below(n)) < NextNumber
  <2>1. Below(n) \subseteq LogsToReplay /\ n \in LogsToReplay /\ \A j \in Below(n) : j < n
    BY <1>1
  <2> HIDE DEF Below
  <2> QED BY <1>1, <1>5, <2>1, CounterGrows DEF NextNumber
<1>7. ASSUME NEW n \in Held, NEW m \in Held, n < m PROVE CounterAfter(Below(n)) < CounterAfter(Below(m))
  <2>1. Below(n) \subseteq Below(m) /\ n \in Below(m) /\ (\A j \in Below(n) : j < n) /\ Below(m) \subseteq DOMAIN logs
    BY <1>1, <1>7
  <2> HIDE DEF Below
  <2> QED BY <1>5, <2>1, CounterGrows
<1> HIDE DEF Below
<1>8. Number \in [Held -> Nat]
  <2>1. \A n \in Held : Number[n] \in Nat
    BY <1>3, <1>4
  <2>2. Number = [n \in Held |-> Number[n]]
    BY DEF Number
  <2> QED BY <2>1, <2>2
<1>9. \A t : t \in Range(Number) <=> \E n \in Held : t = Number[n]
  BY <1>8 DEF Range
<1>10. \A n \in Held : Cur.next + 1 <= Number[n] /\ Number[n] < NextNumber
  <2>1. Cur.next + 1 \in Nat
    BY DEF TypeInv, ManifestRecord
  <2> QED BY <1>2, <1>3, <1>4, <1>6, <2>1
<1>11. \A n, m \in Held : n < m => Number[n] < Number[m]
  BY <1>3, <1>7
<1> QED BY <1>2, <1>8, <1>9, <1>10, <1>11

\* Each of these tables holds its log's entries.
LEMMA BuiltAre ==
    ASSUME TypeInv
    PROVE  /\ DOMAIN BuiltTables = Range(Number) /\ Range(Number) \subseteq Nat
           /\ \A n \in Held : Number[n] \in Range(Number) /\ BuiltTables[Number[n]] = LogEntries(logs[n])
           /\ \A t \in Range(Number) : BuiltTables[t] \in SUBSET Entry
<1>1. /\ Number \in [Held -> Nat]
      /\ \A n, m \in Held : n < m => Number[n] < Number[m]
      /\ \A t : t \in Range(Number) <=> \E n \in Held : t = Number[n]
  BY NumbersAre
<1>2. Held \subseteq DOMAIN logs /\ Held \subseteq Nat
  BY DEF Held, LogsToReplay, TypeInv
<1>3. ASSUME NEW n \in Held PROVE {m \in DOMAIN Number : Number[m] = Number[n]} = {n}
  <2>1. \A m \in Held : Number[m] = Number[n] => m = n
    <3>1. \A m \in Held : Number[m] \in Nat
      BY <1>1
    <3> QED BY <1>1, <1>2, <3>1
  <2> QED BY <2>1, <1>1
<1>4. DOMAIN BuiltTables = Range(Number)
  BY DEF BuiltTables
<1>5. ASSUME NEW n \in Held PROVE BuiltTables[Number[n]] = LogEntries(logs[n])
  <2>1. Number[n] \in Range(Number)
    BY <1>1
  <2>2. BuiltTables[Number[n]] =
          UNION {LogEntries(logs[m]) : m \in {m \in DOMAIN Number : Number[m] = Number[n]}}
    BY <2>1 DEF BuiltTables
  <2>3. BuiltTables[Number[n]] = UNION {LogEntries(logs[m]) : m \in {n}}
    BY <2>2, <1>3
  <2> QED BY <2>3
<1>6. \A n \in Held : LogEntries(logs[n]) \subseteq Entry
  BY <1>2, LogEntriesIn
<1> QED BY <1>1, <1>4, <1>5, <1>6

\* Open's replay, put together.
LEMMA OpenReplayIs ==
    ASSUME TypeInv, OpenReplay
    PROVE  /\ up = "down" /\ up' = "replayed" /\ Files(Cur.version) \subseteq DOMAIN tables
           /\ DOMAIN tables' = DOMAIN tables \cup Range(Number)
           /\ \A t \in Range(Number) : tables'[t] = BuiltTables[t]
           /\ \A t \in DOMAIN tables \ Range(Number) : tables'[t] = tables[t]
           /\ tables' \in [DOMAIN tables' -> SUBSET Entry]
           /\ recovered' = Range(Number)
           /\ logs' = Created(logs, NextNumber, <<>>)
           /\ mem' = NextNumber /\ mems' = [n \in {NextNumber} |-> {}] /\ nextFile' = NextNumber + 1
           /\ manifestFile' = Cur.next /\ version' = Cur.version /\ logNumber' = Cur.log
           /\ lastSeq' = Max({e.seq : e \in UNION Range(BuiltTables)} \cup {Cur.last})
           /\ UNCHANGED <<manifests, current, imm, writing, flush, comp, views, bgError, history,
                          crashes, faults>>
<1>1. /\ up = "down" /\ up' = "replayed" /\ Files(Cur.version) \subseteq DOMAIN tables
      /\ tables' = [t \in DOMAIN tables \cup DOMAIN BuiltTables |->
                    IF t \in DOMAIN BuiltTables THEN BuiltTables[t] ELSE tables[t]]
      /\ recovered' = DOMAIN BuiltTables
      /\ logs' = Created(logs, NextNumber, <<>>)
      /\ mem' = NextNumber /\ mems' = [n \in {NextNumber} |-> {}] /\ nextFile' = NextNumber + 1
      /\ manifestFile' = Cur.next /\ version' = Cur.version /\ logNumber' = Cur.log
      /\ lastSeq' = Max({e.seq : e \in UNION Range(BuiltTables)} \cup {Cur.last})
      /\ UNCHANGED <<manifests, current, imm, writing, flush, comp, views, bgError, history,
                     crashes, faults>>
  BY DEF OpenReplay, BuiltTables, NextNumber, Number, Held, Cur
<1>2. DOMAIN BuiltTables = Range(Number) /\ \A t \in Range(Number) : BuiltTables[t] \in SUBSET Entry
  BY BuiltAre
<1>3. /\ DOMAIN tables' = DOMAIN tables \cup Range(Number)
      /\ \A t \in Range(Number) : tables'[t] = BuiltTables[t]
      /\ \A t \in DOMAIN tables \ Range(Number) : tables'[t] = tables[t]
  BY <1>1, <1>2
<1>4. tables' \in [DOMAIN tables' -> SUBSET Entry]
  <2>1. \A t \in DOMAIN tables : tables[t] \in SUBSET Entry
    BY DEF TypeInv
  <2> QED BY <1>1, <1>2, <2>1
<1> QED BY <1>1, <1>2, <1>3, <1>4

\* The sequence number the manifest and the logs reach.
LEMMA LastReplayed ==
    ASSUME TypeInv, OpenReplay
    PROVE  /\ lastSeq' \in Nat /\ Cur.last <= lastSeq'
           /\ \A n \in Held : \A e \in LogEntries(logs[n]) : e.seq <= lastSeq'
           /\ lastSeq' = Cur.last \/ \E n \in Held : \E e \in LogEntries(logs[n]) : lastSeq' = e.seq
<1> DEFINE E == UNION Range(BuiltTables)
           A == {e.seq : e \in E}
<1>1. lastSeq' = Max(A \cup {Cur.last})
  BY OpenReplayIs
<1>2. /\ DOMAIN BuiltTables = Range(Number) /\ \A t \in Range(Number) : BuiltTables[t] \in SUBSET Entry
      /\ \A n \in Held : Number[n] \in Range(Number) /\ BuiltTables[Number[n]] = LogEntries(logs[n])
  BY BuiltAre
<1>3. E \subseteq Entry /\ \A n \in Held : LogEntries(logs[n]) \subseteq E
  <2> DEFINE B == Range(BuiltTables)
  <2>1. \A x : x \in B <=> \E t \in Range(Number) : x = BuiltTables[t]
    BY <1>2 DEF Range
  <2>2. E = UNION B
    OBVIOUS
  <2> HIDE DEF B, E
  <2>3. \A x \in B : x \subseteq Entry
    <3>1. ASSUME NEW x \in B PROVE x \subseteq Entry
      <4>1. PICK t \in Range(Number) : x = BuiltTables[t]
        BY <2>1
      <4>2. BuiltTables[t] \in SUBSET Entry
        BY <1>2
      <4> QED BY <4>1, <4>2
    <3> QED BY <3>1
  <2>4. \A n \in Held : LogEntries(logs[n]) \in B
    <3>1. ASSUME NEW n \in Held PROVE LogEntries(logs[n]) \in B
      <4>1. Number[n] \in Range(Number) /\ BuiltTables[Number[n]] = LogEntries(logs[n])
        BY <1>2
      <4> QED BY <2>1, <4>1
    <3> QED BY <3>1
  <2> QED BY <2>2, <2>3, <2>4
<1>4. \A e \in E : \E n \in Held : e \in LogEntries(logs[n])
  <2>1. \A t : t \in Range(Number) <=> \E n \in Held : t = Number[n]
    BY NumbersAre
  <2>2. \A e \in E : \E t \in Range(Number) : e \in BuiltTables[t]
    BY <1>2 DEF Range
  <2> QED BY <1>2, <2>1, <2>2
<1> HIDE DEF E
<1>5. A \subseteq 1..MaxSeq
  BY <1>3 DEF Entry
<1>6. Cur.last \in Nat /\ MaxSeq \in Nat
  BY LevelsAssumption DEF TypeInv, ManifestRecord
<1>7. IsFiniteSet(A \cup {Cur.last})
  <2> HIDE DEF A
  <2>1. IsFiniteSet(1..MaxSeq)
    BY <1>6, FS_Interval
  <2>2. IsFiniteSet(A)
    BY <1>5, <2>1, FS_Subset
  <2> QED BY <2>2, FS_AddElement
<1>8. A \cup {Cur.last} \subseteq Nat /\ A \cup {Cur.last} # {}
  BY <1>5, <1>6
<1>9. lastSeq' \in A \cup {Cur.last} /\ \A y \in A \cup {Cur.last} : y <= lastSeq'
  <2> HIDE DEF A
  <2>1. A \cup {Cur.last} \subseteq Int
    BY <1>8
  <2> QED BY <1>1, <1>7, <1>8, <2>1, GreatestIs
<1>10. lastSeq' \in Nat /\ Cur.last <= lastSeq'
  BY <1>8, <1>9
<1>11. \A n \in Held : \A e \in LogEntries(logs[n]) : e.seq <= lastSeq'
  BY <1>3, <1>9
<1>12. lastSeq' = Cur.last \/ \E n \in Held : \E e \in LogEntries(logs[n]) : lastSeq' = e.seq
  BY <1>4, <1>9
<1> QED BY <1>10, <1>11, <1>12

-----------------------------------------------------------------------------
(* Opening keeps the books *)

\* The replay overwrites no table that the manifest names.
LEMMA OpenReplayBooks == ASSUME Books, OpenReplay PROVE Books'
<1>1. TypeInv /\ ManifestBooks(Cur, current, DOMAIN tables) /\ Closed
  BY DEF Books
<1>2. /\ up = "down" /\ up' = "replayed" /\ Files(Cur.version) \subseteq DOMAIN tables
      /\ DOMAIN tables' = DOMAIN tables \cup Range(Number)
      /\ tables' \in [DOMAIN tables' -> SUBSET Entry]
      /\ recovered' = Range(Number)
      /\ logs' = Created(logs, NextNumber, <<>>)
      /\ mem' = NextNumber /\ mems' = [n \in {NextNumber} |-> {}] /\ nextFile' = NextNumber + 1
      /\ manifestFile' = Cur.next /\ version' = Cur.version /\ logNumber' = Cur.log
      /\ UNCHANGED <<manifests, current, imm, writing, flush, comp, views, bgError, history,
                     crashes, faults>>
  BY <1>1, OpenReplayIs
<1>3. lastSeq' \in Nat
  BY <1>1, LastReplayed
<1>4. NextNumber \in Nat /\ NextNumber >= Cur.next + 1 /\ (\A n \in LogsToReplay : n < NextNumber)
      /\ \A n \in Held : Number[n] \in Nat /\ Number[n] < NextNumber
  BY <1>1, NumbersAre
<1>5. \A t : t \in Range(Number) <=> \E n \in Held : t = Number[n]
  BY <1>1, NumbersAre
<1>6. Range(Number) \subseteq Nat /\ \A t \in Range(Number) : t < NextNumber
  BY <1>4, <1>5
<1>7. /\ Cur \in ManifestRecord /\ Cur.next \in Nat /\ Cur.log \in Nat /\ Cur.version \in Versions
      /\ Cur.log < Cur.next /\ DOMAIN logs \subseteq Nat /\ DOMAIN tables \subseteq Nat
      /\ \A n \in DOMAIN logs : logs[n] \in Seq(SUBSET Entry)
  BY <1>1 DEF TypeInv, ManifestRecord, ManifestBooks
<1>8. \A n \in DOMAIN logs : n < NextNumber
  <2>1. \A n \in DOMAIN logs : n >= Cur.log \/ n < Cur.log
    BY <1>7
  <2>2. \A n \in DOMAIN logs : n >= Cur.log => n \in LogsToReplay
    BY DEF LogsToReplay, Cur
  <2>3. \A n \in DOMAIN logs : n < Cur.log => n < NextNumber
    BY <1>4, <1>7
  <2> QED BY <1>4, <2>1, <2>2, <2>3
<1>9. /\ DOMAIN logs' = DOMAIN logs \cup {NextNumber} /\ logs'[NextNumber] = <<>>
      /\ logs' \in [DOMAIN logs' -> Seq(SUBSET Entry)] /\ IsFiniteSet(DOMAIN logs')
  <2> DEFINE L == Created(logs, NextNumber, <<>>)
             S == Seq(SUBSET Entry)
  <2>1. DOMAIN L = DOMAIN logs \cup {NextNumber} /\ L[NextNumber] = <<>>
    BY DEF Created
  <2>2. <<>> \in S
    OBVIOUS
  <2>3. \A n \in DOMAIN logs : logs[n] \in S
    BY <1>7
  <2> HIDE DEF S
  <2>4. L \in [DOMAIN logs \cup {NextNumber} -> S]
    BY <2>2, <2>3 DEF Created
  <2>5. IsFiniteSet(DOMAIN logs \cup {NextNumber})
    <3>1. IsFiniteSet(DOMAIN logs)
      BY <1>1 DEF TypeInv
    <3> QED BY <3>1, FS_AddElement
  <2>6. logs' = L
    BY <1>2
  <2> HIDE DEF L
  <2> QED BY <2>1, <2>4, <2>5, <2>6 DEF S
<1>10. /\ DOMAIN mems' = {NextNumber} /\ mems'[NextNumber] = {} /\ mems' \in [DOMAIN mems' -> SUBSET Entry]
  BY <1>2
<1>11. Cur' = Cur /\ current' = current
  BY <1>2 DEF Cur
<1>12. NextNumber + 1 \in Nat /\ NextNumber < NextNumber + 1 /\ Cur.next < NextNumber + 1 /\ 0 < NextNumber
       /\ \A n \in Nat : n < Cur.next => n < NextNumber + 1
  BY <1>4, <1>7
<1>13. TypeInv'
  <2>1. current' \in DOMAIN manifests' /\ current' \in Nat /\ Cur' \in ManifestRecord
    BY <1>1, <1>2, <1>11 DEF TypeInv
  <2>2. DOMAIN logs' \subseteq Nat /\ DOMAIN tables' \subseteq Nat
    BY <1>2, <1>4, <1>6, <1>7, <1>9
  <2>3. /\ mem' \in Nat /\ imm' \in Nat /\ logNumber' \in Nat /\ nextFile' \in Nat
        /\ manifestFile' \in Nat /\ version' \in Versions /\ recovered' \in SUBSET Nat
    BY <1>1, <1>2, <1>4, <1>6, <1>7, <1>12 DEF TypeInv
  <2>4. /\ writing' \in SUBSET Entry /\ IsFiniteSet(writing') /\ history' \in SUBSET Entry
        /\ flush' \in SUBSET FlushRecord /\ comp' \in SUBSET CompRecord /\ views' \in SUBSET ViewRecord
        /\ bgError' \in BOOLEAN /\ crashes' \in Nat /\ faults' \in Nat
    BY <1>1, <1>2 DEF TypeInv
  <2> QED BY <1>2, <1>3, <1>9, <1>10, <2>1, <2>2, <2>3, <2>4 DEF TypeInv
<1>14. ManifestBooks(Cur, current, DOMAIN tables)'
  BY <1>1, <1>2, <1>11 DEF ManifestBooks
<1>15. Closed' /\ Tasks' /\ Readers' /\ Running' /\ (faults = 0 => ~bgError)'
  BY <1>1, <1>2 DEF Closed, Tasks, Readers, Running, Books
<1>16. Opening'
  <2>1. recovered' \subseteq DOMAIN tables' /\ Files(version') \subseteq DOMAIN tables'
    BY <1>2
  <2>2. \A n \in recovered' \cup Files(version') : n < nextFile'
    <3>1. \A n \in Range(Number) : n < NextNumber + 1
      BY <1>4, <1>6
    <3>2. \A n \in Files(Cur.version) : n < Cur.next /\ n \in Nat
      BY <1>1, <1>2, <1>7 DEF ManifestBooks
    <3> QED BY <1>2, <1>12, <3>1, <3>2
  <2>3. \A n \in DOMAIN logs' : n <= mem'
    BY <1>2, <1>4, <1>7, <1>8, <1>9
  <2> QED BY <1>2, <1>9, <1>10, <1>11, <1>12, <2>1, <2>2, <2>3 DEF Opening
<1> QED BY <1>13, <1>14, <1>15, <1>16 DEF Books

\* The new manifest names tables that exist.
LEMMA OpenManifestBooks == ASSUME Books, OpenManifest PROVE Books'
<1>1. /\ up = "replayed" /\ up' = "written"
      /\ manifests' = Created(manifests, manifestFile,
                          [log |-> mem, next |-> nextFile, last |-> lastSeq,
                           version |-> Edited(version, OpenEdit)])
      /\ UNCHANGED <<logs, tables, current, mems, mem, imm, logNumber, version, manifestFile, nextFile, lastSeq,
                     recovered, writing, flush, comp, views, bgError, history, crashes, faults>>
  BY DEF OpenManifest, books
<1>2. Edited(version, OpenEdit) = WithTables(version, 0, recovered)
  BY EditedOpen DEF Books, TypeInv
<1>3. manifests' = Created(manifests, manifestFile, NewManifest)
  BY <1>1, <1>2 DEF NewManifest
<1>4. current \in DOMAIN manifests /\ current # manifestFile
  BY <1>1 DEF Books, TypeInv, Opening, ManifestBooks, ManifestRecord
<1>5. /\ current \in DOMAIN manifests' /\ manifests'[current] = Cur
      /\ manifestFile \in DOMAIN manifests' /\ manifests'[manifestFile] = NewManifest
  BY <1>3, <1>4 DEF Created, Cur
<1>6. Cur' = Cur /\ NewManifest' = NewManifest /\ current' = current
  BY <1>1, <1>5 DEF Cur, NewManifest
<1>7. TypeInv'
  BY <1>1, <1>5, <1>6 DEF Books, TypeInv
<1>8. ManifestBooks(Cur, current, DOMAIN tables)' /\ Closed' /\ Tasks' /\ Readers' /\ Running'
      /\ (faults = 0 => ~bgError)'
  BY <1>1, <1>6 DEF Books, ManifestBooks, Closed, Tasks, Readers, Running
<1>9. Opening'
  BY <1>1, <1>5, <1>6 DEF Books, Opening
<1> QED BY <1>7, <1>8, <1>9 DEF Books

\* CURRENT names the new manifest.
LEMMA OpenCurrentBooks == ASSUME Books, OpenCurrent PROVE Books'
<1>1. /\ up = "written" /\ up' = "pointed" /\ current' = manifestFile
      /\ UNCHANGED <<logs, tables, manifests, mems, mem, imm, logNumber, version, manifestFile, nextFile, lastSeq,
                     recovered, writing, flush, comp, views, bgError, history, crashes, faults>>
  BY DEF OpenCurrent, books
<1>2. manifestFile \in DOMAIN manifests /\ manifests[manifestFile] = NewManifest /\ TypeInv
  BY <1>1 DEF Books, Opening
<1>3. Cur' = NewManifest /\ NewManifest' = NewManifest
  BY <1>1, <1>2 DEF Cur, NewManifest
<1>4. /\ WithTables(version, 0, recovered) \in Versions
      /\ Files(WithTables(version, 0, recovered)) = Files(version) \cup recovered
  BY <1>2, EditedOpen DEF TypeInv
<1>5. NewManifest \in ManifestRecord
  BY <1>2, <1>4 DEF NewManifest, ManifestRecord, TypeInv
<1>6. TypeInv'
  BY <1>1, <1>2, <1>3, <1>5 DEF TypeInv
<1>7. ManifestBooks(Cur, current, DOMAIN tables)'
  <2>1. /\ recovered \subseteq DOMAIN tables /\ Files(version) \subseteq DOMAIN tables
        /\ \A n \in recovered \cup Files(version) : n < nextFile
        /\ mem < nextFile /\ manifestFile < nextFile
    BY <1>1 DEF Books, Opening
  <2>2. ManifestBooks(NewManifest, manifestFile, DOMAIN tables)
    BY <1>4, <2>1 DEF ManifestBooks, NewManifest
  <2> QED BY <1>1, <1>3, <2>2
<1>8. Closed' /\ Tasks' /\ Readers' /\ Running' /\ (faults = 0 => ~bgError)'
  BY <1>1 DEF Books, Closed, Tasks, Readers, Running
<1>9. Opening'
  BY <1>1, <1>3 DEF Books, Opening
<1> QED BY <1>6, <1>7, <1>8, <1>9 DEF Books

\* What Open deletes the new manifest does not name.
LEMMA OpenDoneBooks == ASSUME Books, OpenDone PROVE Books'
<1> DEFINE w == WithTables(version, 0, recovered)
<1>1. /\ up = "pointed" /\ up' = "open" /\ logNumber' = mem /\ recovered' = {}
      /\ version' = Edited(version, OpenEdit) /\ Collect(version', mem, {})
      /\ UNCHANGED <<current, mems, mem, imm, manifestFile, nextFile, lastSeq, writing, flush, comp,
                     views, bgError, history, crashes, faults>>
  BY DEF OpenDone
<1>2. TypeInv /\ current = manifestFile /\ Cur = NewManifest /\ ~bgError /\ imm = 0 /\ flush = {} /\ comp = {}
      /\ views = {} /\ writing = {}
  BY <1>1 DEF Books, Opening, Closed
<1>3. version' = w /\ w \in Versions /\ Files(w) = Files(version) \cup recovered
  BY <1>1, <1>2, EditedOpen DEF TypeInv
<1>4. Cur.version = w /\ Cur.log = mem /\ Cur.next = nextFile
  BY <1>2 DEF NewManifest
<1>5. /\ recovered \subseteq DOMAIN tables /\ Files(version) \subseteq DOMAIN tables
      /\ \A n \in recovered \cup Files(version) : n < nextFile
      /\ mem \in DOMAIN logs /\ 0 < mem /\ mem < nextFile /\ manifestFile < nextFile
      /\ mem \in DOMAIN mems /\ \A n \in DOMAIN logs : n <= mem
  BY <1>1 DEF Books, Opening
<1> HIDE DEF w
<1>6. Collect(w, mem, {})
  BY <1>1, <1>3
<1>7. /\ DOMAIN tables' \subseteq DOMAIN tables /\ tables' \in [DOMAIN tables' -> SUBSET Entry]
      /\ DOMAIN tables \cap Live(w, {}) \subseteq DOMAIN tables'
      /\ DOMAIN logs' \subseteq DOMAIN logs /\ logs' \in [DOMAIN logs' -> Seq(SUBSET Entry)]
      /\ IsFiniteSet(DOMAIN logs')
      /\ \A n \in DOMAIN logs' : logs'[n] = logs[n] /\ (~bgError => n >= mem)
      /\ \A n \in DOMAIN logs : n >= mem => n \in DOMAIN logs'
      /\ current \in DOMAIN manifests' /\ manifests'[current] = Cur
  BY <1>2, <1>6, CollectIs
<1>8. Files(w) \subseteq DOMAIN tables' /\ \A n \in DOMAIN tables' : n \in Files(w)
  <2>1. Files(w) \subseteq Live(w, {})
    BY LiveHas
  <2>2. Live(w, {}) = Files(w)
    BY <1>2 DEF Live
  <2>3. DOMAIN tables' \subseteq Live(w, {})
    BY <1>2, <1>6 DEF Collect, Restrict
  <2> QED BY <1>3, <1>5, <1>7, <2>1, <2>2, <2>3
<1>9. Cur' = Cur /\ current' = current
  BY <1>1, <1>7 DEF Cur
<1>10. TypeInv'
  BY <1>1, <1>2, <1>3, <1>7, <1>9 DEF TypeInv
<1>11. ManifestBooks(Cur, current, DOMAIN tables)'
  <2>1. Files(Cur.version) \subseteq DOMAIN tables'
    BY <1>4, <1>8
  <2> QED BY <1>9, <2>1 DEF Books, ManifestBooks
<1>12. Closed' /\ Opening' /\ Tasks' /\ Readers' /\ (faults = 0 => ~bgError)'
  BY <1>1, <1>2 DEF Closed, Opening, Tasks, Readers, Books
<1>13. Running'
  <2>1. \A n \in DOMAIN tables' : n < nextFile
    BY <1>3, <1>5, <1>8
  <2>2. mem \in DOMAIN logs'
    BY <1>2, <1>5, <1>7 DEF TypeInv
  <2>3. \A n \in DOMAIN logs' : n < nextFile /\ n = mem
    <3>1. mem \in Nat /\ DOMAIN logs \subseteq Nat /\ nextFile \in Nat
      BY <1>2 DEF TypeInv
    <3>2. \A n \in DOMAIN logs' : n >= mem /\ n <= mem /\ n \in Nat
      BY <1>2, <1>5, <1>7, <3>1
    <3>3. \A n \in DOMAIN logs' : n = mem
      BY <3>1, <3>2
    <3> QED BY <1>5, <3>3
  <2>4. Ahead(Cur.version, w, {}, {})
    BY <1>4 DEF Ahead
  <2>5. manifestFile < nextFile /\ Cur.next <= nextFile
    BY <1>2, <1>4, <1>5 DEF TypeInv
  <2> QED BY <1>1, <1>2, <1>3, <1>4, <1>5, <1>8, <1>9, <2>1, <2>2, <2>3, <2>4, <2>5 DEF Running
<1> QED BY <1>10, <1>11, <1>12, <1>13 DEF Books

\* Every step keeps the books.
LEMMA BooksStep == Books /\ [LevelDBNext]_levelDBVars => Books'
<1> SUFFICES ASSUME Books, [LevelDBNext]_levelDBVars PROVE Books'
  OBVIOUS
<1>1. CASE SwitchMem
  BY <1>1, SwitchMemBooks
<1>2. CASE \E b \in Batches : WriteLog(b)
  BY <1>2, WriteLogBooks
<1>3. CASE WriteInsert
  BY <1>3, WriteInsertBooks
<1>4. CASE WritePublish
  BY <1>4, WritePublishBooks
<1>5. CASE OpenView
  BY <1>5, OpenViewBooks
<1>6. CASE \E w \in views : CloseView(w)
  BY <1>6, CloseViewBooks
<1>7. CASE FlushBuild
  BY <1>7, FlushBuildBooks
<1>8. CASE FlushLog
  BY <1>8, FlushLogBooks
<1>9. CASE FlushInstall
  BY <1>9, FlushInstallBooks
<1>10. CASE FlushFail
  BY <1>10, FlushFailBooks
<1>11. CASE \E l \in Levels : \E n \in version[l] : CompactStart(l, n)
  BY <1>11, CompactStartBooks
<1>12. CASE CompactOutput
  BY <1>12, CompactOutputBooks
<1>13. CASE CompactLog
  BY <1>13, CompactLogBooks
<1>14. CASE CompactInstall
  BY <1>14, CompactInstallBooks
<1>15. CASE CompactFail
  BY <1>15, CompactFailBooks
<1>16. CASE Crash
  BY <1>16, CrashBooks
<1>17. CASE PowerCut
  BY <1>17, PowerCutBooks
<1>18. CASE OpenReplay
  BY <1>18, OpenReplayBooks
<1>19. CASE OpenManifest
  BY <1>19, OpenManifestBooks
<1>20. CASE OpenCurrent
  BY <1>20, OpenCurrentBooks
<1>21. CASE OpenDone
  BY <1>21, OpenDoneBooks
<1>22. CASE UNCHANGED levelDBVars
  BY <1>22 DEF levelDBVars, disk, books, Books, TypeInv, Cur, Closed, Opening, NewManifest, Tasks, Readers, Running
<1> QED BY <1>1, <1>2, <1>3, <1>4, <1>5, <1>6, <1>7, <1>8, <1>9, <1>10, <1>11, <1>12, <1>13, <1>14,
           <1>15, <1>16, <1>17, <1>18, <1>19, <1>20, <1>21, <1>22
        DEF LevelDBNext, Write, Read, Background, Restart

\* The files are there.
LEMMA BooksHold == LevelDBSpec => []Books
<1>1. LevelDBInit => Books
  BY InitialBooks
<1> QED BY <1>1, BooksStep, PTL DEF LevelDBSpec

\* All that the process and the files hold has the shape it should have: no log
\* or table has an entry nobody could write, and the numbers are numbers.
THEOREM LevelDBTypeCorrect == LevelDBSpec => []TypeInv
<1>1. Books => TypeInv
  BY DEF Books
<1> QED BY <1>1, BooksHold, PTL

\* DBImpl::DeleteObsoleteFiles deletes nothing that the version in use, a reader's
\* version, a running compaction, the manifest CURRENT names or an unflushed
\* memtable needs, and VersionSet::NewFileNumber gives no number in use again.
THEOREM LevelDBFilesInUseExist == LevelDBSpec => []FilesInUseExist
<1>1. Books => FilesInUseExist
  <2> SUFFICES ASSUME Books PROVE FilesInUseExist
    OBVIOUS
  <2>1. Files(version) \subseteq DOMAIN tables
    <3>1. CASE up = "down"
      BY <3>1, NoFilesIs DEF Books, Closed
    <3>2. CASE up \in {"replayed", "written", "pointed"}
      BY <3>2 DEF Books, Opening
    <3>3. CASE up = "open"
      BY <3>3 DEF Books, Running
    <3> QED BY <3>1, <3>2, <3>3 DEF Books, TypeInv
  <2>2. Files(manifests[current].version) \subseteq DOMAIN tables
    BY DEF Books, ManifestBooks, Cur
  <2>3. \A w \in views : Files(w.version) \subseteq DOMAIN tables
    BY DEF Books, Readers, ViewBooks
  <2>4. ASSUME NEW c \in comp PROVE c.in0 \cup c.in1 \cup c.outs \subseteq DOMAIN tables
    <3>1. CompBooks(c, version, DOMAIN tables) /\ c.version \in Versions
      BY DEF Books, Tasks, TypeInv, CompRecord
    <3>2. c.in0 \subseteq Files(c.version) /\ c.in1 \subseteq Files(c.version)
      BY <3>1, FilesAre DEF CompBooks
    <3> QED BY <3>1, <3>2 DEF CompBooks
  <2>5. up = "open" => {mem, imm} \ {0} \subseteq DOMAIN logs
    BY DEF Books, Running
  <2> QED BY <2>1, <2>2, <2>3, <2>4, <2>5 DEF FilesInUseExist
<1> QED BY <1>1, BooksHold, PTL
=============================================================================

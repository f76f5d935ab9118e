-------------------------- MODULE ChatScreenProofs --------------------------
(***************************************************************************)
(* Theorems about ChatScreen, for any messages, listeners and photos.      *)
(*                                                                         *)
(* The argument counts.  What the listeners have told of is either on the  *)
(* main queue, once, or was handled; the array has as many rows as objects *)
(* were handled, and only a photo is ever written over another row.  So a  *)
(* message that is missing means a photo that is there twice.              *)
(***************************************************************************)
EXTENDS ChatScreen, SequenceTheorems, FiniteSetTheorems, TLAPS

\* The objects in a queue of blocks, each only once; whether it has a block.
Waiting(q) == {q[i].item : i \in {j \in DOMAIN q : q[j].kind = "added"}}
Once(q) ==
    \A i, j \in DOMAIN q :
        q[i].kind = "added" /\ q[j].kind = "added" /\ q[i].item = q[j].item => i = j
Has(q, kind) == \E i \in DOMAIN q : q[i].kind = kind

\* The objects the listeners have made.
Told == {o \in [msg : Messages, via : DOMAIN observers] : stored[o.msg] = observers[o.via]}

QueueIsTold == Waiting(main) \subseteq Told /\ Once(main)
RowsAreHandled == \A i \in DOMAIN items : items[i] \in Told \ Waiting(main)
OnePhotoRow ==
    \A i, j \in DOMAIN items : i # j /\ items[i] = items[j] => items[i].msg \in Photos
RowsAreCounted ==
    /\ IsFiniteSet(Told \ Waiting(main))
    /\ Cardinality(Told \ Waiting(main)) = Len(items)

\* A row that something is to be done to is there.
RowsExist ==
    /\ rows <= Len(items)
    /\ Has(main, "reload") => items # <<>>
    /\ \A i \in DOMAIN main : main[i].kind = "reloadRow" => main[i].row <= Len(items)
    /\ \A d \in downloads : /\ d.row <= Len(items)
                            /\ d.item.msg \in Photos
                            /\ d.item \in Told \ Waiting(main)
ReloadComes == rows = Len(items) \/ Has(main, "reload")

\* A location is stored once its write was made, and made only once.
Unwritten == {"idle", "reading", "asked"}
SentIsStored == \A p \in Pins : sending[p] \in Unwritten <=> stored[p] = Absent
CompletedWasSent ==
    \A i \in DOMAIN main : main[i].kind = "completed" => sending[main[i].msg] \notin Unwritten
WritesAreAsked ==
    \A i \in DOMAIN main : main[i].kind = "write" => sending[main[i].msg] = "asked"
WrittenOnce ==
    \A i, j \in DOMAIN main :
        main[i].kind = "write" /\ main[j].kind = "write" /\ main[i].msg = main[j].msg => i = j
WritesInvariant == WritesAreAsked /\ WrittenOnce

ScreenInvariant ==
    /\ TypeOK /\ QueueIsTold /\ RowsAreHandled /\ OnePhotoRow /\ RowsAreCounted
    /\ RowsExist /\ ReloadComes /\ SentIsStored /\ CompletedWasSent

-----------------------------------------------------------------------------
(* Queues *)

\* Where the elements of a longer queue come from.
LEMMA Joined ==
  ASSUME NEW S, NEW q \in Seq(S), NEW es \in Seq(S)
  PROVE  /\ q \o es \in Seq(S)
         /\ \A i \in DOMAIN q : i \in DOMAIN (q \o es) /\ (q \o es)[i] = q[i]
         /\ \A i \in DOMAIN es : /\ Len(q) + i \in DOMAIN (q \o es)
                                 /\ (q \o es)[Len(q) + i] = es[i]
         /\ \A i \in DOMAIN (q \o es) :
                \/ i \in DOMAIN q /\ (q \o es)[i] = q[i]
                \/ /\ i - Len(q) \in DOMAIN es /\ i = Len(q) + (i - Len(q))
                   /\ i \notin DOMAIN q /\ (q \o es)[i] = es[i - Len(q)]
<1>1. /\ Len(q) \in Nat /\ DOMAIN q = 1..Len(q)
      /\ Len(es) \in Nat /\ DOMAIN es = 1..Len(es)
  BY LenProperties
<1>2. /\ q \o es \in Seq(S) /\ Len(q \o es) = Len(q) + Len(es)
      /\ \A i \in 1 .. Len(q) + Len(es) :
             (q \o es)[i] = IF i <= Len(q) THEN q[i] ELSE es[i - Len(q)]
  BY ConcatProperties
<1>3. DOMAIN (q \o es) = 1..(Len(q) + Len(es))
  BY <1>2, LenProperties
<1> HIDE <1>2
<1>4. QED
  BY <1>1, <1>2, <1>3

\* What a queue has once its head has run.
LEMMA AfterHead ==
  ASSUME NEW S, NEW q \in Seq(S), q # <<>>
  PROVE  /\ Tail(q) \in Seq(S) /\ Head(q) = q[1] /\ 1 \in DOMAIN q
         /\ \A i \in DOMAIN Tail(q) : i + 1 \in DOMAIN q /\ i + 1 # 1 /\ Tail(q)[i] = q[i + 1]
         /\ \A i \in DOMAIN q : i # 1 => /\ i - 1 \in DOMAIN Tail(q)
                                         /\ Tail(q)[i - 1] = q[i]
<1>1. /\ Len(q) \in Nat /\ DOMAIN q = 1..Len(q) /\ Len(q) # 0
      /\ Tail(q) \in Seq(S) /\ Len(Tail(q)) = Len(q) - 1
      /\ \A i \in 1..Len(Tail(q)) : Tail(q)[i] = q[i + 1]
  BY LenProperties, EmptySeq, HeadTailProperties
<1>2. DOMAIN Tail(q) = 1..(Len(q) - 1)
  BY <1>1, LenProperties
<1>3. Head(q) = q[1]
  BY <1>1
<1>4. QED
  BY <1>1, <1>2, <1>3

\* The first element leaves, the others move up: an object that waited there
\* is handled.
LEMMA FirstLeaves ==
  ASSUME NEW q, NEW t, 1 \in DOMAIN q,
         \A i \in DOMAIN t : i \in Nat /\ i + 1 \in DOMAIN q /\ i + 1 # 1 /\ t[i] = q[i + 1],
         \A i \in DOMAIN q : i # 1 => i - 1 \in DOMAIN t /\ t[i - 1] = q[i]
  PROVE  /\ q[1].kind # "added" => Waiting(t) = Waiting(q)
         /\ q[1].kind = "added" /\ Once(q) => /\ q[1].item \in Waiting(q)
                                              /\ Waiting(t) = Waiting(q) \ {q[1].item}
         /\ Once(q) => Once(t)
         /\ \A kind : q[1].kind # kind /\ Has(q, kind) => Has(t, kind)
         /\ \A kind : Has(t, kind) => Has(q, kind)
<1>1. \A o : o \in Waiting(q) <=> \E i \in DOMAIN q : q[i].kind = "added" /\ q[i].item = o
  BY DEF Waiting
<1>2. \A o : o \in Waiting(t) <=> \E i \in DOMAIN t : t[i].kind = "added" /\ t[i].item = o
  BY DEF Waiting
<1>3. Waiting(t) \subseteq Waiting(q)
  BY <1>1, <1>2
<1>4. ASSUME NEW i \in DOMAIN q, q[i].kind = "added", i # 1
      PROVE  q[i].item \in Waiting(t)
  BY <1>2, <1>4
<1>5. q[1].kind # "added" => Waiting(q) \subseteq Waiting(t)
  BY <1>1, <1>4
<1>6. ASSUME q[1].kind = "added", Once(q)
      PROVE  q[1].item \in Waiting(q) /\ Waiting(t) = Waiting(q) \ {q[1].item}
  <2>1. q[1].item \in Waiting(q)
    BY <1>1, <1>6
  <2>2. Waiting(q) \ {q[1].item} \subseteq Waiting(t)
    BY <1>1, <1>4
  <2>3. q[1].item \notin Waiting(t)
    BY <1>2, <1>6 DEF Once
  <2>4. QED
    BY <1>3, <2>1, <2>2, <2>3
<1>7. ASSUME Once(q) PROVE Once(t)
  <2> SUFFICES ASSUME NEW i \in DOMAIN t, NEW j \in DOMAIN t,
                      t[i].kind = "added", t[j].kind = "added", t[i].item = t[j].item
               PROVE  i = j
    BY DEF Once
  <2>1. i + 1 = j + 1
    BY <1>7 DEF Once
  <2>2. QED
    BY <2>1
<1>8. \A kind : q[1].kind # kind /\ Has(q, kind) => Has(t, kind)
  BY DEF Has
<1>9. \A kind : Has(t, kind) => Has(q, kind)
  BY DEF Has
<1>10. QED
  BY <1>3, <1>5, <1>6, <1>7, <1>8, <1>9

\* The same of a sequence and its tail.
LEMMA HeadRuns ==
  ASSUME NEW S, NEW q \in Seq(S), q # <<>>
  PROVE  /\ Head(q).kind # "added" => Waiting(Tail(q)) = Waiting(q)
         /\ Head(q).kind = "added" /\ Once(q) => /\ Head(q).item \in Waiting(q)
                                                 /\ Waiting(Tail(q)) = Waiting(q) \ {Head(q).item}
         /\ Once(q) => Once(Tail(q))
         /\ \A kind : Head(q).kind # kind /\ Has(q, kind) => Has(Tail(q), kind)
         /\ \A kind : Has(Tail(q), kind) => Has(q, kind)
<1>1. \A i \in DOMAIN Tail(q) : i \in Nat
  BY AfterHead, LenProperties
<1>2. Head(q) = q[1]
  BY AfterHead
<1>3. /\ 1 \in DOMAIN q
      /\ \A i \in DOMAIN Tail(q) : /\ i \in Nat /\ i + 1 \in DOMAIN q /\ i + 1 # 1
                                   /\ Tail(q)[i] = q[i + 1]
      /\ \A i \in DOMAIN q : i # 1 => i - 1 \in DOMAIN Tail(q) /\ Tail(q)[i - 1] = q[i]
  BY <1>1, AfterHead
<1>4. PICK t : t = Tail(q)
  OBVIOUS
<1>5. /\ q[1].kind # "added" => Waiting(t) = Waiting(q)
      /\ q[1].kind = "added" /\ Once(q) => /\ q[1].item \in Waiting(q)
                                           /\ Waiting(t) = Waiting(q) \ {q[1].item}
      /\ Once(q) => Once(t)
      /\ \A kind : q[1].kind # kind /\ Has(q, kind) => Has(t, kind)
      /\ \A kind : Has(t, kind) => Has(q, kind)
  BY <1>3, <1>4, FirstLeaves
<1>6. QED
  BY <1>2, <1>4, <1>5

\* Blocks are queued.
LEMMA BlocksQueued ==
  ASSUME NEW S, NEW q \in Seq(S), NEW es \in Seq(S)
  PROVE  /\ Waiting(q \o es) = Waiting(q) \union Waiting(es)
         /\ Once(q) /\ Once(es) /\ Waiting(q) \cap Waiting(es) = {} => Once(q \o es)
         /\ \A kind : Has(q \o es, kind) <=> Has(q, kind) \/ Has(es, kind)
<1> DEFINE r == q \o es
<1>0. /\ \A i \in DOMAIN q : i \in DOMAIN r /\ r[i] = q[i]
      /\ \A i \in DOMAIN es : Len(q) + i \in DOMAIN r /\ r[Len(q) + i] = es[i]
      /\ \A i \in DOMAIN r : \/ i \in DOMAIN q /\ r[i] = q[i]
                             \/ /\ i - Len(q) \in DOMAIN es /\ i = Len(q) + (i - Len(q))
                                /\ i \notin DOMAIN q /\ r[i] = es[i - Len(q)]
  BY Joined
<1> HIDE DEF r
<1>1. Waiting(r) \subseteq Waiting(q) \union Waiting(es)
  BY <1>0 DEF Waiting
<1>2. Waiting(q) \subseteq Waiting(r) /\ Waiting(es) \subseteq Waiting(r)
  BY <1>0 DEF Waiting
<1>3. ASSUME Once(q), Once(es), Waiting(q) \cap Waiting(es) = {} PROVE Once(r)
  <2> SUFFICES ASSUME NEW i \in DOMAIN r, NEW j \in DOMAIN r,
                      r[i].kind = "added", r[j].kind = "added", r[i].item = r[j].item
               PROVE  i = j
    BY DEF Once
  <2>1. CASE i \in DOMAIN q /\ j \in DOMAIN q
    BY <1>0, <1>3, <2>1 DEF Once
  <2>2. CASE i \notin DOMAIN q /\ j \notin DOMAIN q
    <3>1. i - Len(q) = j - Len(q)
      BY <1>0, <1>3, <2>2 DEF Once
    <3>2. QED
      BY <1>0, <2>2, <3>1
  <2>a. ASSUME NEW k \in DOMAIN r, r[k].kind = "added"
        PROVE  IF k \in DOMAIN q THEN r[k].item \in Waiting(q) ELSE r[k].item \in Waiting(es)
    BY <1>0, <2>a DEF Waiting
  <2>3. CASE i \in DOMAIN q /\ j \notin DOMAIN q
    BY <1>3, <2>3, <2>a
  <2>4. CASE i \notin DOMAIN q /\ j \in DOMAIN q
    BY <1>3, <2>4, <2>a
  <2>5. QED
    BY <2>1, <2>2, <2>3, <2>4
<1>4. \A kind : Has(r, kind) <=> Has(q, kind) \/ Has(es, kind)
  BY <1>0 DEF Has
<1>5. QED
  BY <1>1, <1>2, <1>3, <1>4 DEF r

-----------------------------------------------------------------------------
(* Blocks of the main queue *)

LEMMA BlockTypes ==
  /\ \A n \in Nodes : [kind |-> "pointer", node |-> n] \in Blocks
  /\ [kind |-> "reload"] \in Blocks
  /\ \A r \in Nat \ {0} : [kind |-> "reloadRow", row |-> r] \in Blocks
  /\ \A p \in Pins : [kind |-> "completed", msg |-> p] \in Blocks
  /\ \A p \in Pins, n \in Nodes \union {Absent} :
         [kind |-> "write", msg |-> p, node |-> n] \in Blocks
  /\ \A m \in Messages, i \in Nat \ {0} :
         /\ Added(m, i) \in Blocks /\ Added(m, i).kind = "added"
         /\ Added(m, i).item = [msg |-> m, via |-> i]
  BY DEF Blocks, Added, Items

LEMMA BlockFields ==
  ASSUME NEW b \in Blocks
  PROVE  /\ b.kind = "pointer" => b.node \in Nodes
         /\ b.kind = "added" => /\ b.item \in Items
                                /\ b = Added(b.item.msg, b.item.via)
         /\ b.kind = "reloadRow" => b.row \in Nat \ {0}
         /\ b.kind = "completed" => b.msg \in Pins
         /\ b.kind = "write" => b.msg \in Pins /\ b.node \in Nodes \union {Absent}
  BY DEF Blocks, Added, Items

\* What was handled is what is not waiting any more.
LEMMA HandledIs ==
  ASSUME TypeOK
  PROVE  Handled = Told \ Waiting(main)
<1>1. main \in Seq(Blocks) /\ \A i \in DOMAIN main : main[i] \in Blocks
  BY ElementOfSeq, LenProperties DEF TypeOK
<1>2. \A i \in DOMAIN observers : i \in Nat \ {0}
  BY LenProperties DEF TypeOK
<1>3. ASSUME NEW o \in [msg : Messages, via : DOMAIN observers]
      PROVE  (\E i \in DOMAIN main : main[i] = Added(o.msg, o.via)) <=> o \in Waiting(main)
  <2>1. o = [msg |-> o.msg, via |-> o.via] /\ o.msg \in Messages /\ o.via \in Nat \ {0}
    BY <1>2
  <2>2. ASSUME NEW i \in DOMAIN main, main[i] = Added(o.msg, o.via)
        PROVE  o \in Waiting(main)
    <3>1. main[i].kind = "added" /\ main[i].item = o
      BY <2>1, <2>2, BlockTypes
    <3>2. QED
      BY <3>1 DEF Waiting
  <2>3. ASSUME o \in Waiting(main)
        PROVE  \E i \in DOMAIN main : main[i] = Added(o.msg, o.via)
    <3>1. PICK i \in DOMAIN main : main[i].kind = "added" /\ main[i].item = o
      BY <2>3 DEF Waiting
    <3>2. QED
      BY <1>1, <3>1, BlockFields
  <2>4. QED
    BY <2>2, <2>3
<1>4. QED
  BY <1>3 DEF Handled, Told

\* A block may run, others are queued, and none of them hands an object over.
QuietlyAfter(q, es, r) ==
    /\ \A i \in DOMAIN es : es[i].kind # "added"
    /\ \/ r = q \o es
       \/ q # <<>> /\ Head(q).kind # "added" /\ r = Tail(q) \o es

LEMMA Quiet ==
  ASSUME NEW q \in Seq(Blocks), NEW es \in Seq(Blocks), NEW r, Once(q), QuietlyAfter(q, es, r)
  PROVE  /\ r \in Seq(Blocks) /\ Waiting(r) = Waiting(q) /\ Once(r)
         /\ \A i \in DOMAIN r : \/ \E j \in DOMAIN q : r[i] = q[j]
                               \/ \E j \in DOMAIN es : r[i] = es[j]
         /\ \A kind : Has(q, kind) /\ (r = q \o es \/ Head(q).kind # kind) => Has(r, kind)
         /\ \A kind : Has(es, kind) => Has(r, kind)
<1> USE DEF QuietlyAfter
<1>1. Waiting(es) = {} /\ Once(es)
  BY DEF Waiting, Once
<1>j. ASSUME NEW s \in Seq(Blocks), Once(s)
      PROVE  s \o es \in Seq(Blocks) /\ Waiting(s \o es) = Waiting(s) /\ Once(s \o es)
  <2>1. s \o es \in Seq(Blocks)
    BY Joined
  <2>2. /\ Waiting(s \o es) = Waiting(s) \union Waiting(es)
        /\ Once(s) /\ Once(es) /\ Waiting(s) \cap Waiting(es) = {} => Once(s \o es)
    BY BlocksQueued
  <2>3. QED
    BY <1>1, <1>j, <2>1, <2>2
<1>2. CASE r = q \o es
  <2>1. r \in Seq(Blocks) /\ Waiting(r) = Waiting(q) /\ Once(r)
    BY <1>2, <1>j
  <2>2. \A i \in DOMAIN r : \/ \E j \in DOMAIN q : r[i] = q[j]
                           \/ \E j \in DOMAIN es : r[i] = es[j]
    BY <1>2, Joined
  <2>3. \A kind : Has(r, kind) <=> Has(q, kind) \/ Has(es, kind)
    BY <1>2, BlocksQueued
  <2>4. QED
    BY <2>1, <2>2, <2>3
<1>3. CASE q # <<>> /\ Head(q).kind # "added" /\ r = Tail(q) \o es
  <2>1. /\ Tail(q) \in Seq(Blocks) /\ Waiting(Tail(q)) = Waiting(q) /\ Once(Tail(q))
        /\ \A kind : Head(q).kind # kind /\ Has(q, kind) => Has(Tail(q), kind)
        /\ \A i \in DOMAIN Tail(q) : \E j \in DOMAIN q : Tail(q)[i] = q[j]
    <3>1. Tail(q) \in Seq(Blocks)
          /\ \A i \in DOMAIN Tail(q) : i + 1 \in DOMAIN q /\ Tail(q)[i] = q[i + 1]
      BY <1>3, AfterHead
    <3>2. QED
      BY <1>3, <3>1, HeadRuns
  <2>2. PICK t \in Seq(Blocks) : t = Tail(q)
    BY <2>1
  <2>r. r = t \o es
    BY <1>3, <2>2
  <2>3. r \in Seq(Blocks) /\ Waiting(r) = Waiting(q) /\ Once(r)
    BY <1>j, <2>1, <2>2, <2>r
  <2>4. \A i \in DOMAIN r : \/ \E j \in DOMAIN t : r[i] = t[j]
                           \/ \E j \in DOMAIN es : r[i] = es[j]
    BY <2>r, Joined
  <2>5. \A kind : Has(r, kind) <=> Has(t, kind) \/ Has(es, kind)
    BY <2>r, BlocksQueued
  <2>6. \A i \in DOMAIN r : \/ \E j \in DOMAIN q : r[i] = q[j]
                           \/ \E j \in DOMAIN es : r[i] = es[j]
    BY <2>1, <2>2, <2>4
  <2>7. ASSUME NEW kind, Has(q, kind), r = q \o es \/ Head(q).kind # kind
        PROVE  Has(r, kind)
    <3>1. CASE Head(q).kind # kind
      BY <2>1, <2>2, <2>5, <2>7, <3>1
    <3>2. CASE r = q \o es
      BY <2>7, <3>2, BlocksQueued
    <3>3. QED
      BY <2>7, <3>1, <3>2
  <2>8. QED
    BY <2>3, <2>5, <2>6, <2>7
<1>4. QED
  BY <1>2, <1>3

-----------------------------------------------------------------------------
(* Steps that hand over nothing and leave the array alone *)

\* Only blocks of the other kinds run or are queued.
LEMMA QuietStepKeeps ==
  ASSUME ScreenInvariant, TypeOK', SentIsStored',
         UNCHANGED <<observers, stored, items, rows>>,
         downloads' = downloads \/
             \A d \in downloads' : /\ d.row <= Len(items) /\ d.item.msg \in Photos
                                   /\ d.item \in Told \ Waiting(main),
         NEW es \in Seq(Blocks),
         \A i \in DOMAIN es : es[i].kind \notin {"added", "reload", "reloadRow"},
         \A i \in DOMAIN es : es[i].kind = "completed" => sending'[es[i].msg] \notin Unwritten,
         \A p \in Pins : sending[p] \notin Unwritten => sending'[p] \notin Unwritten,
         \/ main' = main \o es
         \/ main # <<>> /\ Head(main).kind \notin {"added", "reload"} /\ main' = Tail(main) \o es
  PROVE  ScreenInvariant'
<1> USE DEF ScreenInvariant
<1>1. main \in Seq(Blocks) /\ Once(main)
  BY DEF TypeOK, QueueIsTold
<1>2. /\ Waiting(main') = Waiting(main) /\ Once(main')
      /\ \A i \in DOMAIN main' : \/ \E j \in DOMAIN main : main'[i] = main[j]
                               \/ \E j \in DOMAIN es : main'[i] = es[j]
      /\ \A kind : Has(main, kind) /\ (main' = main \o es \/ Head(main).kind # kind) => Has(main', kind)
  <2>1. QuietlyAfter(main, es, main')
    BY DEF QuietlyAfter
  <2>2. PICK q, r : q = main /\ r = main'
    OBVIOUS
  <2>3. q \in Seq(Blocks) /\ Once(q) /\ QuietlyAfter(q, es, r)
    BY <1>1, <2>1, <2>2
  <2>4. Waiting(r) = Waiting(q) /\ Once(r)
    BY <2>3, Quiet
  <2>5. \A i \in DOMAIN r : \/ \E j \in DOMAIN q : r[i] = q[j]
                           \/ \E j \in DOMAIN es : r[i] = es[j]
    BY <2>3, Quiet
  <2>6. \A kind : Has(q, kind) /\ (r = q \o es \/ Head(q).kind # kind) => Has(r, kind)
    BY <2>3, Quiet
  <2>7. QED
    BY <2>2, <2>4, <2>5, <2>6
<1>3. Told' = Told /\ Waiting(main)' = Waiting(main) /\ Once(main)'
  BY <1>2 DEF Told
<1>4. QueueIsTold' /\ RowsAreHandled' /\ OnePhotoRow' /\ RowsAreCounted'
  BY <1>3 DEF QueueIsTold, RowsAreHandled, OnePhotoRow, RowsAreCounted
<1>5. ReloadComes'
  BY <1>2 DEF ReloadComes
<1>6. \A i \in DOMAIN main' : main'[i].kind \in {"reload", "reloadRow"} =>
          \E j \in DOMAIN main : main'[i] = main[j]
  BY <1>2
<1>7. RowsExist'
  <2>1. Has(main', "reload") => Has(main, "reload")
    BY <1>6 DEF Has
  <2>2. \A i \in DOMAIN main' : main'[i].kind = "reloadRow" => main'[i].row <= Len(items)
    BY <1>6 DEF RowsExist
  <2>3. \A d \in downloads' : /\ d.row <= Len(items) /\ d.item.msg \in Photos
                               /\ d.item \in Told \ Waiting(main)
    BY DEF RowsExist
  <2>4. QED
    BY <1>3, <2>1, <2>2, <2>3 DEF RowsExist
<1>8. CompletedWasSent'
  <2>1. \A i \in DOMAIN main : main[i].kind = "completed" => main[i].msg \in Pins
    BY <1>1, BlockFields, ElementOfSeq, LenProperties
  <2>2. QED
    BY <1>2, <2>1 DEF CompletedWasSent
<1>9. QED
  BY <1>4, <1>5, <1>7, <1>8

LEMMA SetPointerKeeps ==
  ASSUME ScreenInvariant, NEW n \in Nodes, SetPointer(n)
  PROVE  ScreenInvariant'
<1>1. TypeOK /\ [kind |-> "pointer", node |-> n] \in Blocks
  BY BlockTypes DEF ScreenInvariant
<1>2. PICK b \in Blocks : b = [kind |-> "pointer", node |-> n]
  BY <1>1
<1>3. <<b>> \in Seq(Blocks) /\ main' = main \o <<b>>
  BY <1>1, <1>2, AppendIsConcat DEF SetPointer, TypeOK
<1>4. TypeOK'
  BY <1>1, <1>2, <1>3 DEF SetPointer, TypeOK, screen
<1>5. SentIsStored'
  BY DEF SetPointer, ScreenInvariant, SentIsStored
<1>6. \A i \in DOMAIN <<b>> : <<b>>[i].kind = "pointer"
  BY <1>2
<1>7. QED
  BY <1>3, <1>4, <1>5, <1>6, QuietStepKeeps DEF SetPointer, screen

LEMMA ReadEntryKeeps ==
  ASSUME ScreenInvariant, NEW p \in Pins, ReadEntry(p)
  PROVE  ScreenInvariant'
<1>1. /\ TypeOK /\ pointer \in Nodes \union {Absent}
      /\ [kind |-> "write", msg |-> p, node |-> pointer] \in Blocks
  BY BlockTypes DEF ScreenInvariant, TypeOK
<1>2. PICK b \in Blocks : b = [kind |-> "write", msg |-> p, node |-> pointer]
  BY <1>1
<1>3. <<b>> \in Seq(Blocks) /\ main' = main \o <<b>>
  BY <1>1, <1>2, AppendIsConcat DEF ReadEntry, TypeOK
<1>4. TypeOK'
  BY <1>1, <1>2, <1>3 DEF ReadEntry, TypeOK, screen
<1>5. SentIsStored'
  BY <1>1 DEF ReadEntry, ScreenInvariant, SentIsStored, TypeOK, Unwritten
<1>6. /\ \A i \in DOMAIN <<b>> : <<b>>[i].kind = "write"
      /\ \A q \in Pins : sending[q] \notin Unwritten => sending'[q] \notin Unwritten
  BY <1>1, <1>2 DEF ReadEntry, TypeOK, Unwritten
<1>7. QED
  BY <1>3, <1>4, <1>5, <1>6, QuietStepKeeps DEF ReadEntry, screen

LEMMA SendLocationKeeps ==
  ASSUME ScreenInvariant, NEW p \in Pins, SendLocation(p)
  PROVE  ScreenInvariant'
<1>1. TypeOK /\ main \in Seq(Blocks)
  BY DEF ScreenInvariant, TypeOK
<1>2. PICK es : es = <<>> /\ es \in Seq(Blocks)
  BY EmptySeq
<1>3. main' = main \o es
  BY <1>1, <1>2, ConcatEmptySeq DEF SendLocation
<1>4. TypeOK'
  BY <1>1 DEF SendLocation, TypeOK, screen
<1>5. SentIsStored'
  BY <1>1 DEF SendLocation, ScreenInvariant, SentIsStored, TypeOK, Unwritten
<1>6. \A q \in Pins : sending[q] \notin Unwritten => sending'[q] \notin Unwritten
  BY <1>1 DEF SendLocation, TypeOK, Unwritten
<1>7. UNCHANGED <<observers, stored, items, rows, downloads>>
  BY DEF SendLocation, screen
<1>8. /\ \A i \in DOMAIN es : es[i].kind \notin {"added", "reload", "reloadRow"}
      /\ \A i \in DOMAIN es : es[i].kind = "completed" => sending'[es[i].msg] \notin Unwritten
  BY <1>2
<1>9. QED
  BY <1>2, <1>3, <1>4, <1>5, <1>6, <1>7, <1>8, QuietStepKeeps

LEMMA LocationAckedKeeps ==
  ASSUME ScreenInvariant, NEW p \in Pins, LocationAcked(p)
  PROVE  ScreenInvariant'
<1>1. TypeOK /\ [kind |-> "completed", msg |-> p] \in Blocks
  BY BlockTypes DEF ScreenInvariant
<1>2. PICK b \in Blocks : b = [kind |-> "completed", msg |-> p]
  BY <1>1
<1>3. <<b>> \in Seq(Blocks) /\ main' = main \o <<b>>
  BY <1>1, <1>2, AppendIsConcat DEF LocationAcked, TypeOK
<1>4. TypeOK'
  BY <1>1, <1>2, <1>3 DEF LocationAcked, TypeOK, data, screen
<1>5. SentIsStored'
  BY DEF LocationAcked, ScreenInvariant, SentIsStored, data
<1>6. /\ \A i \in DOMAIN <<b>> : /\ <<b>>[i].kind = "completed"
                              /\ sending'[<<b>>[i].msg] \notin Unwritten
      /\ \A q \in Pins : sending[q] \notin Unwritten => sending'[q] \notin Unwritten
  BY <1>2 DEF LocationAcked, data, Unwritten
<1>7. QED
  BY <1>3, <1>4, <1>5, <1>6, QuietStepKeeps DEF LocationAcked, data, screen

LEMMA LocationSentKeeps ==
  ASSUME ScreenInvariant, LocationSent
  PROVE  ScreenInvariant'
<1> USE DEF ScreenInvariant
<1>0. TypeOK /\ main \in Seq(Blocks) /\ main # <<>> /\ Head(main).kind = "completed"
  BY DEF LocationSent, Runs, TypeOK
<1>1. Head(main) \in Blocks
  BY <1>0, HeadTailProperties
<1>2. PICK p \in Pins : p = Head(main).msg
  BY <1>0, <1>1, BlockFields
<1>3. PICK es : /\ main' = Tail(main) \o es
                /\ es = IF sending[p] = "creating" /\ pointer # stored[p]
                        THEN <<[kind |-> "pointer", node |-> stored[p]]>> ELSE <<>>
  BY <1>2 DEF LocationSent, Then
<1>4. p \in Messages /\ stored[p] \in Nodes \union {Absent}
  BY <1>0, ChatScreenAssumption DEF TypeOK
<1>5. sending[p] = "creating" => stored[p] \in Nodes
  BY <1>4 DEF SentIsStored, Unwritten
<1>6. es \in Seq(Blocks) /\ \A i \in DOMAIN es : es[i].kind = "pointer"
  <2>1. CASE sending[p] = "creating" /\ pointer # stored[p]
    <3>1. PICK b \in Blocks : b = [kind |-> "pointer", node |-> stored[p]]
      BY <1>5, <2>1, BlockTypes
    <3>2. es = <<b>> /\ b.kind = "pointer"
      BY <1>3, <2>1, <3>1
    <3>3. QED
      BY <3>2
  <2>2. CASE ~(sending[p] = "creating" /\ pointer # stored[p])
    BY <1>3, <2>2
  <2>3. QED
    BY <2>1, <2>2
<1>7. main' \in Seq(Blocks)
  BY <1>0, <1>3, <1>6, Joined, AfterHead
<1>8. /\ sending' = [sending EXCEPT ![p] = "done"]
      /\ pointer' \in {pointer, stored[p]} /\ alive' \in BOOLEAN
      /\ UNCHANGED <<observers, stored, items, rows, images, downloads>>
  BY <1>2 DEF LocationSent, LastRowIsKnown, screen
<1>9. TypeOK'
  BY <1>0, <1>4, <1>7, <1>8 DEF TypeOK
<1>10. sending[p] \notin Unwritten
  <2>1. 1 \in DOMAIN main /\ main[1] = Head(main)
    BY <1>0, AfterHead
  <2>2. QED
    BY <1>0, <1>2, <2>1 DEF CompletedWasSent
<1>11. SentIsStored'
  BY <1>0, <1>8, <1>10 DEF SentIsStored, TypeOK, Unwritten
<1>12. \A q \in Pins : sending[q] \notin Unwritten => sending'[q] \notin Unwritten
  BY <1>0, <1>8 DEF TypeOK, Unwritten
<1>13. QED
  BY <1>0, <1>3, <1>6, <1>8, <1>9, <1>11, <1>12, QuietStepKeeps

-----------------------------------------------------------------------------
(* The table and the downloads *)

\* A download is started for a row that is there and for the object in it.
LEMMA CellForRowKeeps ==
  ASSUME ScreenInvariant, NEW row \in 1..Len(items), CellForRow(row)
  PROVE  /\ downloads' \subseteq Downloads
         /\ \A d \in downloads' : /\ d.row <= Len(items) /\ d.item.msg \in Photos
                                  /\ d.item \in Told \ Waiting(main)
<1>1. /\ downloads \subseteq Downloads /\ items \in Seq(Items)
      /\ \A d \in downloads : /\ d.row <= Len(items) /\ d.item.msg \in Photos
                              /\ d.item \in Told \ Waiting(main)
  BY DEF ScreenInvariant, TypeOK, RowsExist
<1>2. row \in DOMAIN items /\ row \in Nat \ {0} /\ items[row] \in Items
      /\ items[row] \in Told \ Waiting(main)
  BY <1>1, LenProperties, ElementOfSeq DEF ScreenInvariant, RowsAreHandled
<1>3. PICK d : d = [item |-> items[row], row |-> row]
  OBVIOUS
<1>4. d \in Downloads /\ d.row = row /\ d.item = items[row]
  BY <1>2, <1>3 DEF Downloads
<1>5. row <= Len(items)
  BY <1>1, LenProperties
<1>6. CASE items[row].msg \in Photos /\ items[row] \notin images
  <2>1. downloads' = downloads \union {d}
    BY <1>3, <1>6 DEF CellForRow
  <2>2. QED
    BY <1>1, <1>2, <1>4, <1>5, <1>6, <2>1
<1>7. CASE ~(items[row].msg \in Photos /\ items[row] \notin images)
  BY <1>1, <1>7 DEF CellForRow
<1>8. QED
  BY <1>6, <1>7

\* Steps that only change which downloads there are, or end the app.
LEMMA IdleStepKeeps ==
  ASSUME ScreenInvariant, UNCHANGED <<data, main, items, rows>>,
         images' \subseteq Items, alive' \in BOOLEAN, downloads' \subseteq Downloads,
         \A d \in downloads' : /\ d.row <= Len(items) /\ d.item.msg \in Photos
                               /\ d.item \in Told \ Waiting(main)
  PROVE  ScreenInvariant'
<1>1. Told' = Told /\ Waiting(main)' = Waiting(main)
  BY DEF Told, data
<1>2. QueueIsTold' /\ RowsAreHandled' /\ RowsAreCounted'
  BY <1>1 DEF ScreenInvariant, QueueIsTold, RowsAreHandled, RowsAreCounted
<1>3. OnePhotoRow' /\ ReloadComes' /\ SentIsStored' /\ CompletedWasSent'
  BY DEF ScreenInvariant, OnePhotoRow, ReloadComes, SentIsStored, CompletedWasSent, data
<1>4. RowsExist'
  BY <1>1 DEF ScreenInvariant, RowsExist
<1>5. TypeOK'
  BY DEF ScreenInvariant, TypeOK, data
<1>6. QED
  BY <1>2, <1>3, <1>4, <1>5 DEF ScreenInvariant

LEMMA ShowRowKeeps ==
  ASSUME ScreenInvariant, NEW row \in 1..rows, ShowRow(row)
  PROVE  ScreenInvariant'
<1>1. rows \in Nat /\ Len(items) \in Nat /\ rows <= Len(items)
  BY DEF ScreenInvariant, TypeOK, RowsExist
<1>2. row \in 1..Len(items)
  BY <1>1
<1>3. CellForRow(row) /\ UNCHANGED <<data, main, items, rows, images, alive>>
  BY DEF ShowRow
<1>4. images' \subseteq Items /\ alive' \in BOOLEAN
  BY <1>3 DEF ScreenInvariant, TypeOK
<1>5. QED
  BY <1>2, <1>3, <1>4, CellForRowKeeps, IdleStepKeeps

LEMMA KeyboardAndFailureKeep ==
  ASSUME ScreenInvariant, Keyboard \/ \E d \in downloads : ImageFailed(d)
  PROVE  ScreenInvariant'
<1>1. /\ UNCHANGED <<data, main, items, rows>> /\ downloads' \subseteq downloads
      /\ images' = images /\ alive' \in {alive, LastRowIsKnown}
  BY DEF Keyboard, ImageFailed, screen
<1>2. /\ images \subseteq Items /\ downloads \subseteq Downloads /\ alive' \in BOOLEAN
      /\ \A d \in downloads : /\ d.row <= Len(items) /\ d.item.msg \in Photos
                              /\ d.item \in Told \ Waiting(main)
  BY <1>1 DEF ScreenInvariant, TypeOK, RowsExist, LastRowIsKnown
<1>3. QED
  BY <1>1, <1>2, IdleStepKeeps

\* reloadData: the table knows every row.
LEMMA ReloadKeeps ==
  ASSUME ScreenInvariant, Reload
  PROVE  ScreenInvariant'
<1>0. /\ main \in Seq(Blocks) /\ main # <<>> /\ Head(main).kind = "reload" /\ Once(main)
      /\ items \in Seq(Items) /\ rows' = Len(items) /\ CellForRow(Len(items))
      /\ main' = Tail(main) /\ UNCHANGED <<data, items, images, alive>>
  <2>1. main \in Seq(Blocks) /\ main # <<>>
    BY DEF ScreenInvariant, TypeOK, Reload, Runs
  <2>2. Tail(main) \in Seq(Blocks)
    BY <2>1, AfterHead
  <2>3. main' = Tail(main)
    BY <2>2, ConcatEmptySeq DEF Reload, Then
  <2>4. QED
    BY <2>1, <2>3 DEF ScreenInvariant, TypeOK, QueueIsTold, Reload, Runs
<1>1. 1 \in DOMAIN main /\ main[1].kind = "reload"
  BY <1>0, AfterHead
<1>2. Len(items) \in Nat /\ Len(items) # 0
  <2>1. Has(main, "reload")
    BY <1>1 DEF Has
  <2>2. items # <<>>
    BY <2>1 DEF ScreenInvariant, RowsExist
  <2>3. QED
    BY <1>0, <2>2, EmptySeq, LenProperties
<1>3. /\ Waiting(Tail(main)) = Waiting(main) /\ Once(Tail(main))
      /\ \A kind : Has(Tail(main), kind) => Has(main, kind)
  BY <1>0, HeadRuns
<1>4. /\ Tail(main) \in Seq(Blocks)
      /\ \A i \in DOMAIN Tail(main) : i + 1 \in DOMAIN main /\ Tail(main)[i] = main[i + 1]
  BY <1>0, AfterHead
<1>5. Told' = Told /\ Waiting(main)' = Waiting(main) /\ Once(main')
  BY <1>0, <1>3 DEF Told, data
<1>6. /\ downloads' \subseteq Downloads
      /\ \A d \in downloads' : /\ d.row <= Len(items) /\ d.item.msg \in Photos
                               /\ d.item \in Told \ Waiting(main)
  <2>1. Len(items) \in 1..Len(items)
    BY <1>2
  <2>2. QED
    BY <1>0, <2>1, CellForRowKeeps
<1>7. QueueIsTold' /\ RowsAreHandled' /\ RowsAreCounted' /\ OnePhotoRow'
  BY <1>0, <1>5 DEF ScreenInvariant, QueueIsTold, RowsAreHandled, RowsAreCounted, OnePhotoRow
<1>8. ReloadComes' /\ SentIsStored'
  BY <1>0 DEF ScreenInvariant, ReloadComes, SentIsStored, data
<1>9. CompletedWasSent'
  BY <1>0, <1>4 DEF ScreenInvariant, CompletedWasSent, data
<1>10. RowsExist'
  <2>1. \A i \in DOMAIN main' : main'[i].kind = "reloadRow" => main'[i].row <= Len(items)
    BY <1>0, <1>4 DEF ScreenInvariant, RowsExist
  <2>2. Has(main', "reload") => items # <<>>
    BY <1>0, <1>3 DEF ScreenInvariant, RowsExist
  <2>3. QED
    BY <1>0, <1>2, <1>5, <1>6, <2>1, <2>2 DEF RowsExist
<1>11. TypeOK'
  BY <1>0, <1>2, <1>4, <1>6 DEF ScreenInvariant, TypeOK, data
<1>12. QED
  BY <1>7, <1>8, <1>9, <1>10, <1>11 DEF ScreenInvariant

\* reloadRows: the row is laid out, or the app ends.
LEMMA ReloadRowKeeps ==
  ASSUME ScreenInvariant, ReloadRow
  PROVE  ScreenInvariant'
<1>0. /\ main \in Seq(Blocks) /\ main # <<>> /\ Head(main).kind = "reloadRow"
      /\ UNCHANGED <<data, items, rows, images>>
  BY DEF ScreenInvariant, TypeOK, ReloadRow, Runs
<1>1. /\ Tail(main) \in Seq(Blocks) /\ 1 \in DOMAIN main /\ main[1] = Head(main)
      /\ Head(main) \in Blocks
  BY <1>0, AfterHead, HeadTailProperties
<1>2. PICK es : es = <<>> /\ es \in Seq(Blocks)
  BY EmptySeq
<1>3. main' = Tail(main) \o es
  BY <1>2 DEF ReloadRow, Then
<1>4. main' = Tail(main)
  BY <1>1, <1>2, <1>3, ConcatEmptySeq
<1>5. /\ downloads' \subseteq Downloads
      /\ downloads' = downloads \/
             \A d \in downloads' : /\ d.row <= Len(items) /\ d.item.msg \in Photos
                                   /\ d.item \in Told \ Waiting(main)
  <2>1. CASE rows = Len(items)
    <3>1. Head(main).row \in Nat \ {0}
      BY <1>0, <1>1, BlockFields
    <3>2. Head(main).row <= Len(items)
      BY <1>0, <1>1 DEF ScreenInvariant, RowsExist
    <3>3. Len(items) \in Nat
      BY DEF ScreenInvariant, TypeOK
    <3>4. Head(main).row \in 1..Len(items)
      BY <3>1, <3>2, <3>3
    <3>5. CellForRow(Head(main).row)
      BY <2>1 DEF ReloadRow
    <3>6. QED
      BY <3>4, <3>5, CellForRowKeeps
  <2>2. CASE rows # Len(items)
    BY <2>2 DEF ReloadRow, ScreenInvariant, TypeOK
  <2>3. QED
    BY <2>1, <2>2
<1>6. alive' \in BOOLEAN
  BY DEF ReloadRow, ScreenInvariant, TypeOK
<1>7. TypeOK'
  BY <1>0, <1>1, <1>4, <1>5, <1>6 DEF ScreenInvariant, TypeOK, data
<1>8. SentIsStored' /\ UNCHANGED <<observers, stored, items, rows, sending>>
  BY <1>0 DEF ScreenInvariant, SentIsStored, data
<1>9. /\ \A i \in DOMAIN es : es[i].kind \notin {"added", "reload", "reloadRow"}
      /\ \A i \in DOMAIN es : es[i].kind = "completed" => sending'[es[i].msg] \notin Unwritten
      /\ \A p \in Pins : sending[p] \notin Unwritten => sending'[p] \notin Unwritten
  BY <1>2, <1>8
<1>10. QED
  BY <1>0, <1>2, <1>3, <1>5, <1>7, <1>8, <1>9, QuietStepKeeps

-----------------------------------------------------------------------------
(* The array *)

\* A sort moves rows and neither adds nor drops one.
LEMMA SortedRows ==
  ASSUME NEW s \in Seq(Items), NEW r \in Arrangements(s)
  PROVE  /\ r \in Seq(Items) /\ Len(r) = Len(s)
         /\ \E p \in [1..Len(s) -> 1..Len(s)] :
                /\ \A i, j \in 1..Len(s) : i # j => p[i] # p[j]
                /\ \A i \in 1..Len(s) : r[i] = s[p[i]]
<1>1. Len(s) \in Nat /\ DOMAIN s = 1..Len(s) /\ \A i \in 1..Len(s) : s[i] \in Items
  BY LenProperties, ElementOfSeq
<1>2. Cardinality(1..Len(s)) = Len(s)
  <2>1. PICK n \in Nat : n = Len(s)
    BY <1>1
  <2>2. Cardinality(1..n) = IF 1 > n THEN 0 ELSE n - 1 + 1
    BY FS_Interval
  <2>3. QED
    BY <2>1, <2>2
<1>3. PICK p \in SetToSeqs(1..Len(s)) : r = [i \in 1..Len(s) |-> s[p[i]]]
  BY <1>1 DEF Arrangements
<1>4. /\ p \in [1..Len(s) -> 1..Len(s)]
      /\ \A i, j \in 1..Len(s) : i # j => p[i] # p[j]
  BY <1>2, <1>3 DEF SetToSeqs
<1>5. r \in [1..Len(s) -> Items]
  BY <1>1, <1>3, <1>4
<1>6. r \in Seq(Items) /\ Len(r) = Len(s)
  BY <1>1, <1>5, SeqDef, LenProperties
<1>7. QED
  BY <1>3, <1>4, <1>6

\* fetchData: one more object is handled, and has a row.
LEMMA AddItemKeeps ==
  ASSUME ScreenInvariant, AddItem
  PROVE  ScreenInvariant'
<1>0. /\ main \in Seq(Blocks) /\ main # <<>> /\ Head(main).kind = "added" /\ Once(main)
      /\ items \in Seq(Items) /\ rows \in Nat
      /\ items' \in Arrangements(Append(items, Head(main).item))
      /\ main' = Tail(main) \o <<[kind |-> "reload"]>>
      /\ UNCHANGED <<data, rows, images, downloads, alive>>
  BY DEF ScreenInvariant, TypeOK, QueueIsTold, AddItem, Runs, Then
<1>1. PICK new \in Items : new = Head(main).item
  BY <1>0, HeadTailProperties, BlockFields
<1>2. PICK es \in Seq(Blocks) : es = <<[kind |-> "reload"]>>
  <2>1. PICK b \in Blocks : b = [kind |-> "reload"]
    BY BlockTypes
  <2>2. <<b>> \in Seq(Blocks)
    OBVIOUS
  <2>3. QED
    BY <2>1, <2>2
<1>3. /\ DOMAIN es = 1..1 /\ es[1].kind = "reload"
      /\ Waiting(es) = {} /\ Once(es) /\ Has(es, "reload")
  BY <1>2 DEF Waiting, Once, Has
<1>4. PICK t \in Seq(Blocks) :
          /\ t = Tail(main)
          /\ \A i \in DOMAIN t : i + 1 \in DOMAIN main /\ t[i] = main[i + 1]
          /\ new \in Waiting(main) /\ Waiting(t) = Waiting(main) \ {new} /\ Once(t)
  <2>1. /\ Tail(main) \in Seq(Blocks)
        /\ \A i \in DOMAIN Tail(main) : i + 1 \in DOMAIN main /\ Tail(main)[i] = main[i + 1]
    BY <1>0, AfterHead
  <2>2. /\ new \in Waiting(main) /\ Waiting(Tail(main)) = Waiting(main) \ {new}
        /\ Once(Tail(main))
    BY <1>0, <1>1, HeadRuns
  <2>3. QED
    BY <2>1, <2>2
<1>5. main' = t \o es
  BY <1>0, <1>2, <1>4
<1>6. main' \in Seq(Blocks)
  BY <1>5, Joined
<1>7. Waiting(main') = Waiting(main) \ {new}
  BY <1>3, <1>4, <1>5, BlocksQueued
<1>8. Once(main')
  BY <1>3, <1>4, <1>5, BlocksQueued
<1>9. Has(main', "reload")
  BY <1>3, <1>5, BlocksQueued
<1>10. \A i \in DOMAIN main' : main'[i].kind # "reload" =>
           \E j \in DOMAIN main : main'[i] = main[j]
  <2>1. \A i \in DOMAIN main' : \/ \E j \in DOMAIN t : main'[i] = t[j]
                                \/ \E j \in DOMAIN es : main'[i] = es[j]
    BY <1>5, Joined
  <2>2. QED
    BY <1>3, <1>4, <2>1
<1>11. Told' = Told /\ Waiting(main)' = Waiting(main) \ {new}
  BY <1>0, <1>7 DEF Told, data
<1>12. new \in Told /\ (Told \ Waiting(main))' = (Told \ Waiting(main)) \union {new}
       /\ new \notin Told \ Waiting(main)
  BY <1>4, <1>11 DEF ScreenInvariant, QueueIsTold
<1>13. PICK s : /\ s = Append(items, new) /\ s \in Seq(Items) /\ Len(s) = Len(items) + 1
                /\ Len(items) \in Nat
                /\ \A i \in 1..Len(items) : s[i] = items[i]
                /\ s[Len(items) + 1] = new
  <2>1. Len(items) \in Nat
    BY <1>0, LenProperties
  <2>2. PICK s : s = Append(items, new)
    OBVIOUS
  <2>3. s \in Seq(Items) /\ Len(s) = Len(items) + 1
    BY <1>0, <2>2, AppendProperties
  <2>4. (\A i \in 1..Len(items) : s[i] = items[i]) /\ s[Len(items) + 1] = new
    BY <1>0, <2>2, AppendProperties
  <2>5. QED
    BY <2>1, <2>2, <2>3, <2>4
<1>14. PICK p \in [1..Len(s) -> 1..Len(s)] :
           /\ items' \in Seq(Items) /\ Len(items') = Len(s)
           /\ \A i, j \in 1..Len(s) : i # j => p[i] # p[j]
           /\ \A i \in 1..Len(s) : items'[i] = s[p[i]]
  <2>1. items' \in Arrangements(s)
    BY <1>0, <1>1, <1>13
  <2>2. PICK r : r = items' /\ r \in Arrangements(s)
    BY <2>1
  <2>3. r \in Seq(Items) /\ Len(r) = Len(s)
    BY <1>13, <2>2, SortedRows
  <2>4. \E p \in [1..Len(s) -> 1..Len(s)] :
            /\ \A i, j \in 1..Len(s) : i # j => p[i] # p[j]
            /\ \A i \in 1..Len(s) : r[i] = s[p[i]]
    BY <1>13, <2>2, SortedRows
  <2>5. QED
    BY <2>2, <2>3, <2>4
<1>15. DOMAIN items = 1..Len(items) /\ DOMAIN items' = 1..Len(s)
  BY <1>0, <1>14, LenProperties
<1>16. \A i \in 1..Len(s) : IF i = Len(items) + 1 THEN s[i] = new
                            ELSE i \in DOMAIN items /\ s[i] = items[i]
  BY <1>13, <1>15
<1>17. \A i \in 1..Len(s) : s[i] \in (Told \ Waiting(main)) \union {new}
  BY <1>16 DEF ScreenInvariant, RowsAreHandled
<1>18. RowsAreHandled'
  BY <1>12, <1>14, <1>15, <1>17 DEF RowsAreHandled
<1>19. \A i, j \in 1..Len(s) : i # j /\ s[i] = s[j] => s[i].msg \in Photos
  <2>1. \A i \in DOMAIN items : items[i] # new
    BY <1>12 DEF ScreenInvariant, RowsAreHandled
  <2>2. QED
    BY <1>16, <2>1 DEF ScreenInvariant, OnePhotoRow
<1>20. OnePhotoRow'
  BY <1>14, <1>15, <1>19 DEF OnePhotoRow
<1>21. RowsAreCounted'
  <2>1. /\ IsFiniteSet(Told \ Waiting(main))
        /\ Cardinality(Told \ Waiting(main)) = Len(items)
    BY DEF ScreenInvariant, RowsAreCounted
  <2>2. PICK H : H = Told \ Waiting(main)
    OBVIOUS
  <2>3. IsFiniteSet(H \union {new}) /\ Cardinality(H \union {new}) = Len(items) + 1
    BY <1>12, <2>1, <2>2, FS_AddElement
  <2>4. QED
    BY <1>12, <1>13, <1>14, <2>2, <2>3 DEF RowsAreCounted
<1>22. QueueIsTold' /\ ReloadComes' /\ SentIsStored'
  BY <1>0, <1>8, <1>9, <1>11 DEF ScreenInvariant, QueueIsTold, ReloadComes, SentIsStored, data
<1>23. CompletedWasSent'
  BY <1>0, <1>10 DEF ScreenInvariant, CompletedWasSent, data
<1>24. RowsExist'
  <2>1. items' # <<>> /\ Len(items') = Len(items) + 1
    BY <1>13, <1>14, <1>15
  <2>2. \A i \in DOMAIN main' : main'[i].kind = "reloadRow" => main'[i].row <= Len(items)
    BY <1>10 DEF ScreenInvariant, RowsExist
  <2>3. \A i \in DOMAIN main' : main'[i] \in Blocks
    BY <1>6, LenProperties, ElementOfSeq
  <2>4. \A i \in DOMAIN main' : main'[i].kind = "reloadRow" => main'[i].row <= Len(items')
    BY <1>13, <2>1, <2>2, <2>3, BlockFields
  <2>5. \A d \in downloads : d.row \in Nat /\ d.row <= Len(items) /\ d.item.msg \in Photos
                             /\ d.item \in Told \ Waiting(main)
    BY DEF ScreenInvariant, RowsExist, TypeOK, Downloads
  <2>6. \A d \in downloads' : /\ d.row <= Len(items') /\ d.item.msg \in Photos
                              /\ d.item \in (Told \ Waiting(main))'
    BY <1>0, <1>12, <1>13, <2>1, <2>5
  <2>7. rows' <= Len(items')
    BY <1>0, <1>13, <2>1 DEF ScreenInvariant, RowsExist
  <2>8. QED
    BY <2>1, <2>4, <2>6, <2>7 DEF RowsExist
<1>25. TypeOK'
  BY <1>0, <1>6, <1>14 DEF ScreenInvariant, TypeOK, data
<1>26. QED
  BY <1>18, <1>20, <1>21, <1>22, <1>23, <1>24, <1>25 DEF ScreenInvariant

\* A photo is written into the row its download was started for.
LEMMA ImageArrivedKeeps ==
  ASSUME ScreenInvariant, NEW d \in downloads, ImageArrived(d)
  PROVE  ScreenInvariant'
<1>0. /\ main \in Seq(Blocks) /\ items \in Seq(Items) /\ Once(main)
      /\ d \in Downloads /\ d.row <= Len(items) /\ d.item.msg \in Photos
      /\ d.item \in Told \ Waiting(main)
  BY DEF ScreenInvariant, TypeOK, QueueIsTold, RowsExist
<1>1. d.row \in Nat \ {0} /\ d.item \in Items
  BY <1>0 DEF Downloads
<1>2. Len(items) \in Nat /\ DOMAIN items = 1..Len(items) /\ d.row \in DOMAIN items
  BY <1>0, <1>1, LenProperties
<1>3. PICK es \in Seq(Blocks) : es = <<[kind |-> "reloadRow", row |-> d.row]>>
  <2>1. PICK b \in Blocks : b = [kind |-> "reloadRow", row |-> d.row]
    BY <1>1, BlockTypes
  <2>2. <<b>> \in Seq(Blocks)
    OBVIOUS
  <2>3. QED
    BY <2>1, <2>2
<1>4. DOMAIN es = 1..1 /\ es[1].kind = "reloadRow" /\ es[1].row = d.row
  BY <1>3
<1>5. main' = main \o es /\ UNCHANGED <<data, rows, alive>>
  BY <1>0, <1>1, <1>3, BlockTypes, AppendIsConcat DEF ImageArrived
<1>6. QuietlyAfter(main, es, main')
  BY <1>4, <1>5 DEF QuietlyAfter
<1>7. main' \in Seq(Blocks) /\ Waiting(main') = Waiting(main) /\ Once(main')
  BY <1>0, <1>6, Quiet
<1>8. \A i \in DOMAIN main' : \/ \E j \in DOMAIN main : main'[i] = main[j]
                              \/ main'[i] = es[1]
  <2>1. \A i \in DOMAIN main' : \/ \E j \in DOMAIN main : main'[i] = main[j]
                                \/ \E j \in DOMAIN es : main'[i] = es[j]
    <3>1. PICK r : r = main \o es
      OBVIOUS
    <3>2. \A i \in DOMAIN (main \o es) :
              \/ i \in DOMAIN main /\ (main \o es)[i] = main[i]
              \/ /\ i - Len(main) \in DOMAIN es /\ i = Len(main) + (i - Len(main))
                 /\ i \notin DOMAIN main /\ (main \o es)[i] = es[i - Len(main)]
      BY <1>0, Joined
    <3>3. QED
      BY <1>5, <3>1, <3>2
  <2>2. QED
    BY <1>4, <2>1
<1>9. \A kind : Has(main, kind) => Has(main', kind)
  BY <1>0, <1>5, BlocksQueued
<1>10. Told' = Told /\ Waiting(main)' = Waiting(main) /\ Once(main)'
  BY <1>5, <1>7 DEF Told, data
<1>11. /\ items' \in Seq(Items) /\ Len(items') = Len(items) /\ DOMAIN items' = DOMAIN items
       /\ \A i \in DOMAIN items : items'[i] \in {items[i], d.item}
       /\ \A i \in DOMAIN items : i # d.row => items'[i] = items[i]
  <2>1. CASE items' = [items EXCEPT ![d.row] = d.item]
    <3>1. items' \in Seq(Items) /\ Len(items') = Len(items)
      BY <1>0, <1>1, <1>2, <2>1, ExceptSeq
    <3>2. QED
      BY <1>2, <2>1, <3>1
  <2>2. CASE items' = items
    BY <1>0, <2>2
  <2>3. QED
    BY <2>1, <2>2 DEF ImageArrived
<1>12. RowsAreHandled' /\ QueueIsTold' /\ RowsAreCounted'
  BY <1>0, <1>10, <1>11 DEF ScreenInvariant, RowsAreHandled, QueueIsTold, RowsAreCounted
<1>13. OnePhotoRow'
  BY <1>0, <1>11 DEF ScreenInvariant, OnePhotoRow
<1>14. ReloadComes' /\ SentIsStored'
  BY <1>5, <1>9, <1>11 DEF ScreenInvariant, ReloadComes, SentIsStored, data
<1>15. CompletedWasSent'
  BY <1>4, <1>5, <1>8 DEF ScreenInvariant, CompletedWasSent, data
<1>16. RowsExist'
  <2>1. Has(main', "reload") => Has(main, "reload")
    BY <1>4, <1>8 DEF Has
  <2>2. items # <<>> => items' # <<>>
    BY <1>0, <1>11, EmptySeq
  <2>3. \A i \in DOMAIN main' : main'[i].kind = "reloadRow" => main'[i].row <= Len(items)
    BY <1>0, <1>4, <1>8 DEF ScreenInvariant, RowsExist
  <2>4. downloads' \subseteq downloads
    BY DEF ImageArrived
  <2>5. QED
    BY <1>5, <1>10, <1>11, <2>1, <2>2, <2>3, <2>4 DEF ScreenInvariant, RowsExist
<1>17. TypeOK'
  <2>1. images' \subseteq Items /\ downloads' \subseteq Downloads
    BY <1>1 DEF ImageArrived, ScreenInvariant, TypeOK
  <2>2. QED
    BY <1>5, <1>7, <1>11, <2>1 DEF ScreenInvariant, TypeOK, data
<1>18. QED
  BY <1>12, <1>13, <1>14, <1>15, <1>16, <1>17 DEF ScreenInvariant

-----------------------------------------------------------------------------
(* What the listeners hand over *)

\* Objects that were not told of before are queued, each once: none of them is
\* handled yet.  The stored messages and the listeners grow.
LEMMA TellingKeeps ==
  ASSUME ScreenInvariant, NEW es \in Seq(Blocks), NEW q \in Seq(Blocks),
         Waiting(q) = Waiting(main), Once(q),
         \A i \in DOMAIN q : \E j \in DOMAIN main : q[i] = main[j],
         Has(main, "reload") => Has(q, "reload"),
         main' = q \o es, Once(es), \A i \in DOMAIN es : es[i].kind = "added",
         Waiting(es) \cap Told = {}, Told' = Told \union Waiting(es),
         UNCHANGED <<items, rows, downloads>>, TypeOK', SentIsStored',
         \A p \in Pins : sending[p] \notin Unwritten => sending'[p] \notin Unwritten
  PROVE  ScreenInvariant'
<1>1. main \in Seq(Blocks) /\ Waiting(main) \subseteq Told
  BY DEF ScreenInvariant, TypeOK, QueueIsTold
<1>2. Waiting(main') = Waiting(main) \union Waiting(es)
  BY BlocksQueued
<1>3. Once(main')
  <2>1. Waiting(q) \cap Waiting(es) = {}
    BY <1>1
  <2>2. QED
    BY <2>1, BlocksQueued
<1>4. Has(main', "reload") <=> Has(q, "reload")
  <2>1. ~Has(es, "reload")
    BY DEF Has
  <2>2. QED
    BY <2>1, BlocksQueued
<1>5. \A i \in DOMAIN main' : main'[i].kind # "added" => \E j \in DOMAIN main : main'[i] = main[j]
  <2>1. \A i \in DOMAIN main' : \/ \E j \in DOMAIN q : main'[i] = q[j]
                                \/ \E j \in DOMAIN es : main'[i] = es[j]
    BY Joined
  <2>2. QED
    BY <2>1
<1>6. Waiting(main)' = Waiting(main) \union Waiting(es) /\ Once(main)'
  BY <1>2, <1>3
<1>7. (Told \ Waiting(main))' = Told \ Waiting(main)
  BY <1>1, <1>6
<1>8. QueueIsTold' /\ RowsAreHandled' /\ RowsAreCounted' /\ OnePhotoRow'
  BY <1>1, <1>6, <1>7 DEF ScreenInvariant, QueueIsTold, RowsAreHandled, RowsAreCounted, OnePhotoRow
<1>9. Has(q, "reload") => Has(main, "reload")
  BY DEF Has
<1>10. ReloadComes'
  BY <1>4 DEF ScreenInvariant, ReloadComes
<1>11. RowsExist'
  BY <1>4, <1>5, <1>7, <1>9 DEF ScreenInvariant, RowsExist
<1>12. CompletedWasSent'
  <2>1. \A i \in DOMAIN main : main[i].kind = "completed" => main[i].msg \in Pins
    BY <1>1, BlockFields, ElementOfSeq, LenProperties
  <2>2. QED
    BY <1>5, <2>1 DEF ScreenInvariant, CompletedWasSent
<1>13. QED
  BY <1>8, <1>10, <1>11, <1>12 DEF ScreenInvariant

\* A sequence of SetToSeqs has every element of the set, each once.
LEMMA Enumerated ==
  ASSUME NEW S, IsFiniteSet(S), NEW s \in SetToSeqs(S)
  PROVE  /\ s \in Seq(S) /\ DOMAIN s = 1..Cardinality(S) /\ Cardinality(S) \in Nat
         /\ \A i, j \in DOMAIN s : i # j => s[i] # s[j]
         /\ \A x \in S : \E i \in DOMAIN s : s[i] = x
<1>1. Cardinality(S) \in Nat
  BY FS_CardinalityType
<1>2. PICK D : D = 1..Cardinality(S)
  OBVIOUS
<1>3. s \in [D -> S] /\ \A i, j \in D : i # j => s[i] # s[j]
  BY <1>2 DEF SetToSeqs
<1>4. s \in Seq(S)
  BY <1>1, <1>2, <1>3, SeqDef
<1>5. ASSUME NEW x \in S, \A i \in D : s[i] # x PROVE FALSE
  <2>1. PICK T : T = S \ {x}
    OBVIOUS
  <2>2. IsFiniteSet(T) /\ Cardinality(T) = Cardinality(S) - 1
    BY <2>1, FS_RemoveElement
  <2>3. IsFiniteSet(D) /\ Cardinality(D) = IF 1 > Cardinality(S) THEN 0 ELSE Cardinality(S) - 1 + 1
    BY <1>1, <1>2, FS_Interval
  <2>4. Cardinality(S) # 0
    BY <1>5, FS_EmptySet
  <2>5. Cardinality(T) < Cardinality(D)
    BY <1>1, <2>2, <2>3, <2>4
  <2>6. s \in [D -> T]
    BY <1>3, <1>5, <2>1
  <2>7. \E i, j \in D : i # j /\ s[i] = s[j]
    BY <2>2, <2>3, <2>5, <2>6, FS_PigeonHole
  <2>8. QED
    BY <1>3, <2>7
<1>6. QED
  BY <1>1, <1>2, <1>3, <1>4, <1>5

\* The blocks that hand over the objects of a set: each of them once.
LEMMA HandedOver ==
  ASSUME NEW S, NEW s \in Seq(S), NEW O \in [S -> Items], NEW es,
         \A i, j \in DOMAIN s : i # j => O[s[i]] # O[s[j]],
         \A x \in S : \E i \in DOMAIN s : s[i] = x,
         es = [k \in DOMAIN s |-> Added(O[s[k]].msg, O[s[k]].via)]
  PROVE  /\ es \in Seq(Blocks) /\ Once(es) /\ \A i \in DOMAIN es : es[i].kind = "added"
         /\ Waiting(es) = {O[x] : x \in S}
<1>1. DOMAIN s = 1..Len(s) /\ Len(s) \in Nat /\ \A i \in DOMAIN s : s[i] \in S
  BY LenProperties, ElementOfSeq
<1>2. \A o \in Items : /\ o.msg \in Messages /\ o.via \in Nat \ {0}
                       /\ o = [msg |-> o.msg, via |-> o.via]
  BY DEF Items
<1>3. \A k \in DOMAIN s : /\ es[k] \in Blocks /\ es[k].kind = "added"
                          /\ es[k].item = O[s[k]]
  BY <1>1, <1>2, BlockTypes
<1>4. es \in [1..Len(s) -> Blocks]
  BY <1>1, <1>3
<1>5. es \in Seq(Blocks)
  BY <1>1, <1>4, SeqDef
<1>6. Once(es)
  BY <1>3 DEF Once
<1>7. Waiting(es) = {O[x] : x \in S}
  <2>1. \A o : o \in Waiting(es) <=> \E k \in DOMAIN es : es[k].kind = "added" /\ es[k].item = o
    BY DEF Waiting
  <2>2. DOMAIN es = DOMAIN s
    OBVIOUS
  <2>3. ASSUME NEW x \in S PROVE O[x] \in Waiting(es)
    BY <1>3, <2>1, <2>2
  <2>4. ASSUME NEW o \in Waiting(es) PROVE o \in {O[x] : x \in S}
    <3>1. PICK k \in DOMAIN s : es[k].item = o
      BY <2>1, <2>2, <2>4
    <3>2. QED
      BY <1>1, <1>3, <3>1
  <2>5. QED
    BY <2>3, <2>4
<1>8. QED
  BY <1>3, <1>5, <1>6, <1>7

\* What a message that comes to a node makes its listeners hand over.
LEMMA EventsAre ==
  ASSUME TypeOK, NEW m \in Messages, NEW n, NEW es \in EventsOf(m, n)
  PROVE  /\ es \in Seq(Blocks) /\ Once(es) /\ \A i \in DOMAIN es : es[i].kind = "added"
         /\ Waiting(es) = {[msg |-> m, via |-> i] : i \in Listening(n)}
<1>1. PICK S : S = Listening(n)
  OBVIOUS
<1>2. IsFiniteSet(S) /\ S \subseteq Nat \ {0}
  <2>1. DOMAIN observers = 1..Len(observers) /\ Len(observers) \in Nat
    BY LenProperties DEF TypeOK
  <2>2. IsFiniteSet(DOMAIN observers) /\ S \subseteq DOMAIN observers
    BY <1>1, <2>1, FS_Interval DEF Listening
  <2>3. QED
    BY <2>1, <2>2, FS_Subset
<1>3. PICK s \in SetToSeqs(S) : es = [k \in DOMAIN s |-> Added(m, s[k])]
  BY <1>1 DEF EventsOf, InOrder
<1>4. /\ s \in Seq(S) /\ \A i, j \in DOMAIN s : i # j => s[i] # s[j]
      /\ \A x \in S : \E i \in DOMAIN s : s[i] = x
      /\ \A i \in DOMAIN s : s[i] \in S
  BY <1>2, Enumerated, LenProperties, ElementOfSeq
<1>5. PICK O : O = [i \in S |-> [msg |-> m, via |-> i]]
  OBVIOUS
<1>6. O \in [S -> Items] /\ \A i \in S : O[i].msg = m /\ O[i].via = i
  BY <1>2, <1>5 DEF Items
<1>7. es = [k \in DOMAIN s |-> Added(O[s[k]].msg, O[s[k]].via)]
  BY <1>3, <1>4, <1>6
<1>8. \A i, j \in DOMAIN s : i # j => O[s[i]] # O[s[j]]
  BY <1>4, <1>6
<1>9. /\ es \in Seq(Blocks) /\ Once(es) /\ \A i \in DOMAIN es : es[i].kind = "added"
      /\ Waiting(es) = {O[x] : x \in S}
  BY <1>4, <1>6, <1>7, <1>8, HandedOver
<1>10. {O[x] : x \in S} = {[msg |-> m, via |-> i] : i \in S}
  BY <1>5
<1>11. QED
  BY <1>1, <1>9, <1>10

\* A message nobody had comes to a node.
LEMMA MessageComes ==
  ASSUME ScreenInvariant, NEW m \in Messages, NEW n \in Nodes, NEW es \in EventsOf(m, n),
         stored[m] = Absent, stored' = [stored EXCEPT ![m] = n],
         \/ main' = main \o es
         \/ main # <<>> /\ Head(main).kind = "write" /\ main' = Tail(main) \o es,
         UNCHANGED <<observers, items, rows, downloads>>, TypeOK', SentIsStored',
         \A p \in Pins : sending[p] \notin Unwritten => sending'[p] \notin Unwritten
  PROVE  ScreenInvariant'
<1>1. /\ main \in Seq(Blocks) /\ Once(main) /\ stored \in [Messages -> Nodes \union {Absent}]
      /\ observers \in Seq(Nodes) /\ \A i \in DOMAIN observers : observers[i] \in Nodes
  <2>1. observers \in Seq(Nodes)
    BY DEF ScreenInvariant, TypeOK
  <2>2. \A i \in DOMAIN observers : observers[i] \in Nodes
    BY <2>1, ElementOfSeq, LenProperties
  <2>3. QED
    BY <2>1, <2>2 DEF ScreenInvariant, TypeOK, QueueIsTold
<1>2. /\ es \in Seq(Blocks) /\ Once(es) /\ \A i \in DOMAIN es : es[i].kind = "added"
      /\ Waiting(es) = {[msg |-> m, via |-> i] : i \in Listening(n)}
  BY EventsAre DEF ScreenInvariant
<1>3. \A o \in Told : o.msg # m
  BY <1>1, ChatScreenAssumption DEF Told
<1>4. Waiting(es) \cap Told = {}
  BY <1>2, <1>3
<1>5. Told' = Told \union Waiting(es)
  <2>1. ASSUME NEW o \in [msg : Messages, via : DOMAIN observers], o.msg # m
        PROVE  o \in Told' <=> o \in Told
    BY <1>1, <2>1 DEF Told
  <2>2. ASSUME NEW i \in DOMAIN observers, NEW o, o = [msg |-> m, via |-> i]
        PROVE  o \in Told' <=> i \in Listening(n)
    BY <1>1, <2>2 DEF Told, Listening
  <2>3. \A o \in Told' \union Told : /\ o \in [msg : Messages, via : DOMAIN observers]
                                     /\ o = [msg |-> o.msg, via |-> o.via]
    BY DEF Told
  <2>4. Listening(n) \subseteq DOMAIN observers
    BY DEF Listening
  <2>5. ASSUME NEW o \in Told' PROVE o \in Told \union Waiting(es)
    BY <1>2, <2>1, <2>2, <2>3, <2>5
  <2>6. ASSUME NEW o \in Told PROVE o \in Told'
    BY <1>3, <2>1, <2>3, <2>6
  <2>7. ASSUME NEW o \in Waiting(es) PROVE o \in Told'
    BY <1>2, <2>2, <2>4, <2>7
  <2>8. QED
    BY <2>5, <2>6, <2>7
<1>6. PICK q \in Seq(Blocks) :
          /\ main' = q \o es /\ Waiting(q) = Waiting(main) /\ Once(q)
          /\ \A i \in DOMAIN q : \E j \in DOMAIN main : q[i] = main[j]
          /\ Has(main, "reload") => Has(q, "reload")
  <2>1. CASE main' = main \o es
    BY <1>1, <2>1
  <2>2. CASE main # <<>> /\ Head(main).kind = "write" /\ main' = Tail(main) \o es
    <3>1. /\ Tail(main) \in Seq(Blocks)
          /\ \A i \in DOMAIN Tail(main) : i + 1 \in DOMAIN main /\ Tail(main)[i] = main[i + 1]
      BY <1>1, <2>2, AfterHead
    <3>2. /\ Waiting(Tail(main)) = Waiting(main) /\ Once(Tail(main))
          /\ Has(main, "reload") => Has(Tail(main), "reload")
      BY <1>1, <2>2, HeadRuns
    <3>3. QED
      BY <2>2, <3>1, <3>2
  <2>3. QED
    BY <2>1, <2>2
<1>7. QED
  BY <1>2, <1>4, <1>5, <1>6, TellingKeeps

LEMMA ArriveKeeps ==
  ASSUME ScreenInvariant, NEW m \in Messages, NEW n \in Nodes, Arrive(m, n)
  PROVE  ScreenInvariant'
<1>1. PICK es \in EventsOf(m, n) : main' = main \o es
  BY DEF Arrive
<1>2. /\ m \notin Pins /\ stored[m] = Absent /\ stored' = [stored EXCEPT ![m] = n]
      /\ UNCHANGED <<pointer, observers, sending, items, rows, images, downloads, alive>>
  BY DEF Arrive, screen
<1>3. main' \in Seq(Blocks)
  BY <1>1, EventsAre, Joined DEF ScreenInvariant, TypeOK
<1>4. stored' \in [Messages -> Nodes \union {Absent}]
  BY <1>2 DEF ScreenInvariant, TypeOK
<1>5. TypeOK'
  BY <1>2, <1>3, <1>4 DEF ScreenInvariant, TypeOK
<1>6. SentIsStored'
  BY <1>2, ChatScreenAssumption DEF ScreenInvariant, TypeOK, SentIsStored
<1>7. \A p \in Pins : sending[p] \notin Unwritten => sending'[p] \notin Unwritten
  BY <1>2
<1>8. QED
  BY <1>1, <1>2, <1>5, <1>6, <1>7, MessageComes

LEMMA WriteLocationKeeps ==
  ASSUME ScreenInvariant, WritesInvariant, WriteLocation
  PROVE  ScreenInvariant'
<1>0. /\ main \in Seq(Blocks) /\ main # <<>> /\ Head(main).kind = "write"
      /\ sending \in [Pins -> {"idle", "reading", "asked", "appending", "creating", "done"}]
      /\ stored \in [Messages -> Nodes \union {Absent}]
  BY DEF ScreenInvariant, TypeOK, WriteLocation, Runs
<1>1. /\ Head(main) \in Blocks /\ Tail(main) \in Seq(Blocks)
      /\ 1 \in DOMAIN main /\ main[1] = Head(main)
  BY <1>0, AfterHead, HeadTailProperties
<1>2. PICK p \in Pins, k \in Nodes \union {Absent} : p = Head(main).msg /\ k = Head(main).node
  BY <1>0, <1>1, BlockFields
<1>3. PICK n \in Nodes : n = IF k = Absent THEN p ELSE k
  BY <1>2, ChatScreenAssumption
<1>4. PICK es \in EventsOf(p, n) : main' = Tail(main) \o es
  BY <1>2, <1>3 DEF WriteLocation, Then
<1>5. /\ stored' = [stored EXCEPT ![p] = n]
      /\ sending' = [sending EXCEPT ![p] = IF k = Absent THEN "creating" ELSE "appending"]
      /\ UNCHANGED <<pointer, observers, items, rows, images, downloads, alive>>
  BY <1>2, <1>3 DEF WriteLocation, screen
<1>6. p \in Messages /\ n # Absent
  BY ChatScreenAssumption
<1>7. sending[p] = "asked" /\ stored[p] = Absent
  <2>1. sending[p] = "asked"
    BY <1>0, <1>1, <1>2 DEF WritesInvariant, WritesAreAsked
  <2>2. QED
    BY <2>1 DEF ScreenInvariant, SentIsStored, Unwritten
<1>8. main' \in Seq(Blocks)
  BY <1>1, <1>4, <1>6, EventsAre, Joined DEF ScreenInvariant
<1>9. /\ sending' \in [Pins -> {"idle", "reading", "asked", "appending", "creating", "done"}]
      /\ stored' \in [Messages -> Nodes \union {Absent}]
  BY <1>0, <1>5
<1>10. /\ sending'[p] \notin Unwritten /\ \A q \in Pins : q # p => sending'[q] = sending[q]
       /\ stored'[p] = n /\ \A m \in Messages : m # p => stored'[m] = stored[m]
  BY <1>0, <1>5, <1>6 DEF Unwritten
<1>11. TypeOK'
  BY <1>5, <1>8, <1>9 DEF ScreenInvariant, TypeOK
<1>12. SentIsStored'
  BY <1>6, <1>10, ChatScreenAssumption DEF ScreenInvariant, SentIsStored
<1>13. \A q \in Pins : sending[q] \notin Unwritten => sending'[q] \notin Unwritten
  BY <1>10
<1>14. QED
  BY <1>0, <1>4, <1>5, <1>6, <1>7, <1>11, <1>12, <1>13, MessageComes

\* One more listener is attached, and it is told of every message of its node.
LEMMA AttachKeeps ==
  ASSUME ScreenInvariant, Attach
  PROVE  ScreenInvariant'
<1>0. /\ main \in Seq(Blocks) /\ main # <<>> /\ Head(main).kind = "pointer" /\ Once(main)
      /\ observers \in Seq(Nodes) /\ stored \in [Messages -> Nodes \union {Absent}]
      /\ UNCHANGED <<pointer, stored, sending, items, rows, images, downloads, alive>>
  BY DEF ScreenInvariant, TypeOK, QueueIsTold, Attach, Runs, screen
<1>1. PICK n \in Nodes : n = Head(main).node
  BY <1>0, HeadTailProperties, BlockFields
<1>2. PICK v \in Nat \ {0} : v = Len(observers) + 1
  BY <1>0, LenProperties
<1>3. PICK S : S = {m \in Messages : stored[m] = n}
  OBVIOUS
<1>4. PICK s \in SetToSeqs(S) :
          /\ observers' = Append(observers, n)
          /\ main' = Tail(main) \o [k \in DOMAIN s |-> Added(s[k], v)]
  BY <1>1, <1>2, <1>3 DEF Attach, Then
<1>5. IsFiniteSet(S) /\ S \subseteq Messages
  BY <1>3, ChatScreenAssumption, FS_Subset
<1>6. /\ s \in Seq(S) /\ \A i, j \in DOMAIN s : i # j => s[i] # s[j]
      /\ \A x \in S : \E i \in DOMAIN s : s[i] = x
      /\ \A i \in DOMAIN s : s[i] \in S
  BY <1>5, Enumerated, LenProperties, ElementOfSeq
<1>7. PICK O : O = [m \in S |-> [msg |-> m, via |-> v]]
  OBVIOUS
<1>8. O \in [S -> Items] /\ \A m \in S : O[m].msg = m /\ O[m].via = v
  BY <1>5, <1>7 DEF Items
<1>9. PICK es : es = [k \in DOMAIN s |-> Added(O[s[k]].msg, O[s[k]].via)]
  OBVIOUS
<1>10. es = [k \in DOMAIN s |-> Added(s[k], v)]
  BY <1>6, <1>8, <1>9
<1>11. \A i, j \in DOMAIN s : i # j => O[s[i]] # O[s[j]]
  BY <1>6, <1>8
<1>12. /\ es \in Seq(Blocks) /\ Once(es) /\ \A i \in DOMAIN es : es[i].kind = "added"
       /\ Waiting(es) = {O[x] : x \in S}
  BY <1>6, <1>8, <1>9, <1>11, HandedOver
<1>13. PICK q \in Seq(Blocks) :
           /\ q = Tail(main) /\ Waiting(q) = Waiting(main) /\ Once(q)
           /\ \A i \in DOMAIN q : \E j \in DOMAIN main : q[i] = main[j]
           /\ Has(main, "reload") => Has(q, "reload")
  <2>1. /\ Tail(main) \in Seq(Blocks)
        /\ \A i \in DOMAIN Tail(main) : i + 1 \in DOMAIN main /\ Tail(main)[i] = main[i + 1]
    BY <1>0, AfterHead
  <2>2. /\ Waiting(Tail(main)) = Waiting(main) /\ Once(Tail(main))
        /\ Has(main, "reload") => Has(Tail(main), "reload")
    BY <1>0, HeadRuns
  <2>3. QED
    BY <2>1, <2>2
<1>14. main' = q \o es
  BY <1>4, <1>10, <1>13
<1>15. /\ observers' \in Seq(Nodes) /\ DOMAIN observers' = DOMAIN observers \union {v}
       /\ v \notin DOMAIN observers /\ observers'[v] = n
       /\ \A i \in DOMAIN observers : observers'[i] = observers[i]
  <2>1. /\ DOMAIN observers = 1..Len(observers) /\ Len(observers) \in Nat
        /\ observers' \in Seq(Nodes) /\ Len(observers') = Len(observers) + 1
        /\ \A i \in 1..Len(observers) : observers'[i] = observers[i]
        /\ observers'[Len(observers) + 1] = n
    BY <1>0, <1>4, AppendProperties, LenProperties
  <2>2. DOMAIN observers' = 1..(Len(observers) + 1)
    BY <2>1, LenProperties
  <2>3. QED
    BY <1>2, <2>1, <2>2
<1>16. \A o \in Told : o.via # v
  BY <1>15 DEF Told
<1>17. \A o \in Waiting(es) : \E m \in S : o = [msg |-> m, via |-> v]
  BY <1>7, <1>12
<1>18. \A m \in S : [msg |-> m, via |-> v] \in Waiting(es)
  BY <1>7, <1>12
<1>19. Told' = Told \union Waiting(es)
  <2>1. ASSUME NEW o \in [msg : Messages, via : DOMAIN observers] PROVE o \in Told' <=> o \in Told
    BY <1>0, <1>15 DEF Told
  <2>2. ASSUME NEW m \in Messages, NEW o, o = [msg |-> m, via |-> v]
        PROVE  o \in Told' <=> m \in S
    BY <1>0, <1>3, <1>15, <2>2 DEF Told
  <2>3. ASSUME NEW o \in Told'
        PROVE  \/ o \in [msg : Messages, via : DOMAIN observers]
               \/ o.msg \in Messages /\ o = [msg |-> o.msg, via |-> v]
    BY <1>15 DEF Told
  <2>4. ASSUME NEW o \in Told' PROVE o \in Told \union Waiting(es)
    BY <1>18, <2>1, <2>2, <2>3
  <2>5. ASSUME NEW o \in Told PROVE o \in Told'
    BY <2>1, <2>5 DEF Told
  <2>6. ASSUME NEW o \in Waiting(es) PROVE o \in Told'
    BY <1>5, <1>17, <2>2, <2>6
  <2>7. QED
    BY <2>4, <2>5, <2>6
<1>20. Waiting(es) \cap Told = {}
  BY <1>16, <1>17
<1>21. main' \in Seq(Blocks)
  BY <1>12, <1>14, Joined
<1>22. TypeOK'
  BY <1>0, <1>15, <1>21 DEF ScreenInvariant, TypeOK
<1>23. SentIsStored' /\ \A p \in Pins : sending[p] \notin Unwritten => sending'[p] \notin Unwritten
  BY <1>0 DEF ScreenInvariant, SentIsStored
<1>24. QED
  BY <1>0, <1>12, <1>13, <1>14, <1>19, <1>20, <1>22, <1>23, TellingKeeps

-----------------------------------------------------------------------------
(* The writes of locations *)

\* Blocks that run or are queued, none of them the write of a location.
LEMMA NoNewWrites ==
  ASSUME WritesInvariant, NEW q \in Seq(Blocks), q = main, NEW es \in Seq(Blocks),
         \A i \in DOMAIN es : es[i].kind # "write",
         main' = q \o es \/ (q # <<>> /\ main' = Tail(q) \o es),
         \A i \in DOMAIN main' :
             main'[i].kind = "write" /\ sending[main'[i].msg] = "asked"
                 => sending'[main'[i].msg] = "asked"
  PROVE  WritesInvariant'
<1>1. PICK d \in {0, 1} :
          \A i \in DOMAIN main' : main'[i].kind = "write" =>
              i + d \in DOMAIN main /\ main'[i] = main[i + d] /\ i \in Nat
  <2>1. CASE main' = q \o es
    <3>1. \A i \in DOMAIN main' : \/ i \in DOMAIN q /\ main'[i] = q[i]
                                  \/ \E j \in DOMAIN es : main'[i] = es[j]
      BY <2>1, Joined
    <3>2. \A i \in DOMAIN q : i \in Nat /\ i + 0 = i
      BY LenProperties
    <3>3. \A i \in DOMAIN main' : main'[i].kind = "write" =>
              i + 0 \in DOMAIN main /\ main'[i] = main[i + 0] /\ i \in Nat
      BY <3>1, <3>2
    <3>4. QED
      BY <3>3
  <2>2. CASE q # <<>> /\ main' = Tail(q) \o es
    <3>0. /\ Tail(q) \in Seq(Blocks)
          /\ \A i \in DOMAIN Tail(q) : i + 1 \in DOMAIN q /\ Tail(q)[i] = q[i + 1]
      BY <2>2, AfterHead
    <3>1. PICK t \in Seq(Blocks) :
              /\ t = Tail(q)
              /\ \A i \in DOMAIN t : i + 1 \in DOMAIN q /\ t[i] = q[i + 1]
      BY <3>0
    <3>2. main' = t \o es
      BY <2>2, <3>1
    <3>3. \A i \in DOMAIN main' : \/ i \in DOMAIN t /\ main'[i] = t[i]
                                  \/ \E j \in DOMAIN es : main'[i] = es[j]
      BY <3>2, Joined
    <3>4. \A i \in DOMAIN t : i \in Nat
      BY LenProperties
    <3>5. \A i \in DOMAIN main' : main'[i].kind = "write" =>
              i + 1 \in DOMAIN main /\ main'[i] = main[i + 1] /\ i \in Nat
      BY <3>1, <3>3, <3>4
    <3>6. QED
      BY <3>5
  <2>3. QED
    BY <2>1, <2>2
<1>2. WritesAreAsked'
  BY <1>1 DEF WritesInvariant, WritesAreAsked
<1>3. WrittenOnce'
  <2> SUFFICES ASSUME NEW i \in DOMAIN main', NEW j \in DOMAIN main',
                      main'[i].kind = "write", main'[j].kind = "write",
                      main'[i].msg = main'[j].msg
               PROVE  i = j
    BY DEF WrittenOnce
  <2>1. i + d = j + d /\ i \in Nat /\ j \in Nat
    BY <1>1 DEF WritesInvariant, WrittenOnce
  <2>2. QED
    BY <2>1
<1>4. QED
  BY <1>2, <1>3 DEF WritesInvariant

\* The blocks that a step queues.
Queues(es) ==
    /\ es \in Seq(Blocks) /\ \A i \in DOMAIN es : es[i].kind # "write"
    /\ main' = main \o es \/ (main # <<>> /\ main' = Tail(main) \o es)

\* One block is queued, or none.
LEMMA QueuesOne ==
  ASSUME main \in Seq(Blocks)
  PROVE  /\ main' = main => Queues(<<>>)
         /\ \A b \in Blocks : b.kind # "write" /\ main' = Append(main, b) => Queues(<<b>>)
         /\ \A b \in Blocks :
                b.kind # "write" /\ main # <<>> /\ main' = Tail(main) \o <<b>> => Queues(<<b>>)
         /\ main # <<>> /\ main' = Tail(main) \o <<>> => Queues(<<>>)
<1>1. <<>> \in Seq(Blocks) /\ main \o <<>> = main
  BY EmptySeq, ConcatEmptySeq
<1>2. ASSUME NEW b \in Blocks
      PROVE  <<b>> \in Seq(Blocks) /\ Append(main, b) = main \o <<b>> /\ <<b>>[1] = b
             /\ DOMAIN <<b>> = {1}
  BY AppendIsConcat
<1>3. main' = main => Queues(<<>>)
  BY <1>1 DEF Queues
<1>4. main # <<>> /\ main' = Tail(main) \o <<>> => Queues(<<>>)
  BY <1>1 DEF Queues
<1>5. ASSUME NEW b \in Blocks, b.kind # "write",
             main' = Append(main, b) \/ (main # <<>> /\ main' = Tail(main) \o <<b>>)
      PROVE  Queues(<<b>>)
  <2>1. \A i \in DOMAIN <<b>> : <<b>>[i] = b
    OBVIOUS
  <2>2. QED
    BY <1>2, <1>5, <2>1 DEF Queues
<1>6. QED
  BY <1>3, <1>4, <1>5

\* Only ReadEntry queues a write, and only WriteLocation goes on with one.
LEMMA OtherStepsQueueNoWrite ==
  ASSUME ScreenInvariant,
         \/ \E n \in Nodes : SetPointer(n)
         \/ \E m \in Messages, n \in Nodes : Arrive(m, n)
         \/ MainThread
         \/ \E p \in Pins : SendLocation(p) \/ LocationAcked(p)
         \/ \E row \in 1..rows : ShowRow(row)
         \/ Keyboard
         \/ \E d \in downloads : ImageArrived(d) \/ ImageFailed(d)
  PROVE  \E es : Queues(es)
<1>0. main \in Seq(Blocks) /\ TypeOK
  BY DEF ScreenInvariant, TypeOK
<1>h. main # <<>> => Head(main) \in Blocks
  BY <1>0, HeadTailProperties
<1>1. ASSUME NEW m \in Messages, NEW n \in Nodes, NEW es \in EventsOf(m, n),
             main' = main \o es \/ (main # <<>> /\ main' = Tail(main) \o es)
      PROVE  Queues(es)
  <2>1. es \in Seq(Blocks) /\ \A i \in DOMAIN es : es[i].kind = "added"
    BY <1>0, EventsAre
  <2>2. QED
    BY <1>1, <2>1 DEF Queues
<1>2. CASE \E n \in Nodes : SetPointer(n)
  <2>1. PICK n \in Nodes : main' = Append(main, [kind |-> "pointer", node |-> n])
    BY <1>2 DEF SetPointer
  <2>2. QED
    BY <1>0, <2>1, BlockTypes, QueuesOne
<1>3. CASE \E m \in Messages, n \in Nodes : Arrive(m, n)
  BY <1>1, <1>3 DEF Arrive
<1>4. CASE Attach
  <2>0. main # <<>> /\ Head(main).kind = "pointer"
    BY <1>4 DEF Attach, Runs
  <2>1. PICK n \in Nodes, v \in Nat \ {0} : n = Head(main).node /\ v = Len(observers) + 1
    BY <1>0, <1>h, <2>0, BlockFields, LenProperties DEF TypeOK
  <2>2. PICK S : S = {m \in Messages : stored[m] = n}
    OBVIOUS
  <2>3. PICK s \in SetToSeqs(S) : main' = Tail(main) \o [k \in DOMAIN s |-> Added(s[k], v)]
    BY <1>4, <2>1, <2>2 DEF Attach, Then
  <2>4. IsFiniteSet(S) /\ S \subseteq Messages
    BY <2>2, ChatScreenAssumption, FS_Subset
  <2>5. s \in Seq(S) /\ \A i \in DOMAIN s : s[i] \in Messages
    BY <2>4, Enumerated, LenProperties, ElementOfSeq
  <2>6. PICK es : es = [k \in DOMAIN s |-> Added(s[k], v)]
    OBVIOUS
  <2>7. \A k \in DOMAIN s : es[k] \in Blocks /\ es[k].kind = "added"
    BY <2>5, <2>6, BlockTypes
  <2>8. es \in Seq(Blocks)
    <3>1. DOMAIN s = 1..Len(s) /\ Len(s) \in Nat
      BY <2>5, LenProperties
    <3>2. es \in [1..Len(s) -> Blocks]
      BY <2>6, <2>7, <3>1
    <3>3. QED
      BY <3>1, <3>2, SeqDef
  <2>9. Queues(es)
    BY <2>0, <2>3, <2>6, <2>7, <2>8 DEF Queues
  <2>10. QED
    BY <2>9
<1>5. CASE AddItem
  BY <1>0, <1>5, BlockTypes, QueuesOne DEF AddItem, Runs, Then
<1>6. CASE Reload \/ ReloadRow
  BY <1>0, <1>6, QueuesOne DEF Reload, ReloadRow, Runs, Then
<1>7. CASE WriteLocation
  <2>1. main # <<>> /\ Head(main).kind = "write"
    BY <1>7 DEF WriteLocation, Runs
  <2>2. PICK p \in Pins, k \in Nodes \union {Absent} : p = Head(main).msg /\ k = Head(main).node
    BY <1>h, <2>1, BlockFields
  <2>3. PICK n \in Nodes : n = IF k = Absent THEN p ELSE k
    BY <2>2, ChatScreenAssumption
  <2>4. PICK es \in EventsOf(p, n) : main' = Tail(main) \o es
    BY <1>7, <2>2, <2>3 DEF WriteLocation, Then
  <2>5. p \in Messages
    BY ChatScreenAssumption
  <2>6. QED
    BY <1>1, <2>1, <2>4, <2>5
<1>8. CASE LocationSent
  <2>1. main # <<>> /\ Head(main).kind = "completed"
    BY <1>8 DEF LocationSent, Runs
  <2>2. PICK p \in Pins : p = Head(main).msg
    BY <1>h, <2>1, BlockFields
  <2>3. sending[p] = "creating" => stored[p] \in Nodes
    BY <1>0, ChatScreenAssumption DEF ScreenInvariant, SentIsStored, Unwritten, TypeOK
  <2>4. CASE sending[p] = "creating" /\ pointer # stored[p]
    <3>1. main' = Tail(main) \o <<[kind |-> "pointer", node |-> stored[p]]>>
      BY <1>8, <2>2, <2>4 DEF LocationSent, Then
    <3>2. PICK b \in Blocks : b = [kind |-> "pointer", node |-> stored[p]] /\ b.kind = "pointer"
      BY <2>3, <2>4, BlockTypes
    <3>3. Queues(<<b>>)
      BY <1>0, <2>1, <3>1, <3>2, QueuesOne
    <3>4. QED
      BY <3>3
  <2>5. CASE ~(sending[p] = "creating" /\ pointer # stored[p])
    <3>1. main' = Tail(main) \o <<>>
      BY <1>8, <2>2, <2>5 DEF LocationSent, Then
    <3>2. QED
      BY <1>0, <2>1, <3>1, QueuesOne
  <2>6. QED
    BY <2>4, <2>5
<1>9. CASE \E p \in Pins : LocationAcked(p)
  BY <1>0, <1>9, BlockTypes, QueuesOne DEF LocationAcked
<1>10. CASE \E d \in downloads : ImageArrived(d)
  <2>1. PICK r \in Nat \ {0} : main' = Append(main, [kind |-> "reloadRow", row |-> r])
    BY <1>0, <1>10 DEF ImageArrived, TypeOK, Downloads
  <2>2. QED
    BY <1>0, <2>1, BlockTypes, QueuesOne
<1>11. CASE \/ \E p \in Pins : SendLocation(p)
            \/ \E row \in 1..rows : ShowRow(row)
            \/ Keyboard
            \/ \E d \in downloads : ImageFailed(d)
  <2>1. main' = main
    BY <1>11 DEF SendLocation, ShowRow, Keyboard, ImageFailed
  <2>2. QED
    BY <1>0, <2>1, QueuesOne
<1>12. QED
  BY <1>2, <1>3, <1>4, <1>5, <1>6, <1>7, <1>8, <1>9, <1>10, <1>11 DEF MainThread

\* The read of the entry is answered: the location is to be written.
LEMMA ReadEntryKeepsWrites ==
  ASSUME ScreenInvariant, WritesInvariant, NEW p \in Pins, ReadEntry(p)
  PROVE  WritesInvariant'
<1>0. /\ main \in Seq(Blocks) /\ sending[p] = "reading"
      /\ sending' = [sending EXCEPT ![p] = "asked"] /\ DOMAIN sending = Pins
      /\ \A i \in DOMAIN main : main[i] \in Blocks
  <2>1. main \in Seq(Blocks)
    BY DEF ScreenInvariant, TypeOK
  <2>2. \A i \in DOMAIN main : main[i] \in Blocks
    BY <2>1, ElementOfSeq, LenProperties
  <2>3. QED
    BY <2>1, <2>2 DEF ReadEntry, ScreenInvariant, TypeOK
<1>1. PICK b : b = [kind |-> "write", msg |-> p, node |-> pointer] /\ main' = Append(main, b)
  BY DEF ReadEntry
<1>2. /\ Len(main) \in Nat /\ DOMAIN main = 1..Len(main)
      /\ DOMAIN main' = 1..(Len(main) + 1)
      /\ \A i \in 1..Len(main) : main'[i] = main[i]
      /\ main'[Len(main) + 1] = b
  BY <1>0, <1>1
<1>3. \A i \in DOMAIN main : main[i].kind = "write" => main[i].msg \in Pins /\ main[i].msg # p
  BY <1>0, BlockFields DEF WritesInvariant, WritesAreAsked
<1>4. b.kind = "write" /\ b.msg = p
  BY <1>1
<1>5. WritesAreAsked'
  BY <1>0, <1>2, <1>3, <1>4 DEF WritesInvariant, WritesAreAsked
<1>6. WrittenOnce'
  BY <1>2, <1>3, <1>4 DEF WritesInvariant, WrittenOnce
<1>7. QED
  BY <1>5, <1>6 DEF WritesInvariant

LEMMA WritesInvariantStep == ScreenInvariant /\ WritesInvariant /\ [Next]_vars => WritesInvariant'
<1> SUFFICES ASSUME ScreenInvariant, WritesInvariant, [Next]_vars PROVE WritesInvariant'
  OBVIOUS
<1>0. /\ main \in Seq(Blocks) /\ DOMAIN sending = Pins
      /\ \A i \in DOMAIN main : main[i] \in Blocks
  <2>1. main \in Seq(Blocks)
    BY DEF ScreenInvariant, TypeOK
  <2>2. \A i \in DOMAIN main : main[i] \in Blocks
    BY <2>1, ElementOfSeq, LenProperties
  <2>3. QED
    BY <2>1, <2>2 DEF ScreenInvariant, TypeOK
<1>1. CASE \E p \in Pins : ReadEntry(p)
  BY <1>1, ReadEntryKeepsWrites
<1>2. CASE UNCHANGED vars
  BY <1>2 DEF vars, data, WritesInvariant, WritesAreAsked, WrittenOnce
<1>3. CASE ~(\E p \in Pins : ReadEntry(p)) /\ Next
  <2>1. PICK es : Queues(es)
    BY <1>3, OtherStepsQueueNoWrite DEF Next
  <2>2. PICK q \in Seq(Blocks) : q = main
    BY <1>0
  <2>3. \A i \in DOMAIN main' :
            main'[i].kind = "write" /\ sending[main'[i].msg] = "asked"
                => sending'[main'[i].msg] = "asked"
    <3>1. CASE WriteLocation
      <4>1. main # <<>> /\ Head(main).kind = "write"
            /\ \A p \in Pins : p # Head(main).msg => sending'[p] = sending[p]
        BY <1>0, <3>1 DEF WriteLocation, Runs
      <4>2. /\ 1 \in DOMAIN main /\ main[1] = Head(main)
            /\ \A i \in DOMAIN Tail(main) : i + 1 \in DOMAIN main /\ i + 1 # 1
                                             /\ Tail(main)[i] = main[i + 1]
        BY <1>0, <4>1, AfterHead
      <4>3. \A i \in DOMAIN Tail(main) :
                Tail(main)[i].kind = "write" => /\ Tail(main)[i].msg \in Pins
                                                /\ Tail(main)[i].msg # Head(main).msg
        BY <1>0, <4>1, <4>2, BlockFields DEF WritesInvariant, WrittenOnce
      <4>4. PICK t \in Seq(Blocks), e \in Seq(Blocks) :
                t = Tail(main) /\ main' = t \o e /\ \A i \in DOMAIN e : e[i].kind # "write"
        <5>1. Tail(main) \in Seq(Blocks)
          BY <1>0, <4>1, AfterHead
        <5>2. PICK p \in Pins, k \in Nodes \union {Absent} :
                  p = Head(main).msg /\ k = Head(main).node
          BY <1>0, <4>1, <4>2, BlockFields
        <5>3. PICK n \in Nodes : n = IF k = Absent THEN p ELSE k
          BY <5>2, ChatScreenAssumption
        <5>4. PICK e \in EventsOf(p, n) : main' = Tail(main) \o e
          BY <3>1, <5>2, <5>3 DEF WriteLocation, Then
        <5>5. p \in Messages
          BY ChatScreenAssumption
        <5>6. e \in Seq(Blocks) /\ \A i \in DOMAIN e : e[i].kind = "added"
          BY <5>5, EventsAre DEF ScreenInvariant
        <5>7. QED
          BY <5>1, <5>4, <5>6
      <4>5. \A i \in DOMAIN main' : \/ i \in DOMAIN t /\ main'[i] = t[i]
                                    \/ \E j \in DOMAIN e : main'[i] = e[j]
        <5>1. PICK r : r = main' /\ r = t \o e
          BY <4>4
        <5>2. \A i \in DOMAIN r : \/ i \in DOMAIN t /\ r[i] = t[i]
                                  \/ \E j \in DOMAIN e : r[i] = e[j]
          BY <5>1, Joined
        <5>3. QED
          BY <5>1, <5>2
      <4>6. \A i \in DOMAIN main' :
                main'[i].kind = "write" => i \in DOMAIN Tail(main) /\ main'[i] = Tail(main)[i]
        BY <4>4, <4>5
      <4>7. QED
        BY <4>1, <4>3, <4>6
    <3>2. CASE ~WriteLocation
      <4>1. \A p \in Pins : sending[p] = "asked" => sending'[p] = "asked"
        <5>1. CASE LocationSent
          <6>1. main # <<>> /\ Head(main).kind = "completed"
                /\ sending' = [sending EXCEPT ![Head(main).msg] = "done"]
            BY <5>1 DEF LocationSent, Runs
          <6>2. 1 \in DOMAIN main /\ main[1] = Head(main)
            BY <1>0, <6>1, AfterHead
          <6>3. sending[Head(main).msg] # "asked"
            BY <6>1, <6>2 DEF ScreenInvariant, CompletedWasSent, Unwritten
          <6>4. QED
            BY <1>0, <6>1, <6>3
        <5>2. CASE \E p \in Pins : SendLocation(p)
          BY <1>0, <5>2 DEF SendLocation
        <5>3. CASE sending' = sending
          BY <5>3
        <5>4. QED
          BY <1>3, <3>2, <5>1, <5>2, <5>3
             DEF Next, MainThread, SetPointer, Arrive, Attach, AddItem, Reload, ReloadRow,
                 LocationAcked, ShowRow, Keyboard, ImageArrived, ImageFailed, data, screen
      <4>2. \A i \in DOMAIN main' : main'[i].kind = "write" => main'[i].msg \in Pins
        <5>1. main' \in Seq(Blocks)
          <6>1. CASE main' = main \o es
            BY <2>1, <2>2, <6>1, Joined DEF Queues
          <6>2. CASE main # <<>> /\ main' = Tail(main) \o es
            <7>1. PICK t \in Seq(Blocks) : t = Tail(main)
              BY <1>0, <6>2, AfterHead
            <7>2. QED
              BY <2>1, <6>2, <7>1, Joined DEF Queues
          <6>3. QED
            BY <2>1, <6>1, <6>2 DEF Queues
        <5>2. \A i \in DOMAIN main' : main'[i] \in Blocks
          BY <5>1, ElementOfSeq, LenProperties
        <5>3. QED
          BY <5>2, BlockFields
      <4>3. QED
        BY <4>1, <4>2
    <3>3. QED
      BY <3>1, <3>2
  <2>4. QED
    BY <2>1, <2>2, <2>3, NoNewWrites DEF Queues
<1>4. QED
  BY <1>1, <1>2, <1>3

-----------------------------------------------------------------------------
(* The theorems *)

LEMMA ScreenInvariantInit == Init => ScreenInvariant
<1> SUFFICES ASSUME Init PROVE ScreenInvariant
  OBVIOUS
<1>1. /\ observers = <<>> /\ items = <<>> /\ rows = 0 /\ images = {} /\ downloads = {}
      /\ Len(items) = 0 /\ DOMAIN items = {} /\ DOMAIN observers = {}
  BY DEF Init
<1>2. main \in Seq(Blocks) /\ \A i \in DOMAIN main : main[i].kind = "pointer"
  <2>1. CASE pointer = Absent
    BY <2>1 DEF Init
  <2>2. CASE pointer # Absent
    <3>1. PICK b \in Blocks : b = [kind |-> "pointer", node |-> pointer]
      BY <2>2, BlockTypes DEF Init
    <3>2. main = <<b>> /\ b.kind = "pointer"
      BY <2>2, <3>1 DEF Init
    <3>3. QED
      BY <3>2
  <2>3. QED
    BY <2>1, <2>2
<1>3. stored \in [Messages -> Nodes \union {Absent}]
  BY DEF Init
<1>4. TypeOK
  BY <1>1, <1>2, <1>3 DEF Init, TypeOK
<1>5. Told = {} /\ Waiting(main) = {}
  BY <1>1, <1>2 DEF Told, Waiting
<1>6. Told \ Waiting(main) = {}
  BY <1>5
<1>7. QueueIsTold /\ RowsAreHandled /\ OnePhotoRow
  BY <1>1, <1>2, <1>5 DEF QueueIsTold, RowsAreHandled, OnePhotoRow, Once
<1>8. RowsAreCounted
  BY <1>1, <1>6, FS_EmptySet DEF RowsAreCounted
<1>9. RowsExist /\ ReloadComes
  BY <1>1, <1>2 DEF RowsExist, ReloadComes, Has
<1>10. SentIsStored /\ CompletedWasSent
  BY <1>2 DEF SentIsStored, CompletedWasSent, Init, Unwritten
<1>11. QED
  BY <1>4, <1>7, <1>8, <1>9, <1>10 DEF ScreenInvariant

LEMMA ScreenInvariantStep ==
  ScreenInvariant /\ WritesInvariant /\ [Next]_vars => ScreenInvariant'
<1> SUFFICES ASSUME ScreenInvariant, WritesInvariant, [Next]_vars PROVE ScreenInvariant'
  OBVIOUS
<1>1. CASE \E n \in Nodes : SetPointer(n)
  BY <1>1, SetPointerKeeps
<1>2. CASE \E m \in Messages, n \in Nodes : Arrive(m, n)
  BY <1>2, ArriveKeeps
<1>3. CASE MainThread
  BY <1>3, AttachKeeps, AddItemKeeps, ReloadKeeps, ReloadRowKeeps, WriteLocationKeeps,
     LocationSentKeeps
     DEF MainThread
<1>4. CASE \E p \in Pins : SendLocation(p) \/ ReadEntry(p)
  BY <1>4, SendLocationKeeps, ReadEntryKeeps
<1>5. CASE \E p \in Pins : LocationAcked(p)
  BY <1>5, LocationAckedKeeps
<1>6. CASE \E row \in 1..rows : ShowRow(row)
  BY <1>6, ShowRowKeeps
<1>7. CASE Keyboard \/ \E d \in downloads : ImageFailed(d)
  BY <1>7, KeyboardAndFailureKeep
<1>8. CASE \E d \in downloads : ImageArrived(d)
  BY <1>8, ImageArrivedKeeps
<1>9. CASE UNCHANGED vars
  <2>1. /\ UNCHANGED <<data, main, items, rows>>
        /\ images' \subseteq Items /\ alive' \in BOOLEAN /\ downloads' \subseteq Downloads
        /\ \A d \in downloads' : /\ d.row <= Len(items) /\ d.item.msg \in Photos
                                 /\ d.item \in Told \ Waiting(main)
    BY <1>9 DEF vars, screen, ScreenInvariant, TypeOK, RowsExist
  <2>2. QED
    BY <2>1, IdleStepKeeps
<1>10. QED
  BY <1>1, <1>2, <1>3, <1>4, <1>5, <1>6, <1>7, <1>8, <1>9 DEF Next

LEMMA ScreenInvariantHolds == Spec => []ScreenInvariant
<1>1. Init => WritesInvariant
  BY DEF Init, WritesInvariant, WritesAreAsked, WrittenOnce
<1>2. QED
  BY <1>1, ScreenInvariantInit, ScreenInvariantStep, WritesInvariantStep, PTL DEF Spec

\* Every variable of ChatScreen keeps its type: no block, row or download of
\* ChatVC speaks of a message or a listener that is not there.
THEOREM ScreenTypeCorrect == Spec => []TypeOK
<1>1. ScreenInvariant => TypeOK
  BY DEF ScreenInvariant
<1>2. QED
  BY <1>1, ScreenInvariantHolds, PTL

\* fetchData appends and sorts without losing a message; only the image of a
\* photo, written into a row that was its own before (cellForRowAt), hides one.
THEOREM NothingElseHidesAMessage == Spec => []OnlyAPhotoHidesAMessage
<1>1. ScreenInvariant => OnlyAPhotoHidesAMessage
  <2> SUFFICES ASSUME ScreenInvariant, ~ScreenIsComplete PROVE PhotoIsTwice
    BY DEF OnlyAPhotoHidesAMessage
  <2>1. PICK H : H = Told \ Waiting(main)
    OBVIOUS
  <2>2. H = Handled
    BY <2>1, HandledIs DEF ScreenInvariant
  <2>3. PICK o \in H : ~Shown(o)
    BY <2>2 DEF ScreenIsComplete
  <2>4. IsFiniteSet(H) /\ Cardinality(H) = Len(items)
    BY <2>1 DEF ScreenInvariant, RowsAreCounted
  <2>5. Len(items) \in Nat /\ DOMAIN items = 1..Len(items) /\ items = [i \in DOMAIN items |-> items[i]]
    BY LenProperties DEF ScreenInvariant, TypeOK
  <2>6. PICK T : T = H \ {o}
    OBVIOUS
  <2>7. IsFiniteSet(T) /\ Cardinality(T) = Len(items) - 1
    BY <2>3, <2>4, <2>6, FS_RemoveElement
  <2>8. Len(items) # 0
    BY <2>3, <2>4, FS_EmptySet
  <2>9. PICK D : D = DOMAIN items
    OBVIOUS
  <2>10. IsFiniteSet(D) /\ Cardinality(D) = Len(items)
    <3>1. PICK n \in Nat : n = Len(items)
      BY <2>5
    <3>2. IsFiniteSet(1..n) /\ Cardinality(1..n) = IF 1 > n THEN 0 ELSE n - 1 + 1
      BY FS_Interval
    <3>3. QED
      BY <2>5, <2>9, <3>1, <3>2
  <2>11. items \in [D -> T]
    BY <2>1, <2>3, <2>5, <2>6, <2>9 DEF ScreenInvariant, RowsAreHandled, Shown
  <2>12. Cardinality(T) < Cardinality(D)
    BY <2>5, <2>7, <2>8, <2>10
  <2>13. \E i, j \in D : i # j /\ items[i] = items[j]
    BY <2>7, <2>10, <2>11, <2>12, FS_PigeonHole
  <2>14. QED
    BY <2>9, <2>13 DEF ScreenInvariant, OnePhotoRow, PhotoIsTwice
<1>2. QED
  BY <1>1, ScreenInvariantHolds, PTL

\* When the main queue is empty the table knows every row: between an append of
\* fetchData and its reload any other block may run, and the array never shrinks.
THEOREM TableCatchesUp == Spec => []SettledTableIsCurrent
<1>1. ScreenInvariant => SettledTableIsCurrent
  BY DEF ScreenInvariant, ReloadComes, Has, SettledTableIsCurrent
<1>2. QED
  BY <1>1, ScreenInvariantHolds, PTL

\* A text or a location is on the screen twice only when downloadAllMessages
\* attached two listeners to its node.
THEOREM TwiceMeansTwoListeners == Spec => []OncePerListener
<1>1. ScreenInvariant => OncePerListener
  <2> SUFFICES ASSUME ScreenInvariant, NEW i \in DOMAIN items, NEW j \in DOMAIN items,
                      i # j, items[i].msg = items[j].msg, items[i].msg \notin Photos
               PROVE  \E k, l \in DOMAIN observers : k # l /\ observers[k] = observers[l]
    BY DEF OncePerListener
  <2>1. items[i] \in Told /\ items[j] \in Told
    BY DEF ScreenInvariant, RowsAreHandled
  <2>2. items[i] # items[j]
    BY DEF ScreenInvariant, OnePhotoRow
  <2>3. \A o \in Told : /\ o = [msg |-> o.msg, via |-> o.via] /\ o.via \in DOMAIN observers
                        /\ stored[o.msg] = observers[o.via]
    BY DEF Told
  <2>4. items[i].via # items[j].via
    BY <2>1, <2>2, <2>3
  <2>5. QED
    BY <2>1, <2>3, <2>4
<1>2. QED
  BY <1>1, ScreenInvariantHolds, PTL

=============================================================================

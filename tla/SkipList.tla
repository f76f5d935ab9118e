------------------------------ MODULE SkipList ------------------------------
(***************************************************************************)
(* The memtable's skip list (db/skiplist.h): one writer, which the write   *)
(* queue of DBImpl serializes, and readers that take no lock.  Every load  *)
(* and store of a link is a step.  A reader acquires what the writer       *)
(* releases, so it sees the stores of the writer in their order, and       *)
(* interleaving the steps gives all it can see; max_height_ alone is read  *)
(* without a barrier and may be any earlier value.  Readers do not affect  *)
(* each other or the writer: one stands for all.                           *)
(***************************************************************************)
EXTENDS Integers, FiniteSetsExt

CONSTANTS
    NumKeys,        \* how many keys there are; only their order matters
    MaxHeight       \* kMaxHeight

ASSUME SkipListAssumption == NumKeys \in Nat \ {0} /\ MaxHeight \in Nat \ {0}

SkipKeys == 1..NumKeys

VARIABLES
    links,          \* links[n][l]: next_[l] of node n
    maxHeight,      \* max_height_
    inserting,      \* the node Insert is linking, or NullNode
    height,         \* its height
    prev,           \* the prev array of Insert
    level,          \* the level whose links Insert sets next
    node,           \* the reader's node_
    reading,        \* the search it is in: "none", "seek" or "before"
    at, atLevel,    \* the search's x and level
    target,         \* the key it searches for
    call, present   \* ghost: what the last call asks for, the keys there when it began

skipListVars == <<links, maxHeight, inserting, height, prev, level, node, reading, at, atLevel,
                  target, call, present>>

\* head_ comes before all keys and NULL after; a link that was not set yet
\* holds anything.
HeadNode == 0
NullNode == NumKeys + 1
Unset == -1

Nodes == {HeadNode} \union SkipKeys
Heights == 0..MaxHeight - 1
\* The keys linked at level 0: a key is in the list when its node is reachable.
Linked == {k \in SkipKeys : \E n \in Nodes : links[n][0] = k}

SkipListTypeOK ==
    /\ links \in [Nodes -> [Heights -> SkipKeys \union {NullNode, Unset}]]
    /\ maxHeight \in 1..MaxHeight /\ height \in 0..MaxHeight
    /\ inserting \in SkipKeys \union {NullNode}
    /\ prev \in [Heights -> Nodes]
    /\ level \in 0..MaxHeight
    /\ node \in SkipKeys \union {NullNode, Unset}
    /\ reading \in {"none", "seek", "before"}
    /\ at \in Nodes \union {Unset} /\ atLevel \in Heights
    /\ target \in SkipKeys \union {NullNode}
    /\ call \in [up : BOOLEAN, bound : Nat]
    /\ present \in SUBSET SkipKeys

SkipListInit ==
    /\ links = [n \in Nodes |-> [l \in Heights |-> IF n = HeadNode THEN NullNode ELSE Unset]]
    /\ maxHeight = 1
    /\ inserting = NullNode /\ height = 0 /\ prev = [l \in Heights |-> HeadNode] /\ level = 0
    /\ node = NullNode /\ reading = "none" /\ at = HeadNode /\ atLevel = 0 /\ target = NullNode
    /\ call = [up |-> FALSE, bound |-> 0] /\ present = {}

-----------------------------------------------------------------------------
(* The writer *)

ReaderUnchanged == UNCHANGED <<node, reading, at, atLevel, target, call, present>>

\* The last node of a level before key, which FindGreaterOrEqual leaves in
\* prev; nobody else changes the list.
Previous(l, key) ==
    Max({n \in Nodes : n < key /\ (n = HeadNode \/ \E m \in Nodes : links[m][l] = n)})

\* Insert looks for the place of key, which is in no node, and draws a height;
\* above max_height_ the place is at head_.
InsertKey(key, h) ==
    /\ inserting = NullNode /\ key \notin Linked
    /\ inserting' = key /\ height' = h /\ level' = 0
    /\ prev' = [l \in Heights |-> IF l < maxHeight THEN Previous(l, key) ELSE HeadNode]
    /\ maxHeight' = IF h > maxHeight THEN h ELSE maxHeight
    /\ UNCHANGED links /\ ReaderUnchanged

\* x->NoBarrier_SetNext(i, prev[i]->NoBarrier_Next(i))
SetOwnLink ==
    /\ inserting # NullNode /\ links[inserting][level] = Unset
    /\ links' = [links EXCEPT ![inserting][level] = links[prev[level]][level]]
    /\ UNCHANGED <<maxHeight, inserting, height, prev, level>> /\ ReaderUnchanged

\* Faulty Publish: the node is published before its own link is set.
PublishFirst ==
    /\ inserting # NullNode
    /\ links' = [links EXCEPT ![prev[level]][level] = inserting]
    /\ IF level + 1 < height
       THEN level' = level + 1 /\ UNCHANGED inserting
       ELSE inserting' = NullNode /\ UNCHANGED level
    /\ UNCHANGED <<maxHeight, height, prev>> /\ ReaderUnchanged

\* prev[i]->SetNext(i, x), and on to the next level.
Publish ==
    /\ inserting # NullNode /\ links[inserting][level] # Unset
    /\ links' = [links EXCEPT ![prev[level]][level] = inserting]
    /\ IF level + 1 < height
       THEN level' = level + 1 /\ UNCHANGED inserting
       ELSE inserting' = NullNode /\ UNCHANGED level
    /\ UNCHANGED <<maxHeight, height, prev>> /\ ReaderUnchanged

-----------------------------------------------------------------------------
(* A reader *)

WriterUnchanged == UNCHANGED <<links, maxHeight, inserting, height, prev, level>>
AskFor(up, bound) == call' = [up |-> up, bound |-> bound] /\ present' = Linked

\* A search starts at head_, at what the reader sees of max_height_.
Search(kind, key) ==
    /\ reading' = kind /\ target' = key /\ at' = HeadNode
    /\ \E h \in 1..maxHeight : atLevel' = h - 1

\* Iterator::Seek
SeekKey(key) ==
    /\ reading = "none"
    /\ Search("seek", key) /\ AskFor(TRUE, key)
    /\ WriterUnchanged /\ UNCHANGED node

\* Iterator::Prev, and SeekToLast, which FindLast serves by the same search
\* for what comes before NULL.
PrevNode ==
    /\ reading = "none" /\ node \in SkipKeys
    /\ Search("before", node) /\ AskFor(FALSE, node)
    /\ WriterUnchanged /\ UNCHANGED node

SeekToLastNode ==
    /\ reading = "none"
    /\ Search("before", NullNode) /\ AskFor(FALSE, NullNode)
    /\ WriterUnchanged /\ UNCHANGED node

\* Iterator::SeekToFirst and Next, one load each.
LoadNext(n) ==
    /\ node' = links[n][0]
    /\ AskFor(TRUE, n + 1)
    /\ WriterUnchanged /\ UNCHANGED <<reading, at, atLevel, target>>

SeekToFirstNode == reading = "none" /\ LoadNext(HeadNode)
NextNode == reading = "none" /\ node \in SkipKeys /\ LoadNext(node)

\* A turn of the loop of FindGreaterOrEqual, FindLessThan or FindLast: go on
\* in this level, or drop to the next, or end at level 0.  (NULL is after the
\* target of each.)
SearchTurn ==
    LET next == links[at][atLevel] IN
    /\ reading # "none" /\ at # Unset
    /\ IF next < target
       THEN at' = next /\ UNCHANGED <<atLevel, reading, node>>
       ELSE IF atLevel > 0
       THEN atLevel' = atLevel - 1 /\ UNCHANGED <<at, reading, node>>
       ELSE /\ node' = (IF reading = "seek" THEN next ELSE IF at = HeadNode THEN NullNode ELSE at)
            /\ reading' = "none" /\ UNCHANGED <<at, atLevel>>
    /\ WriterUnchanged /\ UNCHANGED <<target, call, present>>

SkipListNext ==
    \/ \E key \in SkipKeys, h \in 1..MaxHeight : InsertKey(key, h)
    \/ SetOwnLink \/ Publish
    \/ \E key \in SkipKeys : SeekKey(key)
    \/ PrevNode \/ SeekToLastNode \/ SeekToFirstNode \/ NextNode \/ SearchTurn

SkipListSpec == SkipListInit /\ [][SkipListNext]_skipListVars

-----------------------------------------------------------------------------
\* A reader that takes no lock, at every moment of an insertion: it follows no
\* link that was not set, and a call passes over no key that was in the list
\* when it began; it ends at the nearest of these, or at one inserted since
\* that is nearer (the comments on max_height_ and on the stores in Insert).
NoKeyIsPassedOver ==
    /\ at # Unset /\ node # Unset
    /\ reading = "none" =>
          \/ /\ node = NullNode
             /\ \A k \in present : IF call.up THEN k < call.bound ELSE k >= call.bound
          \/ /\ node \in Linked
             /\ IF call.up
                THEN node >= call.bound /\ \A k \in present : k >= call.bound => node <= k
                ELSE node < call.bound /\ \A k \in present : k < call.bound => k <= node
=============================================================================

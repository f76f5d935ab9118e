------------------------------- MODULE Table -------------------------------
(***************************************************************************)
(* A table file of LevelDB: written by TableBuilder over BlockBuilder      *)
(* (table/table_builder.cc, table/block_builder.cc) and read by Block's    *)
(* iterator, the two-level iterator and Table::InternalGet.  LevelDB and   *)
(* DBIterator take a table for the set of its entries.                     *)
(*                                                                         *)
(* An encoded key is the bytes of its user key and then its number; the    *)
(* trailer's eight bytes are one.  Offsets in a block are counted in       *)
(* entries, since a value may have any length; for the same reason a block *)
(* may be full after any entry.  The value of an entry is its place in the *)
(* table, a block's handle its place among the blocks.  Compression,       *)
(* checksums, unreadable blocks and filters (APLevelDB.mm sets no filter   *)
(* policy) are left out.                                                   *)
(***************************************************************************)
EXTENDS Integers, Sequences, SequencesExt, FiniteSetsExt

CONSTANTS
    EncodedKeys,        \* sequences of bytes
    MaxByte,            \* 0xff
    MaxNumber,          \* the largest sequence number in use
    RestartInterval,    \* block_restart_interval
    MaxKeys             \* bound: entries of a table

ASSUME TableAssumption ==
    /\ MaxByte \in Nat /\ EncodedKeys \subseteq Seq(0..MaxByte)
    /\ MaxNumber \in Nat /\ MaxKeys \in Nat /\ RestartInterval \in Nat \ {0}

VARIABLES
    keys,           \* the keys added, in order
    dataBlock,      \* the block being built
    indexBlock,     \* the index block being built
    blocks,         \* the data blocks written
    pending,        \* pending_index_entry
    closed,         \* the table is finished
    index,          \* index_iter_: an iterator of the index block
    data,           \* data_iter_, and the block it is of (0 for NULL)
    expected        \* ghost: the place the last call should end at, or 0

tableVars == <<keys, dataBlock, indexBlock, blocks, pending, closed, index, data, expected>>

-----------------------------------------------------------------------------
\* Internal keys.  Nothing in use has the number kMaxSequenceNumber.
TableKeys == {Append(u, n) : u \in EncodedKeys, n \in 1..MaxNumber}
MaxSequenceNumber == MaxNumber + 1
Targets == {Append(u, n) : u \in EncodedKeys, n \in 1..MaxSequenceNumber}
User(k) == Front(k)

SharedPrefix(a, b) ==
    Max({i \in 0..Min({Len(a), Len(b)}) : SubSeq(a, 1, i) = SubSeq(b, 1, i)})

BytesLess(a, b) ==
    LET i == SharedPrefix(a, b)
    IN  i < Len(b) /\ (i < Len(a) => a[i + 1] < b[i + 1])

KeyLess(a, b) == \/ BytesLess(User(a), User(b))
                 \/ User(a) = User(b) /\ Last(a) > Last(b)

\* The first user key after start that is shorter, with the earliest number.
Shortened(start, user) ==
    IF Len(user) < Len(User(start)) /\ BytesLess(User(start), user)
    THEN Append(user, MaxSequenceNumber)
    ELSE start

UpTo(user, i) == Append(SubSeq(user, 1, i - 1), user[i] + 1)

\* Faulty: the earliest number also goes on a key that was left as it is.
FindSeparatorAlwaysEarliest(start, limit) ==
    LET s == User(start)
        l == User(limit)
        i == SharedPrefix(s, l) + 1
    IN  IF i <= Len(s) /\ i <= Len(l) /\ s[i] < MaxByte /\ s[i] + 1 < l[i]
        THEN Shortened(start, UpTo(s, i))
        ELSE Append(s, MaxSequenceNumber)

FindShortestSeparator(start, limit) ==
    LET s == User(start)
        l == User(limit)
        i == SharedPrefix(s, l) + 1
    IN  IF i <= Len(s) /\ i <= Len(l) /\ s[i] < MaxByte /\ s[i] + 1 < l[i]
        THEN Shortened(start, UpTo(s, i))
        ELSE start

FindShortSuccessor(key) ==
    LET s == User(key)
        low == {i \in 1..Len(s) : s[i] # MaxByte}
    IN  IF low = {} THEN key ELSE Shortened(key, UpTo(s, Min(low)))

-----------------------------------------------------------------------------
\* Blocks.  An entry shares a prefix with the one before it, but for those at
\* the restart points, which the binary search of a Seek reads.
EmptyBlock == [entries |-> <<>>, restarts |-> <<1>>, counter |-> 0, lastKey |-> <<>>]

AddToBlock(b, key, value, interval) ==
    LET restart == b.counter >= interval
        shared == IF restart THEN 0 ELSE SharedPrefix(b.lastKey, key)
        entry == [shared |-> shared, delta |-> SubSeq(key, shared + 1, Len(key)), value |-> value]
    IN  [entries |-> Append(b.entries, entry),
         restarts |-> IF restart THEN Append(b.restarts, Len(b.entries) + 1) ELSE b.restarts,
         counter |-> IF restart THEN 1 ELSE b.counter + 1,
         lastKey |-> key]

\* An iterator of a block: current_, NextEntryOffset, restart_index_ and key_.
EndOf(b) == Len(b.entries) + 1
Fresh(b) == [at |-> EndOf(b), next |-> EndOf(b), restart |-> Len(b.restarts) + 1, key |-> <<>>]
BlockValid(b, it) == it.at < EndOf(b)

SeekToRestartPoint(b, it, r) ==
    [it EXCEPT !.next = b.restarts[r], !.restart = r, !.key = <<>>]

ParseNextKey(b, it) ==
    IF it.next >= EndOf(b)
    THEN [it EXCEPT !.at = EndOf(b), !.restart = Len(b.restarts) + 1]
    ELSE LET e == b.entries[it.next]
             passed == {r \in 1..Len(b.restarts) : b.restarts[r] < it.next}
         IN  [at |-> it.next, next |-> it.next + 1, restart |-> Max(passed \union {it.restart}),
              key |-> SubSeq(it.key, 1, e.shared) \o e.delta]

\* Parses from a restart point until an entry that More does not pass over.
Scan(b, it, r, More(_)) ==
    LET parse[n \in 0..Len(b.entries)] ==
            IF n = 0 THEN ParseNextKey(b, SeekToRestartPoint(b, it, r))
            ELSE LET p == parse[n - 1]
                 IN  IF BlockValid(b, p) /\ More(p) THEN ParseNextKey(b, p) ELSE p
    IN  parse[Len(b.entries)]

BlockSeekToFirst(b, it) == Scan(b, it, 1, LAMBDA p : FALSE)
BlockSeekToLast(b, it) == Scan(b, it, Len(b.restarts), LAMBDA p : p.next < EndOf(b))

\* Faulty: a restart point at the current entry is taken for one before it.
BlockPrevFromOwnRestart(b, it) ==
    LET before == {r \in 1..it.restart : b.restarts[r] <= it.at}
    IN  IF it.at = 1
        THEN [it EXCEPT !.at = EndOf(b), !.restart = Len(b.restarts) + 1]
        ELSE Scan(b, it, Max(before), LAMBDA p : p.next < it.at)

BlockPrev(b, it) ==
    LET before == {r \in 1..it.restart : b.restarts[r] < it.at}
    IN  IF before = {}
        THEN [it EXCEPT !.at = EndOf(b), !.restart = Len(b.restarts) + 1]
        ELSE Scan(b, it, Max(before), LAMBDA p : p.next < it.at)

\* The last restart point with a key before t, or the first.
RestartBefore(b, t) ==
    LET R == 1..Len(b.restarts)
        search[left \in R, right \in 0..Len(b.restarts)] ==
            LET mid == (left + right + 1) \div 2
            IN  IF left >= right THEN left
                ELSE IF KeyLess(b.entries[b.restarts[mid]].delta, t)
                THEN search[mid, right]
                ELSE search[left, mid - 1]
    IN  search[1, Len(b.restarts)]

BlockSeek(b, it, t) == Scan(b, it, RestartBefore(b, t), LAMBDA p : KeyLess(p.key, t))

-----------------------------------------------------------------------------
\* The two-level iterator, a pair of index_iter_ and data_iter_.
IndexValid(i) == BlockValid(indexBlock, i)
Handle(i) == indexBlock.entries[i.at].value
NoData == [block |-> 0, it |-> Fresh(EmptyBlock)]
DataValid(d) == d.block # 0 /\ BlockValid(blocks[d.block], d.it)

\* A data iterator that is of the block already is kept.
InitDataBlock(i, d) ==
    IF ~IndexValid(i) THEN NoData
    ELSE IF d.block = Handle(i) THEN d
    ELSE [block |-> Handle(i), it |-> Fresh(blocks[Handle(i)])]

\* The index moved to i; Position(b, it) puts the data iterator into place.
Moved(i, d, Position(_, _)) ==
    LET e == InitDataBlock(i, d)
    IN  [index |-> i,
         data |-> IF e.block = 0 THEN e ELSE [e EXCEPT !.it = Position(blocks[e.block], e.it)]]

\* While the data iterator is at its end, the index moves and the data
\* iterator is put at the end of the block it comes from.
SkipEmpty(s, Move(_, _), Position(_, _)) ==
    LET skip[n \in 0..Len(blocks) + 1] ==
            IF n = 0 THEN s
            ELSE LET p == skip[n - 1]
                 IN  IF DataValid(p.data) THEN p
                     ELSE IF ~IndexValid(p.index) THEN [p EXCEPT !.data = NoData]
                     ELSE Moved(Move(indexBlock, p.index), p.data, Position)
    IN  skip[Len(blocks) + 1]

SkipEmptyDataBlocksForward(s) == SkipEmpty(s, ParseNextKey, BlockSeekToFirst)
SkipEmptyDataBlocksBackward(s) == SkipEmpty(s, BlockPrev, BlockSeekToLast)

InternalGet(t) ==
    LET i == BlockSeek(indexBlock, Fresh(indexBlock), t)
        b == blocks[Handle(i)]
        it == BlockSeek(b, Fresh(b), t)
    IN  IF IndexValid(i) /\ BlockValid(b, it) THEN it.key ELSE <<>>

-----------------------------------------------------------------------------
TableInit ==
    /\ keys = <<>> /\ blocks = <<>>
    /\ dataBlock = EmptyBlock /\ indexBlock = EmptyBlock
    /\ pending = FALSE /\ closed = FALSE
    /\ index = Fresh(EmptyBlock) /\ data = NoData /\ expected = 0

Building == UNCHANGED <<index, data, expected>>

\* The block is written when it is full, its index entry with the next key.
AddKey(k, full) ==
    LET block == AddToBlock(dataBlock, k, Len(keys) + 1, RestartInterval)
    IN  /\ ~closed /\ Len(keys) < MaxKeys
        /\ keys # <<>> => KeyLess(Last(keys), k)
        /\ keys' = Append(keys, k)
        /\ indexBlock' = IF pending
                         THEN AddToBlock(indexBlock, FindShortestSeparator(Last(keys), k), Len(blocks), 1)
                         ELSE indexBlock
        /\ dataBlock' = IF full THEN EmptyBlock ELSE block
        /\ blocks' = IF full THEN Append(blocks, block) ELSE blocks
        /\ pending' = full
        /\ Building /\ UNCHANGED closed

FinishTable ==
    LET written == IF dataBlock = EmptyBlock THEN blocks ELSE Append(blocks, dataBlock)
        whole == AddToBlock(indexBlock, FindShortSuccessor(Last(keys)), Len(written), 1)
    IN  /\ ~closed /\ keys # <<>>
        /\ closed' = TRUE /\ pending' = FALSE
        /\ blocks' = written /\ dataBlock' = EmptyBlock /\ indexBlock' = whole
        /\ index' = Fresh(whole)
        /\ UNCHANGED <<keys, data, expected>>

\* An iterator's call ends where s is and should end at place p.
Goto(s, p) ==
    /\ index' = s.index /\ data' = s.data /\ expected' = p
    /\ UNCHANGED <<keys, dataBlock, indexBlock, blocks, pending, closed>>

Place(P) == IF P = {} THEN 0 ELSE Min(P)

TableSeek(t) ==
    /\ closed
    /\ Goto(SkipEmptyDataBlocksForward(
                Moved(BlockSeek(indexBlock, index, t), data, LAMBDA b, it : BlockSeek(b, it, t))),
            Place({p \in 1..Len(keys) : ~KeyLess(keys[p], t)}))

TableSeekToFirst ==
    /\ closed
    /\ Goto(SkipEmptyDataBlocksForward(
                Moved(BlockSeekToFirst(indexBlock, index), data, BlockSeekToFirst)), 1)

TableSeekToLast ==
    /\ closed
    /\ Goto(SkipEmptyDataBlocksBackward(
                Moved(BlockSeekToLast(indexBlock, index), data, BlockSeekToLast)), Len(keys))

Stepped(Position(_, _)) ==
    [index |-> index, data |-> [data EXCEPT !.it = Position(blocks[data.block], data.it)]]

TableNext ==
    /\ closed /\ DataValid(data)
    /\ Goto(SkipEmptyDataBlocksForward(Stepped(ParseNextKey)),
            IF expected = Len(keys) THEN 0 ELSE expected + 1)

TablePrev ==
    /\ closed /\ DataValid(data)
    /\ Goto(SkipEmptyDataBlocksBackward(Stepped(BlockPrev)), expected - 1)

TableNextState ==
    \/ \E k \in TableKeys, full \in BOOLEAN : AddKey(k, full)
    \/ FinishTable
    \/ \E t \in Targets : TableSeek(t)
    \/ TableSeekToFirst \/ TableSeekToLast \/ TableNext \/ TablePrev

TableSpec == TableInit /\ [][TableNextState]_tableVars

-----------------------------------------------------------------------------
\* However the keys fell into blocks and restart points and whatever calls
\* were made before, in either direction, an iterator of the table ends each
\* call at the entry the call asks for, with its key put together from the
\* shared prefixes and its value, and is invalid exactly when there is none.
IteratorShowsTheTable ==
    closed =>
        /\ DataValid(data) <=> expected # 0
        /\ DataValid(data) =>
               /\ data.it.key = keys[expected]
               /\ blocks[data.block].entries[data.it.at].value = expected

\* InternalGet looks into one block only, the one the index entry of which,
\* a shortened key between two blocks, is the first not before the key asked
\* for; the newest entry of that user key a reader may see is there if it is
\* in the table at all.
GetFindsTheNewest ==
    closed => \A t \in Targets :
        LET hits == {p \in 1..Len(keys) : User(keys[p]) = User(t) /\ ~KeyLess(keys[p], t)}
        IN  hits # {} => InternalGet(t) = keys[Min(hits)]
=============================================================================

----------------------------- MODULE RecordLog ------------------------------
(***************************************************************************)
(* The record format of LevelDB's logs and manifests (db/log_writer.cc,    *)
(* db/log_reader.cc).  A record is cut into physical records that do not   *)
(* cross a block; a file may end anywhere after a crash, and one append    *)
(* may fail half way, after which the writer and the file disagree about   *)
(* where blocks end.                                                       *)
(*                                                                         *)
(* A byte of the file is the number of the physical record it belongs to   *)
(* and its place there, so that a header read at the wrong place, or one   *)
(* whose payload is not whole, is one whose checksum does not match.       *)
(***************************************************************************)
EXTENDS Naturals, Sequences, SequencesExt

CONSTANTS
    BlockSize,      \* kBlockSize
    HeaderSize,     \* kHeaderSize
    Sizes,          \* sizes a record may have
    MaxRecords,
    MaxFailures     \* how many appends may fail

ASSUME RecordLogAssumption ==
    /\ HeaderSize \in Nat \ {0} /\ BlockSize \in Nat /\ BlockSize > HeaderSize
    /\ Sizes \subseteq Nat
    /\ MaxRecords \in Nat /\ MaxFailures \in Nat

VARIABLES
    bytes,          \* the file
    physical,       \* the physical records emitted so far
    blockOffset,    \* the writer's block_offset_
    adding, left,   \* AddRecord is under way, and what is left of its record
    added,          \* the sizes of the records AddRecord was called with
    failures,
    phase,          \* "writing", then "reading", then "read"
    position,       \* the reader's place in the file
    scratch,        \* physical records collected for the current record
    fragmented,     \* in_fragmented_record
    returned,       \* the records returned, each as its physical records
    reported        \* a corruption was reported

logVars == <<bytes, physical, blockOffset, adding, left, added, failures, phase,
             position, scratch, fragmented, returned, reported>>

Types == {"full", "first", "middle", "last"}
Physical == [type : Types, record : Nat, size : Nat]
Byte == [of : Nat, at : Nat]

RecordLogTypeOK ==
    /\ bytes \in Seq(Byte)
    /\ physical \in Seq(Physical)
    /\ blockOffset \in 0..BlockSize
    /\ adding \in BOOLEAN /\ left \in Nat
    /\ added \in Seq(Sizes)
    /\ failures \in 0..MaxFailures
    /\ phase \in {"writing", "reading", "read"}
    /\ position \in Nat
    /\ scratch \in Seq(Nat)
    /\ fragmented \in BOOLEAN
    /\ returned \in Seq(Seq(Nat))
    /\ reported \in BOOLEAN

RecordLogInit ==
    /\ bytes = <<>> /\ physical = <<>> /\ blockOffset = 0
    /\ adding = FALSE /\ left = 0 /\ added = <<>> /\ failures = 0
    /\ phase = "writing" /\ position = 0
    /\ scratch = <<>> /\ fragmented = FALSE
    /\ returned = <<>> /\ reported = FALSE

-----------------------------------------------------------------------------
(* The writer *)

Least(a, b) == IF a < b THEN a ELSE b

\* The rest of a block too short for a header is filled with zeros.
Trailer == [i \in 1..(BlockSize - blockOffset) |-> [of |-> 0, at |-> 0]]
Switch == BlockSize - blockOffset < HeaderSize
Offset == IF Switch THEN 0 ELSE blockOffset

\* The physical record the loop of AddRecord emits next.
Fragment ==
    LET size == Least(left, BlockSize - Offset - HeaderSize)
        begin == ~\E i \in DOMAIN physical : physical[i].record = Len(added)
        end == left = size
    IN  [record |-> Len(added), size |-> size,
         type |-> IF begin THEN IF end THEN "full" ELSE "first"
                  ELSE IF end THEN "last" ELSE "middle"]

BytesOf(i, size) == [k \in 1..(HeaderSize + size) |-> [of |-> i, at |-> k]]
Padding == IF Switch THEN Trailer ELSE <<>>

AddRecord(size) ==
    /\ phase = "writing" /\ ~adding /\ Len(added) < MaxRecords
    /\ adding' = TRUE /\ left' = size
    /\ added' = Append(added, size)
    /\ UNCHANGED <<bytes, physical, blockOffset, failures, phase, position, scratch,
                   fragmented, returned, reported>>

\* EmitPhysicalRecord, and the padding before it: the writer takes its offset to
\* have moved whether the appends succeed or not.  After a failure AddRecord
\* returns, but the status of the padding is ignored.
Emit(padded, done) ==
    LET new == BytesOf(Len(physical) + 1, Fragment.size) IN
    /\ phase = "writing" /\ adding
    /\ physical' = Append(physical, Fragment)
    /\ bytes' = bytes \o SubSeq(Padding, 1, padded) \o SubSeq(new, 1, done)
    /\ blockOffset' = Offset + HeaderSize + Fragment.size
    /\ failures' = failures + Cardinality({padded} \ {Len(Padding)})
                            + Cardinality({done} \ {Len(new)})
    /\ failures' <= MaxFailures
    /\ IF done = Len(new)
       THEN /\ left' = left - Fragment.size
            /\ adding' = (left' > 0)
       ELSE /\ adding' = FALSE
            /\ UNCHANGED left
    /\ UNCHANGED <<added, phase, position, scratch, fragmented, returned, reported>>

EmitPhysicalRecord ==
    /\ adding
    /\ \E padded \in 0..Len(Padding), done \in 0..(HeaderSize + Fragment.size) :
           Emit(padded, done)

\* The power fails: any end of the file may be missing.  What is left is read.
Reopen(size) ==
    /\ phase = "writing"
    /\ phase' = "reading"
    /\ bytes' = SubSeq(bytes, 1, size)
    /\ UNCHANGED <<physical, blockOffset, adding, left, added, failures, position, scratch,
                   fragmented, returned, reported>>

-----------------------------------------------------------------------------
(* The reader *)

\* The end of what was read from the block the reader is in, and whether that
\* read was short.
BlockEnd == Least(Len(bytes), (position \div BlockSize + 1) * BlockSize)
Eof == BlockEnd < (position \div BlockSize + 1) * BlockSize

\* A header starts here, and its payload is whole.
At(pos) == bytes[pos + 1]
StartsAt(pos) == At(pos).of # 0 /\ At(pos).at = 1
HeaderIsWhole(pos) ==
    /\ StartsAt(pos)
    /\ \A k \in 2..HeaderSize : bytes[pos + k] = [of |-> At(pos).of, at |-> k]
Here == physical[At(position).of]
EndsAt == position + HeaderSize + Here.size
ChecksumMatches ==
    \A k \in 1..(HeaderSize + Here.size) : bytes[position + k] = [of |-> At(position).of, at |-> k]

\* Faulty Outcome: the checksum is not verified.
OutcomeUnverified ==
    IF BlockEnd - position < HeaderSize THEN IF Eof THEN "eof" ELSE "trailer"
    ELSE IF ~HeaderIsWhole(position) THEN "bad"
    ELSE IF EndsAt > BlockEnd THEN IF Eof THEN "eof" ELSE "bad"
    ELSE Here.type

\* ReadPhysicalRecord
Outcome ==
    IF BlockEnd - position < HeaderSize THEN IF Eof THEN "eof" ELSE "trailer"
    ELSE IF ~HeaderIsWhole(position) THEN "bad"
    ELSE IF EndsAt > BlockEnd THEN IF Eof THEN "eof" ELSE "bad"
    ELSE IF ChecksumMatches THEN Here.type ELSE "bad"

Collected == FoldLeft(LAMBDA sum, i : sum + physical[i].size, 0, scratch)

Return(s) ==
    /\ returned' = Append(returned, s)
    /\ scratch' = <<>> /\ fragmented' = FALSE

Step(to) ==
    /\ position' = to
    /\ UNCHANGED <<bytes, physical, blockOffset, adding, left, added, failures>>

\* A short rest of a block: the next block is read.
SkipTrailer ==
    /\ phase = "reading" /\ Outcome = "trailer"
    /\ Step(BlockEnd)
    /\ UNCHANGED <<phase, scratch, fragmented, returned, reported>>

\* The end of the file: a record that was begun is dropped without a report.
ReadEof ==
    /\ phase = "reading" /\ Outcome = "eof"
    /\ phase' = "read"
    /\ scratch' = <<>> /\ fragmented' = FALSE
    /\ Step(position)
    /\ UNCHANGED <<returned, reported>>

\* kBadRecord: the rest of the block is dropped, and a record that was begun.
ReadBad ==
    /\ phase = "reading" /\ Outcome = "bad"
    /\ scratch' = <<>> /\ fragmented' = FALSE
    /\ reported' = TRUE
    /\ Step(BlockEnd)
    /\ UNCHANGED <<phase, returned>>

\* kFullType and kFirstType; a record that was begun before is reported.
ReadFull ==
    /\ phase = "reading" /\ Outcome = "full"
    /\ Return(<<At(position).of>>)
    /\ reported' = (reported \/ (fragmented /\ Collected > 0))
    /\ Step(EndsAt)
    /\ UNCHANGED phase

ReadFirst ==
    /\ phase = "reading" /\ Outcome = "first"
    /\ scratch' = <<At(position).of>> /\ fragmented' = TRUE
    /\ reported' = (reported \/ (fragmented /\ Collected > 0))
    /\ Step(EndsAt)
    /\ UNCHANGED <<phase, returned>>

\* kMiddleType and kLastType, which need one that was begun.
ReadMore ==
    /\ phase = "reading" /\ Outcome \in {"middle", "last"}
    /\ IF ~fragmented
       THEN reported' = TRUE /\ UNCHANGED <<scratch, fragmented, returned>>
       ELSE IF Outcome = "middle"
       THEN scratch' = Append(scratch, At(position).of) /\ UNCHANGED <<fragmented, returned, reported>>
       ELSE Return(Append(scratch, At(position).of)) /\ UNCHANGED reported
    /\ Step(EndsAt)
    /\ UNCHANGED phase

RecordLogNext ==
    \/ \E size \in Sizes : AddRecord(size)
    \/ EmitPhysicalRecord
    \/ \E size \in 0..Len(bytes) : Reopen(size)
    \/ SkipTrailer \/ ReadEof \/ ReadBad \/ ReadFull \/ ReadFirst \/ ReadMore

RecordLogSpec == RecordLogInit /\ [][RecordLogNext]_logVars

-----------------------------------------------------------------------------
\* The physical records of the r-th record, in order.
PartsOf(r) ==
    SelectSeq([i \in DOMAIN physical |-> i], LAMBDA i : physical[i].record = r)

\* A physical record is in the file to its end.
InFile(i) == [of |-> i, at |-> HeaderSize + physical[i].size] \in ToSet(bytes)

\* The r-th record was written to its end, and the file still holds it.
Whole(r) ==
    \E i \in DOMAIN physical :
        physical[i].record = r /\ physical[i].type \in {"full", "last"} /\ InFile(i)

\* What is read back are records that were added, each whole and in order,
\* also after an append that failed; and unless one did, they are all that
\* the file still holds and nothing is reported (the comments on kEof and on
\* a truncated header in log_reader.cc).
ReadsWhatWasWritten ==
    phase = "read" =>
        /\ \A i \in DOMAIN returned :
               /\ returned[i] = PartsOf(physical[returned[i][1]].record)
               /\ \A k \in DOMAIN returned[i] : InFile(returned[i][k])
        /\ \A i, j \in DOMAIN returned : i < j => returned[i][1] < returned[j][1]
        /\ failures = 0 =>
               /\ returned = [r \in 1..Len(returned) |-> PartsOf(r)]
               /\ \A r \in DOMAIN added : Whole(r) <=> r <= Len(returned)
               /\ ~reported

=============================================================================

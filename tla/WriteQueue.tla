----------------------------- MODULE WriteQueue -----------------------------
(***************************************************************************)
(* How LevelDB's threads wait for each other (db/db_impl.cc).  A thread    *)
(* that writes joins the queue writers_; the one at its head makes room in *)
(* the memtable, waiting for the background thread where it must, writes a *)
(* group of batches for those behind it and tells them.  LevelDB.tla takes *)
(* this for one writer at a time.                                          *)
(*                                                                         *)
(* A step is what a thread does between taking the mutex, or waking with   *)
(* it, and giving it up, or less: then holder says who keeps it.  A        *)
(* condition variable that is signalled while nobody waits for it forgets  *)
(* it, and one may wake a thread for no reason.                            *)
(***************************************************************************)
EXTENDS Naturals, Sequences, FiniteSets, SequencesExt

CONSTANTS
    Threads,
    NoThread,
    Trigger,        \* kL0_CompactionTrigger, kL0_SlowdownWritesTrigger and
    Slowdown,       \* kL0_StopWritesTrigger: numbers of tables at level 0
    Stop,
    Requests,       \* Requests[t]: the writes t makes, each with its options
    MaxFaults,      \* bound: failures of the file system
    MaxSpurious     \* bound: wake-ups for no reason

ASSUME WriteQueueAssumption ==
    /\ NoThread \notin Threads
    /\ Trigger \in Nat /\ Slowdown \in Nat /\ Stop \in Nat
    /\ 0 < Trigger /\ Trigger <= Slowdown /\ Slowdown <= Stop
    /\ Requests \in [Threads -> Seq([sync : BOOLEAN, empty : BOOLEAN])]
    /\ MaxFaults \in Nat /\ MaxSpurious \in Nat

VARIABLES
    holder,         \* who has the mutex between two steps
    stage,          \* stage[t]: where thread t is in Write
    answer,         \* answer[t]: w.done and w.status, set by another thread
    queue,          \* writers_
    force,          \* MakeRoomForWrite of the head: force and allow_delay
    allowDelay,
    group,          \* how many writers the head writes for
    outcome,        \* how its append and its sync went
    log,            \* the records added, each the calls it was written for
    synced,         \* how many of them a successful sync covers
    memFull,        \* mem_ has grown over write_buffer_size
    imm,            \* imm_ # NULL
    level0,         \* how many tables level 0 has
    bg,             \* the background call: "none" when none is scheduled
    bgError,        \* ~bg_error_.ok()
    joined,         \* ghost: the calls in the order they joined the queue
    succeeded,      \* ghost: the calls answered with ok
    faults, spurious

queueVars == <<holder, stage, answer, queue, force, allowDelay, group, outcome>>
fileVars == <<log, synced>>
roomVars == <<memFull, imm, level0>>
bgVars == <<bg, bgError>>
boundVars == <<faults, spurious>>
writeQueueVars == <<queueVars, fileVars, roomVars, bgVars, joined, succeeded, boundVars>>

Leading == {"room", "delayed", "stalled", "woken", "logging", "logged"}
Calls == [thread : Threads, number : Nat, sync : BOOLEAN, empty : BOOLEAN]

WriteQueueTypeOK ==
    /\ holder \in Threads \union {NoThread}
    /\ stage \in [Threads -> {"idle", "asleep", "signalled"} \union Leading]
    /\ answer \in [Threads -> {"none", "ok", "failed"}]
    /\ queue \in Seq(Calls) /\ joined \in Seq(Calls)
    /\ force \in BOOLEAN /\ allowDelay \in BOOLEAN
    /\ group \in 0..Len(queue)
    /\ outcome \in {"none", "ok", "failed", "unsynced"}
    /\ log \in Seq(Seq(Calls)) /\ synced \in 0..Len(log)
    /\ memFull \in BOOLEAN /\ imm \in BOOLEAN /\ level0 \in 0..Stop
    /\ bg \in {"none", "queued", "flushing", "compacting", "nested"}
    /\ bgError \in BOOLEAN
    /\ succeeded \subseteq ToSet(joined)

-----------------------------------------------------------------------------
\* MaybeScheduleCompaction, by the one call that schedules nothing twice; what
\* deeper levels need does not hold up a writer and is left out.
Scheduled(isImm, files, error) ==
    IF ~error /\ (isImm \/ files >= Trigger) THEN "queued" ELSE "none"

\* DB::Open ends with it.
WriteQueueInit ==
    /\ holder = NoThread
    /\ stage = [t \in Threads |-> "idle"]
    /\ answer = [t \in Threads |-> "none"]
    /\ queue = <<>> /\ joined = <<>>
    /\ force = FALSE /\ allowDelay = FALSE /\ group = 0 /\ outcome = "none"
    /\ log = <<>> /\ synced = 0
    /\ memFull = FALSE /\ imm = FALSE
    /\ level0 \in 0..Stop
    /\ bg = Scheduled(imm, level0, FALSE) /\ bgError = FALSE
    /\ succeeded = {} /\ faults = 0 /\ spurious = 0

MutexIsFree == holder = NoThread
MayFail == faults < MaxFaults /\ faults' = faults + 1 /\ UNCHANGED spurious

\* Signal and SignalAll: who does not wait does not notice.
Woken(s) == IF s = "asleep" THEN "signalled" ELSE IF s = "stalled" THEN "woken" ELSE s
SignalBackground == stage' = [t \in Threads |-> IF stage[t] = "stalled" THEN "woken" ELSE stage[t]]

-----------------------------------------------------------------------------
(* Write: the queue *)

\* The thread of c is at the head and goes on with the mutex.
Lead(c) ==
    /\ holder' = c.thread
    /\ stage' = [stage EXCEPT ![c.thread] = "room"]
    /\ force' = c.empty /\ allowDelay' = ~c.empty

Call(t, n) == [thread |-> t, number |-> n,
               sync |-> Requests[t][n].sync, empty |-> Requests[t][n].empty]

\* Write is called; an empty batch only asks for a new memtable.
Join(t) ==
    LET number == Cardinality({i \in DOMAIN joined : joined[i].thread = t}) + 1
        c == Call(t, number)
    IN  /\ MutexIsFree /\ stage[t] = "idle" /\ number \in DOMAIN Requests[t]
        /\ queue' = Append(queue, c) /\ joined' = Append(joined, c)
        /\ IF queue = <<>> THEN Lead(c)
           ELSE stage' = [stage EXCEPT ![t] = "asleep"] /\ UNCHANGED <<holder, force, allowDelay>>
        /\ UNCHANGED <<answer, group, outcome, fileVars, roomVars, bgVars, succeeded, boundVars>>

\* w.cv.Wait returns, and its condition is looked at again.
Awake(t) ==
    /\ MutexIsFree /\ stage[t] = "signalled"
    /\ IF answer[t] # "none"
       THEN /\ stage' = [stage EXCEPT ![t] = "idle"]
            /\ answer' = [answer EXCEPT ![t] = "none"]
            /\ UNCHANGED <<holder, force, allowDelay>>
       ELSE /\ IF Head(queue).thread = t THEN Lead(Head(queue))
               ELSE stage' = [stage EXCEPT ![t] = "asleep"] /\ UNCHANGED <<holder, force, allowDelay>>
            /\ UNCHANGED answer
    /\ UNCHANGED <<queue, group, outcome, fileVars, roomVars, bgVars, joined, succeeded, boundVars>>

\* Faulty Answer: the next head is not told.
AnswerGroupOnly(t, n, ok) ==
    LET told == {queue[i].thread : i \in 2..n}
    IN  /\ queue' = SubSeq(queue, n + 1, Len(queue))
        /\ stage' = [u \in Threads |-> IF u = t THEN "idle"
                                       ELSE IF u \in told THEN Woken(stage[u]) ELSE stage[u]]
        /\ answer' = [u \in Threads |-> IF u \in told THEN IF ok THEN "ok" ELSE "failed"
                                        ELSE answer[u]]
        /\ succeeded' = IF ok THEN succeeded \union {queue[i] : i \in 1..n} ELSE succeeded
        /\ holder' = NoThread /\ group' = 0 /\ outcome' = "none"
        /\ UNCHANGED <<force, allowDelay, joined>>

\* The end of Write: the first n writers leave the queue, the others of them
\* and the next head are told.
Answer(t, n, ok) ==
    LET served == {queue[i].thread : i \in 2..n}
        told == served \union {queue[i].thread : i \in DOMAIN queue \cap {n + 1}}
    IN  /\ queue' = SubSeq(queue, n + 1, Len(queue))
        /\ stage' = [u \in Threads |-> IF u = t THEN "idle"
                                       ELSE IF u \in told THEN Woken(stage[u]) ELSE stage[u]]
        /\ answer' = [u \in Threads |-> IF u \in served THEN IF ok THEN "ok" ELSE "failed"
                                        ELSE answer[u]]
        /\ succeeded' = IF ok THEN succeeded \union {queue[i] : i \in 1..n} ELSE succeeded
        /\ holder' = NoThread /\ group' = 0 /\ outcome' = "none"
        /\ UNCHANGED <<force, allowDelay, joined>>

-----------------------------------------------------------------------------
(* MakeRoomForWrite and BuildBatchGroup *)

MakesRoom(t) == holder = t /\ stage[t] = "room"
MayGoOn(t) == MakesRoom(t) /\ ~bgError
Slowed == allowDelay /\ level0 >= Slowdown
HasRoom == ~force /\ ~memFull

Refused(t) ==
    /\ MakesRoom(t) /\ bgError
    /\ Answer(t, 1, FALSE)
    /\ UNCHANGED <<fileVars, roomVars, bgVars, boundVars>>

\* The head gives up the mutex: for a millisecond, or until bg_cv_ is signalled.
Pause(t, s) ==
    /\ stage' = [stage EXCEPT ![t] = s]
    /\ holder' = NoThread
    /\ UNCHANGED <<answer, queue, force, group, outcome, fileVars, roomVars, bgVars,
                   joined, succeeded, boundVars>>

Delay(t) == MayGoOn(t) /\ Slowed /\ Pause(t, "delayed") /\ allowDelay' = FALSE

Stall(t) ==
    /\ MayGoOn(t) /\ ~Slowed /\ ~HasRoom /\ (imm \/ level0 >= Stop)
    /\ Pause(t, "stalled") /\ UNCHANGED allowDelay

Resume(t) ==
    /\ MutexIsFree /\ stage[t] \in {"delayed", "woken"}
    /\ holder' = t
    /\ stage' = [stage EXCEPT ![t] = "room"]
    /\ UNCHANGED <<answer, queue, force, allowDelay, group, outcome, fileVars, roomVars,
                   bgVars, joined, succeeded, boundVars>>

MustSwitch(t) == MayGoOn(t) /\ ~Slowed /\ ~HasRoom /\ ~imm /\ level0 < Stop

Switch(t) ==
    /\ MustSwitch(t)
    /\ imm' = TRUE /\ memFull' = FALSE /\ force' = FALSE
    /\ bg' = IF bg = "none" THEN Scheduled(TRUE, level0, bgError) ELSE bg
    /\ UNCHANGED <<holder, stage, answer, queue, allowDelay, group, outcome, fileVars,
                   level0, bgError, joined, succeeded, boundVars>>

\* The new log cannot be created.
SwitchFails(t) ==
    /\ MustSwitch(t) /\ MayFail
    /\ Answer(t, 1, FALSE)
    /\ UNCHANGED <<fileVars, roomVars, bgVars>>

\* Faulty GroupSizes: a sync write may join any group.
GroupSizesOfAll == {n \in 1..Len(queue) : n < Len(queue) => ~queue[n + 1].empty}

\* The group may end before a batch that would make it too large and ends
\* before one that is to be synced, when the first is not.
GroupSizes ==
    {n \in 1..Len(queue) : /\ \A i \in 2..n : queue[i].sync => queue[1].sync
                           /\ n < Len(queue) => ~queue[n + 1].empty}

\* There is room: a batch is logged without the mutex, an empty one is done.
FindRoom(t) ==
    /\ MayGoOn(t) /\ ~Slowed /\ HasRoom
    /\ IF queue[1].empty
       THEN Answer(t, 1, TRUE)
       ELSE /\ group' \in GroupSizes
            /\ stage' = [stage EXCEPT ![t] = "logging"]
            /\ holder' = NoThread
            /\ UNCHANGED <<answer, queue, force, allowDelay, outcome, joined, succeeded>>
    /\ UNCHANGED <<fileVars, roomVars, bgVars, boundVars>>

\* AddRecord, Sync when the first asks for it, and InsertInto, which may fill
\* the memtable.
Logging(t, result) ==
    /\ stage[t] = "logging"
    /\ stage' = [stage EXCEPT ![t] = "logged"]
    /\ outcome' = result
    /\ UNCHANGED <<holder, answer, queue, force, allowDelay, group, imm, level0, bgVars,
                   joined, succeeded>>

\* BuildBatchGroup: the batches of the group, to which an empty one adds nothing.
Record == SubSeq(queue, 1, group)

AddToLog(t) ==
    /\ Logging(t, "ok")
    /\ log' = Append(log, Record)
    /\ synced' = IF queue[1].sync THEN Len(log') ELSE synced
    /\ memFull' \in BOOLEAN
    /\ UNCHANGED boundVars

AddFails(t) ==
    /\ Logging(t, "failed") /\ MayFail
    /\ UNCHANGED <<fileVars, memFull>>

SyncFails(t) ==
    /\ Logging(t, "unsynced") /\ MayFail
    /\ queue[1].sync
    /\ log' = Append(log, Record)
    /\ UNCHANGED <<synced, memFull>>

\* With the mutex again: a sync that failed stops all later writes.
Finish(t) ==
    /\ MutexIsFree /\ stage[t] = "logged"
    /\ bgError' = (bgError \/ outcome = "unsynced")
    /\ Answer(t, group, outcome = "ok")
    /\ UNCHANGED <<fileVars, roomVars, bg, boundVars>>

-----------------------------------------------------------------------------
(* BackgroundCall *)

BackgroundOnly ==
    UNCHANGED <<holder, answer, queue, force, allowDelay, group, outcome, fileVars, memFull,
                joined, succeeded, spurious>>

\* Another call is scheduled when there is more to do, and all are told.
BackgroundEnds ==
    /\ bg' = Scheduled(imm', level0', bgError')
    /\ SignalBackground

\* BackgroundCompaction: the memtable comes first.
BackgroundBegins ==
    /\ MutexIsFree /\ bg = "queued"
    /\ UNCHANGED <<imm, level0, bgError, faults>> /\ BackgroundOnly
    /\ IF bgError \/ (~imm /\ level0 < Trigger)
       THEN BackgroundEnds
       ELSE bg' = (IF imm THEN "flushing" ELSE "compacting") /\ UNCHANGED stage

\* CompactMemTable: the table is put at level 0 or below it, or the write of
\* the table or of the manifest fails.
Flushed ==
    \/ imm' = FALSE /\ level0' \in {level0, level0 + 1} /\ UNCHANGED <<bgError, faults>>
    \/ MayFail /\ bgError' = TRUE /\ UNCHANGED <<imm, level0>>

FlushEnds ==
    /\ MutexIsFree /\ bg = "flushing"
    /\ Flushed /\ BackgroundEnds /\ BackgroundOnly

\* DoCompactionWork looks for a new imm_ as long as it has entries to read.
NestedFlushBegins ==
    /\ MutexIsFree /\ bg = "compacting" /\ imm
    /\ bg' = "nested"
    /\ UNCHANGED <<stage, imm, level0, bgError, faults>> /\ BackgroundOnly

NestedFlushEnds ==
    /\ MutexIsFree /\ bg = "nested"
    /\ Flushed /\ SignalBackground
    /\ bg' = "compacting" /\ BackgroundOnly

\* A compaction of level 0 takes at least one table from it.
CompactionEnds ==
    /\ MutexIsFree /\ bg = "compacting"
    /\ \/ level0' \in 0..level0 - 1 /\ UNCHANGED <<imm, bgError, faults>>
       \/ MayFail /\ bgError' = TRUE /\ UNCHANGED <<imm, level0>>
    /\ BackgroundEnds /\ BackgroundOnly

-----------------------------------------------------------------------------
\* A wait on a condition variable may end by itself.
Spurious(t) ==
    /\ stage[t] \in {"asleep", "stalled"} /\ spurious < MaxSpurious
    /\ stage' = [stage EXCEPT ![t] = Woken(@)]
    /\ spurious' = spurious + 1
    /\ UNCHANGED <<holder, answer, queue, force, allowDelay, group, outcome, fileVars,
                   roomVars, bgVars, joined, succeeded, faults>>

MakeRoom(t) == Refused(t) \/ Delay(t) \/ Stall(t) \/ Switch(t) \/ SwitchFails(t) \/ FindRoom(t)
WriteGroup(t) == AddToLog(t) \/ AddFails(t) \/ SyncFails(t) \/ Finish(t)
Goes(t) == Awake(t) \/ Resume(t) \/ MakeRoom(t) \/ WriteGroup(t)
Background ==
    BackgroundBegins \/ FlushEnds \/ NestedFlushBegins \/ NestedFlushEnds \/ CompactionEnds

WriteQueueNext ==
    \/ \E t \in Threads : Join(t) \/ Goes(t) \/ Spurious(t)
    \/ Background

\* A thread that can run does, and gets the mutex when nobody keeps it.
WriteQueueFairness == WF_writeQueueVars(Background) /\ \A t \in Threads : WF_writeQueueVars(Goes(t))

WriteQueueSpec == WriteQueueInit /\ [][WriteQueueNext]_writeQueueVars /\ WriteQueueFairness

-----------------------------------------------------------------------------
Place(c) == CHOOSE p \in DOMAIN joined : joined[p] = c

\* One thread writes at a time, the head of the queue; the log has the batches
\* once, in the order in which the calls were made; and a call that was answered
\* with ok is in it, in a record that was synced if it asked for that, whoever
\* wrote it (Write, BuildBatchGroup).
LogIsTheQueue ==
    /\ \A t \in Threads : stage[t] \in Leading => queue # <<>> /\ Head(queue).thread = t
    /\ \A i, j \in DOMAIN log : \A a \in DOMAIN log[i], b \in DOMAIN log[j] :
           i < j \/ (i = j /\ a < b) => Place(log[i][a]) < Place(log[j][b])
    /\ \A c \in succeeded : ~c.empty =>
           \E i \in DOMAIN log : c \in ToSet(log[i]) /\ (c.sync => i <= synced)

\* Every call of Write returns, whatever fails: no thread is left waiting for a
\* signal that was given before it slept, or that nobody gives.
WritesAreAnswered == \A t \in Threads : stage[t] # "idle" ~> stage[t] = "idle"
=============================================================================

------------------------------ MODULE LevelDB ------------------------------
(***************************************************************************)
(* The database under Firebase's persistence cache: one process, several   *)
(* client threads that write and read, and one background thread that      *)
(* flushes memtables and compacts tables (db_impl.cc, version_set.cc).     *)
(* Everything the process keeps in memory may vanish at any step, and the  *)
(* next Open rebuilds it from the files.                                   *)
(*                                                                         *)
(* An entry is [key, seq, del]; the value a put stores is named by the     *)
(* put's sequence number.  A table, a memtable and a log record are sets   *)
(* of entries; file sizes, blocks and checksums are abstracted, so what    *)
(* depends on a size (a full memtable, where an output ends, how much      *)
(* grandparent data overlaps) is a nondeterministic choice.                *)
(***************************************************************************)
EXTENDS InternalKey, FiniteSets, Sequences, FiniteSetsExt, Functions

CONSTANTS Batches,            \* what a client may write: sequences of [key, del]
          NumLevels,          \* config::kNumLevels
          MaxMemCompactLevel, \* config::kMaxMemCompactLevel
          L0Stop,             \* config::kL0_StopWritesTrigger
          MaxSeq,             \* bound: sequence numbers used
          MaxViews,           \* bound: readers at once, one fewer after each restart
          MaxCrashes,         \* bound: restarts of the process
          MaxFaults,          \* bound: failed writes of tables and manifests
          PowerLoss,          \* whether a crash may take the machine with it
          TornLogs            \* whether it may then cut a log that tables hold entries of

ASSUME LevelsAssumption ==
  /\ NumLevels \in Nat /\ MaxMemCompactLevel \in Nat /\ MaxMemCompactLevel < NumLevels
  /\ Batches \subseteq Seq([key : Int, del : BOOLEAN])
  /\ MaxSeq \in Nat /\ MaxFaults \in Nat /\ TornLogs \in BOOLEAN

VARIABLES
  logs,         \* disk: log number -> the records of the log, each a set of entries
  tables,       \* disk: table number -> its entries
  manifests,    \* disk: manifest number -> what replaying its edits gives
  current,      \* disk: the manifest CURRENT names
  up,           \* "down", the steps of Open, "open"
  mems,         \* log number -> the memtable that log backs (mem_, imm_ and pinned ones)
  mem,          \* logfile_number_: names mem_
  imm,          \* names imm_, 0 when NULL
  logNumber,    \* versions_->log_number_
  version,      \* versions_->current(): level -> table numbers
  nextFile,     \* versions_->next_file_number_
  lastSeq,      \* versions_->last_sequence_
  manifestFile, \* versions_->manifest_file_number_
  recovered,    \* the level-0 tables Recover built from logs, not yet in the version
  writing,      \* the entries the leading writer has logged and not yet published
  flush,        \* CompactMemTable in progress: {} or {[file, level, logged]}
  comp,         \* BackgroundCompaction in progress: {} or {its state}
  views,        \* readers that hold a version and its memtables
  bgError,      \* ~bg_error_.ok()
  history,      \* ghost: every entry logged and not lost with the machine
  crashes, faults

disk == <<logs, tables, manifests, current>>
books == <<logNumber, version, manifestFile>>
levelDBVars == <<disk, up, mems, mem, imm, books, nextFile, lastSeq, recovered, writing, flush, comp,
          views, bgError, history, crashes, faults>>

-----------------------------------------------------------------------------
\* Tables, levels and ranges

Levels == 0..NumLevels - 1
NoFiles == [l \in Levels |-> {}]
Nothing == [n \in {} |-> {}]
Files(v) == UNION Range(v)

\* The files (or memtables) f once number n is created, or overwritten, with x.
Created(f, n, x) == [m \in DOMAIN f \cup {n} |-> IF m = n THEN x ELSE f[m]]

\* A table that is gone holds nothing: whoever needs it misses its entries.
File(n) == IF n \in DOMAIN tables THEN tables[n] ELSE {}
Content(ns) == UNION {File(n) : n \in ns}

\* The user keys of table n and those of the entries R span ranges that meet.
Overlaps(n, R) == /\ \E e \in File(n), r \in R : e.key <= r.key
                  /\ \E e \in File(n), r \in R : e.key >= r.key
Spans(n, k) == Overlaps(n, {[key |-> k]})

\* Version::GetOverlappingInputs: at level 0 the range grows with each table
\* found, until no further table meets it.
Overlapping(v, l, R) ==
  LET Closed(S) == S = {n \in v[l] : Overlaps(n, R \cup Content(S))}
  IN  IF l > 0 THEN {n \in v[l] : Overlaps(n, R)}
      ELSE CHOOSE S \in SUBSET v[0] : Closed(S) /\ \A T \in SUBSET v[0] : Closed(T) => S \subseteq T

\* Faulty: the level it lands on is not looked at.
PickLevelsBlindly(v, R) == {l \in 0..MaxMemCompactLevel : Overlapping(v, 0, R) = {} \/ l = 0}

\* Version::PickLevelForMemTableOutput.  Too much data two levels down may
\* stop the descent early.
PickLevels(v, R) ==
  LET Clear(l) == \A i \in 0..l : Overlapping(v, i, R) = {}
      Stops(l) == \/ l = MaxMemCompactLevel
                  \/ ~Clear(l + 1)
                  \/ l + 2 \in Levels /\ Overlapping(v, l + 2, R) # {}
  IN  IF ~Clear(0) THEN {0} ELSE {l \in 0..MaxMemCompactLevel : Clear(l) /\ Stops(l)}

-----------------------------------------------------------------------------
\* Reading

\* FindFile: of a level's tables the first whose largest key is at or after
\* (k, s); no other table of the level is looked at.
LevelTable(v, l, k, s) ==
  LET AtOrAfter(n) == \E e \in File(n) : ~Before(e, [key |-> k, seq |-> s])
      First(n) == \A m \in v[l] \ {n} : AtOrAfter(m) =>
                    \A f \in File(n) : \E e \in File(m) : Before(f, e) \/ (f = e /\ n < m)
  IN  Content({n \in v[l] : AtOrAfter(n) /\ First(n)})

\* Of the places f, looked at in the order of their numbers, the first that has
\* the key decides.
FirstHits(f, k, s) ==
  LET has == {i \in DOMAIN f : Hits(f[i], k, s) # {}}
  IN  UNION {Hits(f[i], k, s) : i \in {i \in has : \A j \in has : i <= j}}

\* Version::Get: level 0 from its newest table on, then one table of each level.
TableHits(v, k, s) ==
  FirstHits([i \in {-n : n \in v[0]} \cup 1..NumLevels - 1 |->
               IF i <= 0 THEN File(-i) ELSE LevelTable(v, i, k, s)], k, s)

\* DBImpl::Get: mem_, imm_ and then the tables.
MemHits(m, i, k, s) ==
  IF i = 0 \/ Hits(mems[m], k, s) # {} THEN Hits(mems[m], k, s) ELSE Hits(mems[i], k, s)
Get(memHits, v, k, s) == Answer(IF memHits # {} THEN memHits ELSE TableHits(v, k, s))

-----------------------------------------------------------------------------
\* Manifests and garbage

\* An edit removes and adds tables and moves the log number.
Edited(v, e) == [l \in Levels |-> (v[l] \ {d[2] : d \in {d \in e.del : d[1] = l}})
                                     \cup {a[2] : a \in {a \in e.add : a[1] = l}}]

\* LogAndApply appends the edit, with the counters as they stand, and syncs.
Record(e) ==
  manifests' = [manifests EXCEPT ![manifestFile] =
                  [log |-> e.log, next |-> nextFile, last |-> lastSeq, version |-> Edited(@.version, e)]]

\* Faulty: the versions readers hold are forgotten.
LiveForNobody(v, c) == Files(v) \cup UNION {Files(d.version) \cup d.outs : d \in c}

Live(v, c) == Files(v) \cup (UNION {Files(w.version) : w \in views})
                \cup (UNION {Files(d.version) \cup d.outs : d \in c})

\* DeleteObsoleteFiles, after version v and log number ln are installed and
\* with the compactions c still running.  After a background error nobody
\* knows which version was committed, and nothing is deleted.
Collect(v, ln, c) ==
  IF bgError THEN UNCHANGED <<logs, tables, manifests>>
  ELSE /\ logs' = Restrict(logs, {n \in DOMAIN logs : n >= ln})
       /\ tables' = Restrict(tables, DOMAIN tables \cap Live(v, c))
       /\ manifests' = Restrict(manifests, {n \in DOMAIN manifests : n >= manifestFile})

\* The memtables somebody refers to, of those in use and those readers pin.
Pinned(inUse, readersLeft) ==
  Restrict(mems, DOMAIN mems \cap (inUse \cup UNION {{w.mem, w.imm} : w \in readersLeft}))

-----------------------------------------------------------------------------
\* Init: the files NewDB leaves, the process not yet started.

VolatileInit ==
  /\ up = "down" /\ mems = Nothing /\ mem = 0 /\ imm = 0
  /\ logNumber = 0 /\ version = NoFiles /\ nextFile = 0 /\ lastSeq = 0 /\ manifestFile = 0
  /\ recovered = {} /\ writing = {} /\ flush = {} /\ comp = {} /\ views = {}
  /\ bgError = FALSE

LevelDBInit ==
  /\ logs = Nothing /\ tables = Nothing /\ current = 1
  /\ manifests = [n \in {1} |-> [log |-> 0, next |-> 2, last |-> 0, version |-> NoFiles]]
  /\ VolatileInit
  /\ history = {} /\ crashes = 0 /\ faults = 0

-----------------------------------------------------------------------------
\* Writing: the writer at the head of the queue, which alone may write.

\* MakeRoomForWrite finds mem_ full, imm_ flushed and level 0 not crowded.
SwitchMem ==
  /\ up = "open" /\ writing = {} /\ ~bgError
  /\ mems[mem] # {} /\ imm = 0 /\ Cardinality(version[0]) < L0Stop
  /\ mem' = nextFile /\ imm' = mem /\ nextFile' = nextFile + 1
  /\ logs' = Created(logs, nextFile, <<>>)
  /\ mems' = Created(mems, nextFile, {})
  /\ UNCHANGED <<tables, manifests, current, up, books, lastSeq, recovered, writing, flush, comp,
                 views, bgError, history, crashes, faults>>

Entries(b) == {[key |-> b[i].key, seq |-> lastSeq + i, del |-> b[i].del] : i \in DOMAIN b}

\* log_->AddRecord, without the mutex.
WriteLog(b) ==
  /\ up = "open" /\ writing = {} /\ ~bgError
  /\ lastSeq + Len(b) <= MaxSeq
  /\ writing' = Entries(b)
  /\ logs' = [logs EXCEPT ![mem] = Append(@, Entries(b))]
  /\ history' = history \cup Entries(b)
  /\ UNCHANGED <<tables, manifests, current, up, mems, mem, imm, books, nextFile, lastSeq, recovered,
                 flush, comp, views, bgError, crashes, faults>>

\* WriteBatchInternal::InsertInto adds the entries one by one, without the mutex.
WriteInsert ==
  /\ writing # {}
  /\ \E e \in writing \ mems[mem] :
       /\ \A f \in writing \ mems[mem] : e.seq <= f.seq
       /\ mems' = [mems EXCEPT ![mem] = @ \cup {e}]
  /\ UNCHANGED <<disk, up, mem, imm, books, nextFile, lastSeq, recovered, writing, flush, comp,
                 views, bgError, history, crashes, faults>>

\* With the mutex again: versions_->SetLastSequence, and the next writer's turn.
WritePublish ==
  /\ writing # {} /\ writing \subseteq mems[mem]
  /\ lastSeq' = lastSeq + Cardinality(writing)
  /\ writing' = {}
  /\ UNCHANGED <<disk, up, mems, mem, imm, books, nextFile, recovered, flush, comp, views,
                 bgError, history, crashes, faults>>

-----------------------------------------------------------------------------
\* Readers

\* NewInternalIterator, or the first half of Get: the last sequence number, the
\* memtables and the version, all under the mutex.
OpenView ==
  /\ up = "open" /\ Cardinality(views) + crashes < MaxViews
  /\ views' = views \cup {[seq |-> lastSeq, mem |-> mem, imm |-> imm, version |-> version]}
  /\ UNCHANGED <<disk, up, mems, mem, imm, books, nextFile, lastSeq, recovered, writing, flush, comp,
                 bgError, history, crashes, faults>>

CloseView(w) ==
  /\ views' = views \ {w}
  /\ mems' = Pinned({mem, imm}, views \ {w})
  /\ UNCHANGED <<disk, up, mem, imm, books, nextFile, lastSeq, recovered, writing, flush, comp,
                 bgError, history, crashes, faults>>

-----------------------------------------------------------------------------
\* The background thread: CompactMemTable

\* The thread looks at imm_ before it picks a compaction and again at every
\* entry a compaction reads, where bg_error_ does not stop it.
FlushTurn ==
  /\ up = "open" /\ imm # 0 /\ flush = {}
  /\ IF comp = {} THEN ~bgError ELSE \E c \in comp : c.rest # {}

\* WriteLevel0Table
FlushBuild ==
  /\ FlushTurn
  /\ \E l \in PickLevels(version, mems[imm]) :
       flush' = {[file |-> nextFile, level |-> l, logged |-> FALSE]}
  /\ tables' = Created(tables, nextFile, mems[imm])
  /\ nextFile' = nextFile + 1
  /\ UNCHANGED <<logs, manifests, current, up, mems, mem, imm, books, lastSeq, recovered, writing,
                 comp, views, bgError, history, crashes, faults>>

\* Earlier logs are no longer needed once this edit is down.
FlushEdit(f) == [del |-> {}, add |-> {<<f.level, f.file>>}, log |-> mem]

FlushLog ==
  /\ \E f \in flush : ~f.logged /\ flush' = {[f EXCEPT !.logged = TRUE]} /\ Record(FlushEdit(f))
  /\ UNCHANGED <<logs, tables, current, up, mems, mem, imm, books, nextFile, lastSeq, recovered,
                 writing, comp, views, bgError, history, crashes, faults>>

FlushInstall ==
  /\ \E f \in flush : f.logged /\ version' = Edited(version, FlushEdit(f))
  /\ Collect(version', mem, comp)
  /\ logNumber' = mem /\ imm' = 0 /\ flush' = {}
  /\ mems' = Pinned({mem}, views)
  /\ UNCHANGED <<current, up, mem, manifestFile, nextFile, lastSeq, recovered, writing, comp,
                 views, bgError, history, crashes, faults>>

\* A table or a manifest record that cannot be written stops all later
\* background work and writes.  A manifest record may be down although the
\* call failed (its sync did).
FlushFail ==
  /\ faults < MaxFaults /\ faults' = faults + 1 /\ bgError' = TRUE
  /\ \/ /\ FlushTurn /\ nextFile' = nextFile + 1
        /\ UNCHANGED <<flush, manifests>>
     \/ /\ \E f \in flush : ~f.logged /\ (Record(FlushEdit(f)) \/ UNCHANGED manifests)
        /\ flush' = {} /\ UNCHANGED nextFile
  /\ UNCHANGED <<logs, tables, current, up, mems, mem, imm, books, lastSeq, recovered, writing, comp,
                 views, history, crashes>>

-----------------------------------------------------------------------------
\* The background thread: BackgroundCompaction

\* PickCompaction and SetupOtherInputs.  Which table starts it depends on
\* sizes and on how often readers missed in it, so it may be any; whether the
\* upper inputs are widened, and whether a lone table is rewritten because of
\* the data two levels down, depends on sizes too.
Inputs(l, n) ==
  LET in0 == IF l = 0 THEN Overlapping(version, 0, File(n)) ELSE {n}
      in1 == Overlapping(version, l + 1, Content(in0))
      wide0 == Overlapping(version, l, Content(in0 \cup in1))
      wide1 == Overlapping(version, l + 1, Content(wide0))
  IN  {<<in0, in1>>} \cup (IF in1 # {} /\ wide1 = in1 THEN {<<wide0, in1>>} ELSE {})

\* IsTrivialMove: FALSE only, TRUE only, or either.
Moves(l, in) ==
  LET lone == in[2] = {} /\ \E n \in in[1] : in[1] = {n}
      below == l + 2 \in Levels /\ Overlapping(version, l + 2, Content(in[1])) # {}
  IN  {m \in BOOLEAN : (m => lone) /\ (~m => ~lone \/ below)}

CompactStart(l, n) ==
  /\ up = "open" /\ comp = {} /\ flush = {} /\ imm = 0 /\ ~bgError
  /\ l + 1 \in Levels /\ n \in version[l]
  /\ \E in \in Inputs(l, n) : \E move \in Moves(l, in) :
       comp' = {[level |-> l, in0 |-> in[1], in1 |-> in[2], version |-> version, move |-> move,
                 smallest_snapshot |-> lastSeq,
                 rest |-> IF move THEN {} ELSE Content(in[1] \cup in[2]),
                 outs |-> {}, logged |-> FALSE]}
  /\ UNCHANGED <<disk, up, mems, mem, imm, books, nextFile, lastSeq, recovered, writing, flush,
                 views, bgError, history, crashes, faults>>

\* Faulty: one level is left out.
IsBaseLevelTooDeep(c, k) == \A l \in c.level + 3..NumLevels - 1 : \A n \in c.version[l] : ~Spans(n, k)

\* IsBaseLevelForKey: no table of the deeper levels spans the key.
IsBaseLevelForKey(c, k) == \A l \in c.level + 2..NumLevels - 1 : \A n \in c.version[l] : ~Spans(n, k)

\* An entry hidden by a newer one, or a deletion that has nothing left to hide.
\* Nobody takes snapshots here, so the smallest is the last sequence number.
Drop(c, e) ==
  \/ \E f \in Content(c.in0 \cup c.in1) : f.key = e.key /\ f.seq > e.seq /\ f.seq <= c.smallest_snapshot
  \/ e.del /\ e.seq <= c.smallest_snapshot /\ IsBaseLevelForKey(c, e.key)

\* DoCompactionWork: entries up to e are read, what is kept of them fills one
\* output (ShouldStopBefore and MaxOutputFileSize may end it after any entry).
CompactOutput ==
  /\ flush = {}
  /\ \E c \in comp : \E e \in c.rest :
       LET read == {f \in c.rest : f = e \/ Before(f, e)}
           kept == {f \in read : ~Drop(c, f)}
       IN  /\ e \in kept \/ read = c.rest
           /\ IF kept = {}
              THEN /\ comp' = {[c EXCEPT !.rest = @ \ read]}
                   /\ UNCHANGED <<tables, nextFile>>
              ELSE /\ comp' = {[c EXCEPT !.rest = @ \ read, !.outs = @ \cup {nextFile}]}
                   /\ tables' = Created(tables, nextFile, kept)
                   /\ nextFile' = nextFile + 1
  /\ UNCHANGED <<logs, manifests, current, up, mems, mem, imm, books, lastSeq, recovered, writing,
                 flush, views, bgError, history, crashes, faults>>

\* Faulty: a compaction, too, declares the older logs obsolete.
CompactEditOfNewestLog(c) ==
  [del |-> {<<c.level, n>> : n \in c.in0} \cup {<<c.level + 1, n>> : n \in c.in1},
   add |-> {<<c.level + 1, n>> : n \in IF c.move THEN c.in0 ELSE c.outs},
   log |-> mem]

\* InstallCompactionResults, or the move of one table to the next level.
CompactEdit(c) ==
  [del |-> {<<c.level, n>> : n \in c.in0} \cup {<<c.level + 1, n>> : n \in c.in1},
   add |-> {<<c.level + 1, n>> : n \in IF c.move THEN c.in0 ELSE c.outs},
   log |-> logNumber]

CompactLog ==
  /\ flush = {}
  /\ \E c \in comp : /\ c.rest = {} /\ ~c.logged
                     /\ comp' = {[c EXCEPT !.logged = TRUE]}
                     /\ Record(CompactEdit(c))
  /\ UNCHANGED <<logs, tables, current, up, mems, mem, imm, books, nextFile, lastSeq, recovered,
                 writing, flush, views, bgError, history, crashes, faults>>

\* A move deletes no file; otherwise the inputs are released and collected.
CompactInstall ==
  /\ \E c \in comp :
       /\ c.logged
       /\ version' = Edited(version, CompactEdit(c))
       /\ IF c.move THEN UNCHANGED <<logs, tables, manifests>> ELSE Collect(version', logNumber, {})
  /\ comp' = {}
  /\ UNCHANGED <<current, up, mems, mem, imm, logNumber, manifestFile, nextFile, lastSeq, recovered,
                 writing, flush, views, bgError, history, crashes, faults>>

CompactFail ==
  /\ faults < MaxFaults /\ faults' = faults + 1 /\ bgError' = TRUE
  /\ flush = {}
  /\ \E c \in comp : \/ c.rest # {} /\ UNCHANGED manifests
                     \/ c.rest = {} /\ ~c.logged /\ (Record(CompactEdit(c)) \/ UNCHANGED manifests)
  /\ comp' = {}
  /\ UNCHANGED <<logs, tables, current, up, mems, mem, imm, books, nextFile, lastSeq, recovered,
                 writing, flush, views, history, crashes>>

-----------------------------------------------------------------------------
\* Crashes, and DB::Open

LogEntries(l) == UNION Range(l)
LogsToReplay == {n \in DOMAIN logs : n >= manifests[current].log}

Restarting == /\ crashes < MaxCrashes /\ crashes' = crashes + 1
              /\ up' = "down" /\ mems' = Nothing /\ mem' = 0 /\ imm' = 0
              /\ logNumber' = 0 /\ version' = NoFiles /\ nextFile' = 0 /\ lastSeq' = 0
              /\ manifestFile' = 0 /\ recovered' = {} /\ writing' = {} /\ flush' = {} /\ comp' = {}
              /\ views' = {} /\ bgError' = FALSE

\* The process ends: each record reached the kernel when it was added.
Crash ==
  /\ up # "down" /\ Restarting
  /\ UNCHANGED <<disk, history, faults>>

\* The machine goes down: tables and manifests were synced, the records at the
\* end of a log were not.  An entry also in a table of the manifest is not lost;
\* if such an entry is cut off a log that is replayed, the rest of the log hides
\* it from then on (README), so TornLogs says whether that case is explored.
PowerCut ==
  /\ PowerLoss /\ up # "down" /\ Restarting
  /\ \E kept \in [DOMAIN logs -> 0..MaxSeq] :
       LET left(n) == SubSeq(logs[n], 1, kept[n])
           gone == UNION {LogEntries(logs[n]) \ LogEntries(left(n)) : n \in LogsToReplay}
           stored == Content(Files(manifests[current].version))
       IN  /\ \A n \in DOMAIN logs : kept[n] <= Len(logs[n])
           /\ TornLogs \/ gone \cap stored = {}
           /\ logs' = [n \in DOMAIN logs |-> left(n)]
           /\ history' = history \ (gone \ stored)
  /\ UNCHANGED <<tables, manifests, current, faults>>

\* The file counter when the logs S have been replayed: each that held anything
\* took a number for its table, and MarkFileNumberUsed moved the counter past
\* the log's own.
CounterAfter(S) ==
  LET Built(T) == Cardinality({n \in T : LogEntries(logs[n]) # {}})
  IN  Max({manifests[current].next + 1 + Built(S)}
            \cup {n + 1 + Built({j \in S : j > n}) : n \in S})

\* VersionSet::Recover, then RecoverLogFile for every log from the manifest's
\* on, oldest first: the entries of a log become one table of level 0.  The new
\* log is made last; Open gives it its number and its memtable.
OpenReplay ==
  LET m == manifests[current]
      number == [n \in {n \in LogsToReplay : LogEntries(logs[n]) # {}} |->
                   CounterAfter({j \in LogsToReplay : j < n})]
      built == [t \in Range(number) |->
                  UNION {LogEntries(logs[n]) : n \in {n \in DOMAIN number : number[n] = t}}]
      next == CounterAfter(LogsToReplay)
  IN  /\ up = "down" /\ up' = "replayed"
      /\ Files(m.version) \subseteq DOMAIN tables      \* else "missing files"
      /\ tables' = [t \in DOMAIN tables \cup DOMAIN built |->
                    IF t \in DOMAIN built THEN built[t] ELSE tables[t]]
      /\ recovered' = DOMAIN built
      /\ logs' = Created(logs, next, <<>>)
      /\ mem' = next /\ mems' = [n \in {next} |-> {}] /\ nextFile' = next + 1
      /\ manifestFile' = m.next
      /\ lastSeq' = Max({e.seq : e \in UNION Range(built)} \cup {m.last})
      /\ version' = m.version /\ logNumber' = m.log
      /\ UNCHANGED <<manifests, current, imm, writing, flush, comp, views, bgError, history,
                     crashes, faults>>

\* The first LogAndApply writes a new manifest: a snapshot of the version and
\* the edit that adds what was recovered.
OpenEdit == [del |-> {}, add |-> {<<0, n>> : n \in recovered}, log |-> mem]

OpenManifest ==
  /\ up = "replayed" /\ up' = "written"
  /\ manifests' = Created(manifests, manifestFile,
                          [log |-> mem, next |-> nextFile, last |-> lastSeq,
                           version |-> Edited(version, OpenEdit)])
  /\ UNCHANGED <<logs, tables, current, mems, mem, imm, books, nextFile, lastSeq, recovered, writing,
                 flush, comp, views, bgError, history, crashes, faults>>

\* SetCurrentFile: a rename.
OpenCurrent ==
  /\ up = "written" /\ up' = "pointed"
  /\ current' = manifestFile
  /\ UNCHANGED <<logs, tables, manifests, mems, mem, imm, books, nextFile, lastSeq, recovered, writing,
                 flush, comp, views, bgError, history, crashes, faults>>

OpenDone ==
  /\ up = "pointed" /\ up' = "open"
  /\ version' = Edited(version, OpenEdit)
  /\ logNumber' = mem
  /\ Collect(version', mem, {})
  /\ recovered' = {}
  /\ UNCHANGED <<current, mems, mem, imm, manifestFile, nextFile, lastSeq, writing, flush, comp,
                 views, bgError, history, crashes, faults>>

-----------------------------------------------------------------------------
Write == SwitchMem \/ (\E b \in Batches : WriteLog(b)) \/ WriteInsert \/ WritePublish
Read == OpenView \/ \E w \in views : CloseView(w)
Background == \/ FlushBuild \/ FlushLog \/ FlushInstall \/ FlushFail
              \/ \E l \in Levels : \E n \in version[l] : CompactStart(l, n)
              \/ CompactOutput \/ CompactLog \/ CompactInstall \/ CompactFail
Restart == Crash \/ PowerCut \/ OpenReplay \/ OpenManifest \/ OpenCurrent \/ OpenDone
LevelDBNext == Write \/ Read \/ Background \/ Restart
LevelDBSpec == LevelDBInit /\ [][LevelDBNext]_levelDBVars

-----------------------------------------------------------------------------
\* Properties

UserKeys == UNION {{b[i].key : i \in DOMAIN b} : b \in Batches}
Entry == [key : UserKeys, seq : 1..MaxSeq, del : BOOLEAN]
Truth(k, s) == Answer(Hits(history, k, s))

\* The shapes of the files and of the process's books; a manifest's counters
\* never run behind the numbers in use.
LevelDBTypeOK ==
  /\ \A n \in DOMAIN logs : logs[n] \in Seq(SUBSET Entry)
  /\ \A n \in DOMAIN tables : tables[n] # {} /\ tables[n] \subseteq Entry
  /\ current \in DOMAIN manifests
  /\ up \in {"down", "replayed", "written", "pointed", "open"}
  /\ up = "open" => mem \in DOMAIN logs /\ mem \in DOMAIN mems /\ (imm # 0 => imm \in DOMAIN mems)
  /\ up = "open" => \A n \in DOMAIN logs \cup DOMAIN tables \cup DOMAIN manifests : n < nextFile
  /\ writing \subseteq Entry /\ history \subseteq Entry
  /\ Cardinality(flush) <= 1 /\ Cardinality(comp) <= 1

\* A reader finds, for every key, the newest entry no newer than what it asked
\* for: through the current state as a Get would be answered now, and through
\* everything an open iterator pinned, whatever was flushed, compacted or
\* deleted since.
ReadsAreCurrent ==
  /\ up = "open" => \A k \in UserKeys :
                      Get(MemHits(mem, imm, k, lastSeq), version, k, lastSeq) = Truth(k, lastSeq)
  /\ \A w \in views : \A k \in UserKeys :
       Get(MemHits(w.mem, w.imm, k, w.seq), w.version, k, w.seq) = Truth(k, w.seq)

\* Below level 0 the tables of a level do not overlap (the check SaveTo makes
\* and aborts on), in the version in use and in the one CURRENT leads to, as
\* long as no write of a file has failed.
LevelsAreDisjoint ==
  faults = 0 => \A v \in {version, manifests[current].version} : \A l \in 1..NumLevels - 1 :
    \A n \in v[l] : \A m \in v[l] \ {n} :
      \/ \A e \in File(n), f \in File(m) : Before(e, f)
      \/ \A e \in File(n), f \in File(m) : Before(f, e)

\* No file is deleted while something needs it: the current version, a reader,
\* a compaction's inputs, the manifest CURRENT names, the logs not yet flushed.
FilesInUseExist ==
  /\ \A v \in {version, manifests[current].version} \cup {w.version : w \in views} :
       Files(v) \subseteq DOMAIN tables
  /\ \A c \in comp : c.in0 \cup c.in1 \cup c.outs \subseteq DOMAIN tables
  /\ up = "open" => {mem, imm} \ {0} \subseteq DOMAIN logs

\* Whenever the process ends, what is on disk then gives every entry logged
\* before: the manifest's version under the logs from its log number on.
RecoveryFindsEverything ==
  LET newestFirst == [i \in {-n : n \in LogsToReplay} |-> LogEntries(logs[-i])]
  IN  \A k \in UserKeys : Get(FirstHits(newestFirst, k, MaxSeq), manifests[current].version, k, MaxSeq)
                            = Truth(k, MaxSeq)
=============================================================================

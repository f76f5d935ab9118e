# Quick Chat in TLA+

A verification project for Quick Chat (`src/Quick-Chat`), an iOS chat app on
Firebase. It models what happens between a tap on "send" and a message on the
other phone: the app's own repositories and screens (`MagicChat/`), the
Realtime Database client (`Pods/FirebaseDatabase`) as the app uses it, and the
storage under that client, LevelDB (`Pods/leveldb-library`), which keeps the
phone's unsent writes and cached data through a restart.

`PROJECT.json` lists the components, runs, mutants, source lines of every
definition, findings, hazards and theorems in machine-readable form.

## 1. Inventory

### Parts of the system

| Part | State | Operations | Where |
|---|---|---|---|
| Database client | outstanding writes, cached data under the listeners, both on disk; the connection; blocks for the main queue | `set`, `observe`, `observeSingleEvent`, reconnect, restart | `Pods/FirebaseDatabase/.../Core` |
| Database server | one tree | apply or refuse a write, push changes, answer | external |
| Sending | none of its own: the steps of one send are a chain of callbacks | `send`, `uploadMessage` | `MessageRemoteRepository` |
| Chat screen | `items`, the rows the table knows, downloads | `downloadAllMessages`, `fetchData`, `cellForRowAt`, `downloadImage`, location sends, keyboard | `ChatVC`, `MessageRemoteRepository` |
| Read marks | the `isRead` field of each message | `markMessagesRead` | `MessageRemoteRepository`, `ChatVC` |
| Conversation list | `conversations`, `items`, one listener per conversation | `showConversations`, `info`, `downloadLastMessage`, `fetchData` | `ConversationRemoteRepository`, `UserRemoteRepository`, `ConversationsVC` |
| Session | the Firebase session, the stored credentials, the screen | `registerUser`, `loginUser`, `logOutUser`, start-up | `UserRemoteRepository`, `WelcomeVC`, `InitialViewController`, `AppDelegate` |
| Levels | memtables, tables, versions, log, manifest, `CURRENT` | write, read, flush, compaction, recovery | `db/db_impl.cc`, `db/version_set.cc` |
| Writers' queue | `writers_`, the mutex, two condition variables, the background call | `Write`, `MakeRoomForWrite`, `BuildBatchGroup`, `BackgroundCall` | `db/db_impl.cc` |
| Log format | physical records in blocks | `AddRecord`, `ReadRecord` | `db/log_writer.cc`, `db/log_reader.cc` |
| Table files | data blocks, restart points, index block | `Add`, `Finish`, `Seek`, `Next`, `Prev`, `InternalGet` | `table/` |
| Skip list | links of the memtable's nodes | `Insert`, `Seek`, `Next`, `Prev` | `db/skiplist.h` |
| Iterators | position and direction over merged children | `Seek`, `Next`, `Prev`, ... | `db/db_iter.cc`, `table/merger.cc` |
| Cache | hash table, LRU list, reference counts | `Lookup`, `Insert`, `Release`, `Erase` | `util/cache.cc` |
| Contacts | `items` | `downloadAllUsers` | `ContatctsViewController` |
| Location picking | `canSendLocation`, the map's coordinate | `selectLocation`, `didUpdateLocations`, long press | `ChatVC`, `MapPreviewViewController` |
| AR view, styling, wiring | none worth exploring | | `LocationViewController`, cells, `AppDelegate` |

The use-case classes (`UseCase/*/Implementation`) only forward to the
repositories.

### How they interact

Two users share a node `conversations/<location>` of messages. Each has an
index entry `users/<self>/conversations/<peer>/location` that leads to it. A
send *reads* the sender's entry and then *writes* the message: to the node the
entry leads to, or to a fresh node, in which case the completion block of that
write sets both users' entries. All reads are answered from the phone's cache
with its own outstanding writes on top; all callbacks run as blocks on the main
queue; all writes are persisted, and sent again after a reconnect or a restart
until the server answers. The screens listen, keep arrays of what they were
told, and download pictures on threads of `URLSession`.

`FLevelDBStorageEngine`, through `APLevelDB`, puts each outstanding write
and each piece of cached data into LevelDB from the database's own queue. A put
is a batch that joins the queue of writers, is added to the log and inserted
into the memtable; LevelDB's background thread turns full memtables into tables
and merges tables; a restart reads the manifest and replays the log. What the
database client calls "on disk" is what that recovery finds.

### What is hard

- read and write of the index are separate steps, on phones that race;
- writes take effect at least once, and may do so late;
- a restart keeps the writes and loses the callbacks;
- the create's completion ignores its error;
- listeners are attached per change and never removed;
- array positions are captured before a download and used after it;
- a table view must not be updated between an append and its reload;
- several error paths call no completion;
- an answer may come to a window that is gone, or to another session;
- flush, compaction and reads work without the mutex on versions that change;
- a crash falls between any two of table, manifest, log switch and removal;
- a leader writes for others, and waits for a thread that may have failed;
- a list is read while it is linked, an iterator used while keys are inserted.

The `hazards` of `PROJECT.json` list each of these at its line, with the
properties that watch it, or why none does.

### What correct means, per part

- *Database client*: no update is missed, the last write of a client wins,
  nothing acknowledged is undone by what is sent again, a client's own view
  never goes back, and everybody agrees in the end.
- *Sending*: a message is stored once, with its own pair of users; an entry
  leads only to a conversation that exists; what was reported as sent is
  stored; every send ends; a known conversation is never forgotten.
- *Chat screen*: what was handed over is shown, once, and the table and its
  array agree.
- *Read marks*: what was shown and left is read in the end, and only what
  reached another phone is.
- *Conversation list*: one row per conversation, with its newest message, sorted.
- *Session*: conversations are seen only by somebody who is signed in, a log-out
  lasts, the credentials are the session's, every form gets its answer.
- *Levels*: a read sees the newest entry before its sequence number, files in
  use exist, recovery finds what was acknowledged.
- *Writers' queue*: the log is the queue's order, ok means logged (and synced
  when asked for), every call returns.
- *Log format, tables, iterators, skip list, cache*: what was written is read;
  each call ends at the entry it asks for; an entry is freed exactly when
  nobody holds it.

## 2. Modules

| Module | What it is |
|---|---|
| `RealtimeDatabase` | the database: state, the client's calls, the connection, the server. No specification of its own; others instantiate or extend it |
| `RealtimeClients` | clients that write freely, to state what the client library guarantees |
| `ChatService` | the abstract message store: a set of filed messages and a directory |
| `Messaging` | `send`/`uploadMessage` on every phone over `RealtimeDatabase`; implements `ChatService` |
| `ReadMarks` | `markMessagesRead` on every phone over `RealtimeDatabase` |
| `ChatScreen` | one open chat on one phone |
| `ConversationList` | the list of conversations on one phone |
| `Session` | who is signed in on one phone |
| `InternalKey` | the order of LevelDB's entries, for the modules below |
| `LevelDB` | log, memtables, levels, versions, manifest and recovery |
| `WriteQueue` | LevelDB's writers and its background thread waiting for each other |
| `RecordLog` | the format of logs and manifests, written and read |
| `Table` | a table file, built, sought and walked |
| `SkipList` | the memtable's list, read while it is linked |
| `DBIterator` | an iterator over merged runs |
| `LRUCache` | the cache of blocks and tables |
| `MCRealtimeClients`, `MCMessaging`, `MCChatScreen`, `MCAppParts`, `MCWriteQueue`, `MCStorage` | constants of small instances for TLC |
| `RealtimeDatabaseProofs`, `RealtimeClientsProofs`, `MessagingProofs`, `ChatScreenProofs`, `AppPartsProofs` (`Session`, `ConversationList`, `ReadMarks`), `StorageProofs` (`LRUCache`, `WriteQueue`, `SkipList`), `LevelDBFilesProofs` and `LevelDBProofs` (`LevelDB`) | theorems |

`Messaging` and `ReadMarks` compose the app with the database: they share its
tree, queues, caches and faults. The parts of LevelDB are joined by what each
takes for granted and another shows: `LevelDB` takes a log for a list of
records (`RecordLog`), a table and a memtable for ordered sets (`Table`,
`SkipList`), a read for the merge of them (`DBIterator`) and one writer at a
time for granted (`WriteQueue`); the database client takes "on disk" for
granted (`LevelDB`). These share no variable, so `MCStorage` and `MCAppParts`
explore one part per behaviour, named by the variable `part`.

### RealtimeDatabase

`tree` is the server's data. For each client, `puts` is `outstandingPuts`
(`FPersistentConnection`), a sequence because it is sorted by index before it is
sent; `applied` counts how many of them the server has answered on this
connection; `inbox` is what it sent; `cache` and `synced` are the server data
under the listeners and whether they were ever answered; `blocks` is the main
queue's share of the database's callbacks.

`Enqueue` is `FRepo set`, `Observe` a single read, `RunBlock` one block of the
main queue. `Connect` is `restoreState`: listens first, then, because `applied`
is 0 again, every outstanding write. `Drop` is `onDisconnect`. `Crash` keeps
what is on disk and drops completion blocks, as `restoreWrites` does. `Deliver`
handles one server frame, `Settle` the answer in it. `Apply` and `Refuse` are
the server's.

Abstractions, and why they lose nothing the properties see:

- A frame carries the data under the listeners and the answer together. The
  server pushes the change before it answers, and until the answer the client's
  own outstanding write covers that path.
- The listeners of a client are fixed (`Watch`). `ConversationsVC` listens to
  the user's index from start-up on. Since listens are restored before writes
  are sent, `sendPut`'s postponement of answers while a listen is unanswered
  never reorders anything here.
- A write that reached the server on a connection that then drops is applied
  before the drop or not at all; one that takes effect after the reconnect is
  the same as one that is sent again.
- A write is on disk as soon as it is made. A restart before it was persisted
  is the same as a restart before the call.
- One account is signed in on one phone.

### Messaging

`stage[m]` is how far the send of `m` has come along its chain of callbacks:
`idle`, `uploading` (a photo's image), `reading` (the single read was asked
for), `asked` (its answer is on its way as a block), `appending` or `creating`
(the message was written), `publishing` (between the two index writes), and the
ends `sent`, `failed`, `dropped` (a failed upload) and `interrupted` (a
restart). Each closure of `uploadMessage` is an action. `MainIdle` says that a
closure that makes two writes is not interrupted by another block, although a
restart may come between them. A node is named by the message that opened it:
its key is fresh in the code (`childByAutoId`).

The malformed-data branches (`guard let data = snapshot.value as? ...`) are not
modelled: an entry holds a location or nothing.

### ChatScreen

`main` is the main queue. `Attach`, `AddItem`, `Reload`, `ReloadRow`,
`WriteLocation` and `LocationSent` are its blocks; `ImageArrived` runs on a
thread of `URLSession` between any two of them; `ShowRow` and `Keyboard` are
the user's. `rows` is the number of rows `UITableView` knows since its last
reload. UIKit's exceptions (reload of a row with a changed row count, scroll to
an unknown row) end the app: `alive` becomes false. Every listener makes its
own `Message` object, so an item is a message and the listener it came through
(`[msg, via]`). A message that comes to a node is told to every listener there,
the oldest first (`EventsOf`). Two downloads of one object for one row are one.
A location send is a chain: `SendLocation` asks for the index entry,
`ReadEntry` is its answer, a block behind those that are queued, which writes
the message (`WriteLocation`), and `LocationAcked` is the server's answer,
another block (`LocationSent`), which sets the entry if the message opened the
conversation, and scrolls. A node that a location opens is named after it, and
others know of it once the entry is set (`Public`).

The array is written by two threads without synchronisation. The model lets the
background write be lost while the main thread is about to append; it does not
model corrupted memory.

### ReadMarks

A path is a message and its value the state of `isRead`. `Compose` writes a
message whole, `isRead` false with it; `OpenChat` and `LeaveChat` ask for the
messages, `AnswerRead` finds what the phone knows, `SetRead` writes `isRead`
for each message of the peer's. `shown` remembers what was on the screen when
the chat was left, `lost` what of it the phone did not yet see as read when its
process ended before the reads were answered and their closures run,
`sentAgain` the messages the server applied twice. The two reads of
`markMessagesRead` are one here: both users' entries already lead to the
conversation, and the first read only delays the second.

Three things the code does not promise show in the properties. A message that
arrives after the chat was left and before the read is answered is marked
although it was never on the screen: `ReadWasReceived` says received, not seen.
A message whose write is sent again after the mark sets `isRead` back to false
until the next visit: `LeftMeansRead` excepts it. And when the reader's process
ends after the chat was left and before the closures ran, the marks are lost
until the next visit, since only writes are persisted: `LeftMeansRead` excepts
`lost`, and nothing else of what was shown.

### ConversationList

`progress[p]` is how far an entry's chain has come: `added` (a block is on the
main queue), `profile` (its read), `picture` (a download), `listed` (appended
to the array and listened to), `lost`. Downloads end on the serial queue of
`URLSession.shared`, between any two blocks of the main queue. A listener
reports the whole conversation; the loop of `downloadLastMessage` stops at the
first child that does not parse (`Parsed`), so a row whose conversation no
longer has a readable first message (a malformed one with an older key came)
keeps the message it had, and a conversation that never had one gets no row.
`Sorted` is any order by the senders' clocks, since Swift's sort is not stable.
`MoveEntry` is an entry set again by two first messages: the app observes
`.childAdded` only and never hears of it, so `SettledListIsCurrent` speaks of
the conversation the entry led to when it was added.

### Session

The library changes `session` on its own queue when it has an answer, the
callback on the main queue stores the credentials, and a later block changes
the screen. `window` counts the windows: a welcome screen whose window is gone
has no one to push (`weakSelf`). `tangled` remembers that two calls, or a call
and a log-out, overlapped. A log-out is two steps of one block: `SignOut` ends
the session, which the library stores, `Forget` removes the credentials and shows
the welcome screen. Nothing else runs on the main thread in between (`Busy`), but
answers come from the network and the process may end. `entered` are the accounts
that somebody entered since the last log-out, and those whose calls it left under
way (`StillUnderWay`). `UserDefaults` is taken to keep what it was told.
Registration is a chain of calls (`create`, `picture`, `link`, `profile`), of
which only the first reports its failure (`silent`).

What the code does not promise, and the properties therefore do not claim: a
process that ends between `SignOut` and `Forget` has not logged out, since the
next start finds the credentials and signs in again; a login tapped twice and a
log-out before the second answer leave session and credentials behind (hence
`~tangled`); a registration that fails silently leaves its form disabled; a
start-up login that fails shows the welcome screen although session and
credentials are still there; an account that was created but has no profile can
log in, and its contacts and account dialog stay empty.

### LevelDB and its parts

- `LevelDB`: disk is `logs`, `tables`, `manifests` and `current`; everything
  else is memory and goes with `Crash` (or `PowerCut`, which also takes the
  unsynced end of the log). A write is three steps (`WriteLog`, `WriteInsert`,
  `WritePublish`), a flush `FlushBuild`, `FlushLog`, `FlushInstall`, a
  compaction `CompactStart`, `CompactOutput`, `CompactLog`, `CompactInstall`,
  and `Open` four: between any two of them readers come and go and the process
  may end. What depends on sizes (a full memtable, where an output ends, how
  much grandparent data overlaps) is a choice. A power cut may take the end of
  any log; `TornLogs` says whether also of one that is replayed although a table
  of the manifest has its entries, which only a failed write brings about (item 6
  under the limits below).
- `WriteQueue`: a step is what a thread does while it has the mutex, or less;
  `holder` says who keeps it between steps. A condition variable forgets a
  signal nobody waits for, and a wait may return for no reason. A group is any
  number of waiting writers that `BuildBatchGroup` may take. `log` records, for
  each record, the calls whose batches are in it; `joined` and `succeeded`
  remember the calls there were and those that were answered with ok.
- `RecordLog`: a byte is the number of its physical record and its place there,
  so a header read at the wrong place is one whose checksum does not match. A
  file may end anywhere; one append may fail half-way.
- `Table`: offsets are counted in entries, and a block may be full after any
  entry. Keys keep their bytes, since shortened separators and shared prefixes
  are what can go wrong. A lookup in one block relies on separators that are
  shortened with the number `kMaxSequenceNumber`, which comes before any entry.
- `SkipList`: every load and store of a link is a step; `max_height_`, read
  without a barrier, may be any earlier value.
- `DBIterator`: each turn of the loops of `db_iter.cc` is a step, with
  insertions between calls. `LRUCache`: each operation is a step under the
  cache's mutex.

### Faulty variants

The modules hold definitions marked as faulty, each a plausible bug in the
definition it stands next to. They are used by no specification. Each property
of each passing run fails when the variant `PROJECT.json` names takes the
definition's place.

## 3. Runs

| Run | Instance | Question |
|---|---|---|
| `realtime_clients` | 2 clients, 3 writes, 2 paths, 1 drop, 1 restart | does the library keep order and durability, does a writer's view only move forward, and does everybody agree in the end? |
| `messaging_two_users` | 2 users, 3 messages, 1 drop, 1 restart | is what was sent stored, once, and shared? |
| `messaging_three_users` | 3 users, 3 messages, 1 refusal | do pairs stay apart, is the index current? |
| `messaging_fair` | 2 users, 2 messages, 1 drop, 1 restart | does the invariant of the proofs hold, is this the abstract store, does every send end, every write arrive, and every opener set both entries? |
| `messaging_delivery` | 2 users, 2 messages, no fault | **violated**: is what was sent also received? |
| `app_parts` | 2 phones, 1 message, 1 visit each, 1 drop, 1 restart; 2 peers, 3 conversations, 5 messages, one malformed; 2 accounts, 3 taps, 1 restart | are messages read when the chat was left, is the list current, do session, credentials and screen agree? |
| `chat_screen` | a conversation or none, 2 photos, 1 text, 1 own location | is every message but one under a photo there? |
| `chat_screen_listeners` | 2 nodes, 2 messages, the entry changes up to 3 times | is a message shown, and once? |
| `chat_screen_complete` | 1 photo, 1 text | **violated**: is every message shown? |
| `chat_screen_survives` | no conversation, 1 own location | **violated**: does the app survive its table updates? |
| `write_queue` | 3 threads, 4 writes (one synced, one that forces a new memtable), 1 failure, 1 spurious wake-up | is the log the queue, and does every write return? |
| `storage` | below | do reads, recovery, log, tables, iterators, list and cache find what they should? |

`CHECK_DEADLOCK FALSE` everywhere: a user may stop typing, and when every
message has been sent nothing more has to happen; a database whose counters are
at their bounds only waits.

### Bounds and why they are enough

- Two users are enough for the race on an index; three let a message go astray
  between pairs. Two messages one way and one the other let a sender's second
  message overlap, join or duplicate the conversation of its first.
- One drop and one restart, at any point, reach every loss of an answer and of
  a callback, and together the resend of a resend. A refusal adds a dangling
  entry. `MaxFaults` names these bounds. `ReadMarks` has no refusal: the
  property about settled marks excludes it, and the proof of the other does not.
- In `RealtimeClients` one path has one writer, who writes twice (an order to
  keep), the other is written by the other client while both listen.
- In `ChatScreen` there are two seconds with two messages each, which arrive in
  any order, so that a sort moves rows and has a choice. `Messages` and `MaxFires`
  bound listeners and blocks. `chat_screen` has one node and the one that the
  location may open; `chat_screen_survives` has only the latter. Three changes are the fewest after which an entry
  is back where it was. Swift's sort is not stable; `Arrangements` has the
  sorted order and every exchange of two items of one second.
- In `ConversationList` one peer has two conversations, so that its entry may
  move; the third of five messages is malformed, so that its conversation has a
  readable one before it and one after it, which may arrive in any order.
- In `Session` three taps are a login, a log-out and a login again, or two
  overlapping calls and a log-out; a start may fall between any two steps, those of
  a log-out included.
- `LevelDB`: two keys, one of them overwritten and deleted, and a batch with
  both; three entries (`MaxSeq`); three levels, so that a flush may choose level
  0, 1 or 2 and a compaction has a level to move to and one under it; one reader
  at a time, one failed write and one restart, by a crash or a power cut. With
  `TornLogs` = FALSE the power cut leaves alone what a table already has; the
  excluded states all follow a failed write, and are item 6 of the limits below.
- `RecordLog`: blocks of six bytes with a header of two; records of 0, 1 and 5
  bytes, which fit, end exactly at a block's end, leave less than a header, or
  are split; three records and one failed append, of a trailer (whose status is
  ignored) or of a record.
- `Table`: four user keys, one a prefix of another, one that a separator can
  shorten and two of the greatest byte only; two numbers each; up to five
  entries cut into blocks in every way, a restart point every two.
- `SkipList`: three keys and two levels: an insertion before, between and after
  linked nodes, seen on both levels. `DBIterator`: two keys, a memtable and a
  table, three entries and one inserted under the iterator.
- `LRUCache`: two keys, three entries of charge 1 or 2, capacity 2, up to two
  handles: replaced while held, evicted, erased while held.
- `WriteQueue`: the memtable's switch waits for a flush in progress
  (`bg_cv_`), level 0 can be at its stop, and a group
  has writers of both kinds of options.

### Fairness

- `Connect`: the library reconnects with a back-off for as long as the process
  lives (`tryScheduleReconnect`); after a restart the app starts the database
  again. `Apply`, `Deliver`: what is on a live connection is handled. Faults are
  bounded, so a connection lasts long enough in the end.
- The main queue runs its blocks (`Send`, `Complete`, `MainThread`, `MainQueue`,
  `RunMain`). An upload, a picture's download and a call to the server end with
  a result or an error.
- `WriteQueue`: a thread that can run does. Weak fairness is enough for the
  mutex, because calls and faults are bounded: contention for it ends.
- Nothing makes a user compose, scroll, tap or open the keyboard, nothing makes
  an image of the chat screen arrive, and nothing has to fail.

## 4. What the runs show

*Hold.* Through a lost connection, a restart and a refusal a message is stored
in one place, within its pair; without a refusal, what was reported as sent is
stored and no entry dangles. A conversation that was opened alone, by a send
that ran to its end, is in both users' lists once everything has settled. The
database side of sending is exactly `ChatService`. On the screen, only a photo
hides a message, and settled tables are current. Unless the server refuses it, a
write that was handed to the database takes effect, and a message that opens a conversation is followed by
both its entries, unless its sender's process ended first. A chat that was left
is read, but for a message sent again over its mark and for marks whose
closures ended with the reader's process. The list shows each conversation with
the newest message up to the first malformed one. Nobody sees conversations
without a session, and a log-out that ran to its end lasts, but for calls it
left under way. Under all this, LevelDB reads and recovers what was
acknowledged, however flushes, compactions, readers and a crash fall together,
and every call of `Write` returns.

*Do not hold* (the `findings`):

1. `DeliveredWhenSent`. Two users write to each other for the first time at the
   same time. Both read no entry, both open a node, and the entries that are
   set last win: an acknowledged message is in a node nobody's entry leads to.
2. `ScreenIsComplete`. A download remembers a row, a sort moves it, and the
   photo is written over another message.
3. `AppSurvives`. A location that opens a conversation completes before there is
   any item, and the table is scrolled to row -1. In the run the read finds
   no entry, the message opens a node, its answer comes, and the completion runs
   before the screen has a listener for that node.

*Conditions worth knowing.* `NoDanglingPointer`, `SentIsStored` and
`ServiceIsImplemented` need a server that refuses nothing: the create's
completion ignores its error. `SoleConversationIsShared` and `WritesArrive`
need the opener's process to live until both entries are written: after a
restart the write is there but its completion block is not, and nothing ever
publishes the node. `LevelsAreDisjoint` needs manifests whose writes do not
fail.

*Limits of LevelDB* met while modelling, which the instances above exclude and
this app is not known to reach:

1. With a snapshot, versions of one key may be split over
   two tables of a level; a compaction that then moves only one of them down
   leaves an older version above the newer (this version does not add boundary
   inputs in `SetupOtherInputs`).
2. A flush inside a compaction whose manifest sync fails may be made again and
   name its table twice; a later recovery then stops at the check for overlap in
   `VersionSet::Builder::SaveTo`.
3. An `AddRecord` that fails half-way, or whose trailer is not written (the status
   of that append is ignored, `log_writer.cc:53`), leaves `block_offset_` out of step with the
   file without setting `bg_error_`; records acknowledged later may be skipped by
   the reader. `RecordLog` shows that nothing wrong is returned.
4. A power cut may keep records of a newer log and lose the end of the older
   one, which was not synced when the log was switched.
5. A call with no batch that joins the group of another writer is answered
   without the memtable having been switched.
6. A failed write and a power cut together can hide an entry. A flush inside a
   compaction writes its record, whose sync fails, and the memtable stays; the
   compaction goes on, and its record names the older log again
   (`SetLogNumber(log_number_)`, `version_set.cc:821`). Now the manifest's version
   has the memtable's table and its log is replayed as well, which is harmless
   while the log is whole: the same table is built twice. If the machine goes
   down and takes the unsynced end of that log, the rest of it becomes the newest
   table of level 0 and hides newer entries of the table that is already there.
   The comments at `version_set.cc:346` ("entries never hop across levels") and
   `db_impl.cc:552` ("earlier logs no longer needed") do not hold then. TLC shows
   it with four entries, three levels, `L0Stop` 3, one failed write, one power
   cut and `TornLogs` = TRUE, in 32 steps; the proofs below show that nothing
   less than both faults together does it.

## 5. Proofs

Checked by `tlapm` for all values of the constants that satisfy the modules'
assumptions. Sets need not be finite except where a newest or next element of
them is chosen.

### Messaging

`RealtimeDatabaseProofs`: each action of the database keeps `DbTypeOK` and
`CacheConverges`, whatever its user does. `MessagingProofs`: `TypeCorrect` and
`IndexIsUpToDate` for `Messaging`, from those lemmas; `Messaging` instantiates
the database with expressions for its constants, and `SameActions` and
`SamePredicates` carry the lemmas over. Then `Safety`, `NoPointerDangles`,
`PairsAreSeparate`, `MessagesAreStoredOnce`, `SentMessagesAreStored`, from
`MessagingAssumption` (senders differ from recipients, the two sentinel values
are not messages, the fault bounds are numbers).

None of these safety properties is inductive: a message is stored in the wrong
place because an *outstanding write* says so, which says so because a *block*
carried a wrong location, which was read from a *cache*, which came in a
*frame*, which showed the *tree*. `SafetyInvariant` therefore says the same of
all of them (`IndexSafe` of tree, caches and frames; `PutsSafe`; `BlocksSafe`):
a location is of a conversation of the right pair that has been opened.
`AppliedSafe` ties an answer on its way to what the server did, which makes
`Created` true before the entries are written. `WrittenOnce` counts outstanding
writes and stored messages together, and ties them to `stage`, so that a send
that is made again stays in one place. The invariant is checked by
`messaging_fair`.

*The refinement.* `SendingImplementsTheService`: with a bound of no refusals,
`ServiceIsImplemented`. Only the server's `Apply` changes the tree; what it
applies is either an entry, which the invariant knows to lead to an opened
conversation of its pair (`Index`), or a message, which is stored nowhere else
(`OpenConversation`, `AppendTo`), or is there already (a stutter). Every other
step leaves mail and directory alone.

*What a phone has been told.* `ToldInvariant` follows knowledge from the server
to a phone: what the cache knows of the index every frame on its way knows, and
each later frame and the tree as well (`KnownGrows`); the frame that answers an
entry's write shows the entry (`AnswersTell`, which counts answers to pair them
with writes, and `AppliedPointers`); a finished opener's two entries are in the
tree or outstanding (`OpenersAnnounce`). Hence `ViewNeverForgets`
(`ConversationsAreNotForgotten`): when the phone's own write stops covering an
entry, the cache has it. And `SoleConversationIsShared`
(`BothSidesFindTheConversation`): when nothing is outstanding the entries are in
the tree, and by `IndexSafe` they lead to the only conversation there is.

### RealtimeClients

`LastWriteWinsHolds`, `AcknowledgedIsDurableHolds`, `OwnViewMovesForwardHolds`,
`ClientsTypeCorrect` and `ClientsConverge`, from `RealtimeClientsAssumption`
and `DatabaseAssumption`. The age of a write is its place among the writes
issued at its path. `ClientsInvariant` says that the outstanding writes of a
path are in the order of issue (`PutsInOrder`) and that the latest of them is
the last that was issued (`LatestIsLast`), or, when none is left, that tree,
frames and cache hold the last one (`TreeFollows`, `CacheFollows`). The step
that needs most is an answer that settles the last outstanding write of a path:
nothing outstanding protects the view any more, so every frame that is still on
its way must already show that write. `FramesFollow` says so: a function f
gives, for each outstanding write that was answered on this connection, the
frame with its answer, in the same order, and each frame shows the last write
that was answered in it or before (`Showing`). `Truthful` ties an answer *ok*
to the tree, and `ReportedIsStored` keeps it true when the write is gone:
whatever is still outstanding is newer. After a refusal only order and truth
remain, which is all that `AcknowledgedIsDurable` needs.

### ReadMarks

`MarksAreFounded` (`ReadWasReceived`), with refusals. A mark in the tree comes
from an outstanding write, that from a block, and that from what a phone knew.
Nothing stored disappears (`NothingDisappears`: tree, frames and caches only
grow), so what the block found is still known when the write is made
(`BlocksAreFounded`) and when it is applied, however late
(`WritesAreFounded`). `Paths` is finite because the marks of one visit are made
one after another.

`LeavingMarks` (`LeftMeansRead`), as long as nothing was refused.
`ShownIsFollowed` follows each message that was on the screen when the chat was
left: its read is still to be answered, or it is in a block, or its mark is
outstanding, or it was applied, or it is `lost`: the end of the process takes a
read and a block with it, but no outstanding mark, and what the phone sees as
read has one or has been told so by the server (`SeenIsMarked`). It is in the
block because what was on the screen is still known (`ShownIsKnown`, by
`NothingDisappears`). A mark that was applied stays, unless a write of the
whole message is applied after it, which then finds the message there
(`sentAgain`): only its author's one call writes it (`UnreadIsComposed`), and
`AppliedIsMarked` says so of the marks whose answer is still on its way.
`MarksTypeCorrect` is the types' theorem.

### ChatScreen

`ScreenTypeCorrect`, `NothingElseHidesAMessage` (`OnlyAPhotoHidesAMessage`),
`TableCatchesUp` (`SettledTableIsCurrent`) and `TwiceMeansTwoListeners`
(`OncePerListener`), from `ScreenInvariant`. The argument counts. Every object
a listener made waits once on the main queue or was handled (`QueueIsTold`);
rows are handled objects (`RowsAreHandled`), as many as there are handled
objects (`RowsAreCounted`), and only a photo is in two of them (`OnePhotoRow`).
If a handled object has no row, two rows are of one object: a photo's. The late
write of an image keeps the count and puts a photo where something was; an
append adds one to both sides; a sort rearranges. For the table, each append
leaves its own reload on the queue (`ReloadComes`). A location is written once:
its read is answered once, and its write waits on the queue once
(`WritesInvariant`). `RowsExist` says what no code checks: a row number that
was captured earlier is never past the end of the array, since the array never
gets shorter.

### ConversationList

`ListTypeCorrect` and `ListIsCurrent` (`SettledListIsCurrent`), from
`ListInvariant`, for any set of keys and any clocks. Two things are under way to
the rows. Reports: the last one on the queue for a listed conversation has all
that has arrived there, or there is none and the last message is right
(`ReportsArePending`). Reloads: rows and array differ only while a reload is
queued (`ReloadPending`). A conversation with a last message is in the array of
items and its message is one that arrived (`LastIsShown`), so the sort after
each report has every row, and a later report with an older malformed key may
take nothing back. That a new peer's look-ups are alone on the queue
(`QueueFits`) keeps `progress` and `location` true to the block that runs.
A chosen last message exists because what has arrived is bounded
(`KeysAreBounded`).

### Session

`SessionTypeCorrect`, `ConversationsAreOfASession`, `LoggedOutStaysOut`: a
log-out ends a session and makes a new window before anything else runs on the
main thread, so an answer that is still of the window in front was given to the
session that is there (`Signed`, `GoodCall`, `GoodBlock`); a start-up login runs
alone (`OnlyStart`). For `LogOutIsFinal`, whatever can still sign somebody in, a
call, a callback or the credentials, is of an account in `entered`
(`EnteredInvariant`); between the two steps of a log-out only an account that is
under way can sign in (`LateSession`), and those `Forget` leaves in `entered`.
`CredentialsFollowTheSession`: while nothing overlapped, at most one call or
block is under way (`Alone`), and its account is the session's.
`AppPartsProofs` has these and the ones of the conversation list and of the read
marks.

### SkipList

`NoKeyIsMissed` (`NoKeyIsPassedOver`), in `StorageProofs`, for any number of
keys and any height. It needs no induction along the list: on level 0 the link
of each linked node leads to its neighbour (`Neighbours`); on the levels above,
links lead to greater nodes that are linked on all lower levels (`LevelsNest`).
`prev` stays right because nobody else writes, a node is published after its
own link is set, and a reader's place in a search is below its target with no
present key in between on the level it came from.

### LRUCache

`EntriesAreFreedInTime` (`FreedWhenUnreachable`) and `TheListIsExact`
(`ListIsExact`, the first part of `LeastRecentlyUsedIsExact`): `refs` is the
number of the callers' handles and one more for an entry in the cache; the hash
table has exactly the entries in the cache; the list has, each once, those of
them that nobody holds; and what is erased to make room was in the cache. Both
are in `StorageProofs`, as are the theorems of the queue.

### WriteQueue

`WriteQueueTypeCorrect`, which includes that level 0 never gets more tables than
its stop, and `TheLogIsTheQueue` (`LogIsTheQueue`), for any threads, calls and
faults. `ThreadInvariant`: a thread is in the queue, once, from its call until
it is answered, and only the head's thread does anything but wait
(`ThreadsAreQueued`); there is a group exactly while it is written, and a call
in it that asks for a sync is led by one that does (`GroupIsWritten`); a full
memtable that waits for its flush has room at level 0 (`RoomAtLevel0`).
`LogInvariant`: the queue is the end of all the calls there were, no two of them
the same (`QueueIsTheRest`); the log has calls up to the place where the queue
begins, or where the group that was just written ends, in their order
(`LogIsOrdered`). So a group that is added comes right behind what is there, and
leaves the queue before the next is formed. `AnsweredIsWritten` holds for the
group that was written before anybody is told. A failed sync leaves its record
in the log although its group is answered with an error, which the order allows.

### LevelDB

From `LevelsAssumption` (some levels, a flush may not go below them, batches are
finite sequences of puts and deletions, the bounds are numbers), for any keys,
batches, levels, readers and restarts.

*The files* (`LevelDBFilesProofs`): `LevelDBTypeCorrect` and
`LevelDBFilesInUseExist` (`FilesInUseExist`), whatever fails. `FilesInUseExist`
is not inductive: what `DeleteObsoleteFiles` spares are the tables of the version
in memory, but a restart needs those of the version on disk. `Books` ties the two
together. While no write has failed the manifest's version is the one in use, or
one record ahead of it (`Ahead`), the record of the flush or the compaction that
is about to install it; after a failed write nothing is deleted any more. Every
number in use is below the counter, in memory while the database is open, in the
manifest otherwise (`ManifestBooks`), so the tables `Open` builds out of the logs
overwrite none that the manifest names, even if an earlier `Open` was interrupted
after it had built some (`CounterPasses`, `CounterGrows`).

*The contents* (`LevelDBProofs`): `LevelDBReadsAreCurrent` (`ReadsAreCurrent`),
`LevelDBRecoveryFindsEverything` (`RecoveryFindsEverything`) and
`LevelDBLevelsAreDisjoint` (`LevelsAreDisjoint`). No table has to be read to
the end for them. A version is `Good` if whatever `Version::Get` looks at first
has of no key a newest entry older than what comes after it has, and the tables
of a level do not meet. It is `Complete` for some entries if of each a newer
one, or itself, is stored, or its key was deleted and nothing of the key is
left: that is what makes a compaction's drop rules right. It is `Consistent`
under the logs from a number on if it is both, for what those logs do not hold,
and older than they are. `Contents` says so of the version in use (`Tree`), of
the one on disk (`Disk`) and of the one a running flush or compaction is about
to make (`Flushing`, `Compacting`), each under its own log number, and of what
each reader pinned, with its memtables, up to its sequence number (`Viewing`).
Then:

- a flush may put its table on any level `PickLevelForMemTableOutput` chooses,
  since every table above it and on its level is older and, below level 0, does
  not meet it (`WhereNew`);
- a compaction's inputs are closed under meeting on both levels (`Connected`), so
  its outputs meet no other table of their level; a deletion it drops had nothing
  under the inputs (`Deep`), and a table that a flush has put at their levels or
  deeper since does not meet them (`CompFits`);
- `Open` puts the logs' tables on level 0 in the order of the logs (`Rebuilt`).

Once a write has failed, a memtable may be both in a table and in a log that is
replayed. `Twins` allows a table that is built again with the same entries, and
nothing else. A power cut may break that (item 6 above), so the three are stated
for `faults = 0 \/ ~TornLogs`; `LevelsAreDisjoint` itself speaks of `faults = 0`
only and needs no further condition.

### Model-checked only

- Liveness and everything under fairness (`EventuallyAgrees`, `WritesArrive`,
  `SendsSettle`, `ConversationsGetShown`, `FormComesBack`, `MessagesGetShown`,
  `WritesAreAnswered`), which is out of the prover's reach.
- The charge in `LeastRecentlyUsedIsExact`: that `usage` is the sum of the
  charges needs induction over data.
- `IteratorShowsTheTable` and `GetFindsTheNewest`: what the recursive functions
  of `Table` (the search over restart points, the parse of a block, the skip of
  empty blocks) compute for every table is induction over data.
- `ReadsWhatWasWritten` and `IteratorIsTheView`: no theorem. The reader of
  `RecordLog` adds up sizes with a fold, and both compare a position with a
  sequence that a filter or a merge makes, of which the provers know nothing
  without induction.

The type invariants that no theorem names document their modules' variables.

## 6. Not modelled

- *Database client*: transactions, `onDisconnect`, queries with limits,
  priorities, cache eviction, listeners that come and go: the app uses none of
  them, or in a way that is equal to a fixed set of listeners. Authentication
  of the connection, `FTupleUserCallback` bookkeeping and JSON are abstracted.
- *Sending*: `uploadMessage` asks for the current user again after a photo's
  upload; an account change in between would file it for the other account.
  `Messaging` has one account on each phone.
- *Chat screen*: a second screen on the same peer, the pickers and segues; a
  photo whose bytes are no image, with which the row is reloaded for ever.
- *Conversation list*: the sound of an unread message; a tap between the sort
  and its reload, which opens the conversation of another row; the data race on
  the Swift array as corrupted memory.
- *Contacts*: an append and a reload in one block of the main thread for each
  user. *Location picking*: one flag, set and read on the main thread. Both have
  nothing a property could say beyond their guards.
- *LevelDB*: manual `CompactRange`, snapshots, `reuse_logs`, the directory's
  sync, writes torn in the middle of a file, shutdown, filters (`APLevelDB.mm`
  sets no policy), compression and checksums of blocks, `env_posix`, repair.
- *AR view* (floating-point geometry), styling, dependency injection.
- *Other vendored code*: Auth and Storage appear as the outcomes of the calls
  the app makes. Most of the C, C++ and header lines of the repository are
  headers of Firebase, nanopb, GTMSessionFetcher and leveldb's ports, bindings
  and tools that the app never calls; a model of them would say nothing of this
  program.

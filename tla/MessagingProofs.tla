-------------------------- MODULE MessagingProofs ---------------------------
(***************************************************************************)
(* Theorems about Messaging, for any users, messages and faults: its types *)
(* and what a phone knows of its index; the inductive invariant            *)
(* SafetyInvariant and what follows from it; that the server's side of     *)
(* sending implements ChatService; and, from ToldInvariant, that a phone   *)
(* forgets no conversation and both sides find one that nobody rivals.     *)
(***************************************************************************)
EXTENDS Messaging, SequenceTheorems, TLAPS

\* The lemmas about the database, for the instance DB of it.
DBP == INSTANCE RealtimeDatabaseProofs WITH
           Clients <- Users, Paths <- Pointers \union Entries, Values <- Messages,
           Watch <- OwnIndex, Callers <- Messages

-----------------------------------------------------------------------------
(* The two instances of the database are the same *)

\* The predicates the lemmas speak of.
LEMMA SamePredicates ==
  /\ DB!DbInit <=> DBP!DbInit
  /\ DB!DbTypeOK <=> DBP!DbTypeOK
  /\ DB!CacheConverges <=> DBP!CacheConverges
  /\ \A u \in Users : \A p : DB!View(u, p) = DBP!View(u, p)
<1>1. DB!DbInit <=> DBP!DbInit
  BY DEF DB!DbInit, DBP!DbInit, DB!FaultKinds, DBP!FaultKinds
<1>2. DB!DbTypeOK <=> DBP!DbTypeOK
  BY DEF DB!DbTypeOK, DBP!DbTypeOK, DB!Trees, DBP!Trees, DB!Stored, DBP!Stored,
         DB!Put, DBP!Put, DB!Frames, DBP!Frames, DB!Answers, DBP!Answers,
         DB!Block, DBP!Block, DB!FaultKinds, DBP!FaultKinds
<1>3. DB!CacheConverges <=> DBP!CacheConverges
  BY DEF DB!CacheConverges, DBP!CacheConverges, DB!Newest, DBP!Newest,
         DB!Watched, DBP!Watched
<1>4. \A u \in Users : \A p : DB!View(u, p) = DBP!View(u, p)
  BY DEF DB!View, DBP!View, DB!Pending, DBP!Pending, DB!Latest, DBP!Latest
<1>5. QED
  BY <1>1, <1>2, <1>3, <1>4

\* The same of the next state.
LEMMA SamePredicatesNext ==
  /\ DB!DbTypeOK' <=> DBP!DbTypeOK'
  /\ DB!CacheConverges' <=> DBP!CacheConverges'
<1>1. DB!DbTypeOK' <=> DBP!DbTypeOK'
  BY DEF DB!DbTypeOK, DBP!DbTypeOK, DB!Trees, DBP!Trees, DB!Stored, DBP!Stored,
         DB!Put, DBP!Put, DB!Frames, DBP!Frames, DB!Answers, DBP!Answers,
         DB!Block, DBP!Block, DB!FaultKinds, DBP!FaultKinds
<1>2. DB!CacheConverges' <=> DBP!CacheConverges'
  BY DEF DB!CacheConverges, DBP!CacheConverges, DB!Newest, DBP!Newest,
         DB!Watched, DBP!Watched
<1>3. QED
  BY <1>1, <1>2

\* The actions they speak of.
LEMMA SameActions ==
  ASSUME NEW u \in Users
  PROVE  /\ DB!Connect(u) <=> DBP!Connect(u)
         /\ DB!Drop(u) <=> DBP!Drop(u)
         /\ DB!Crash(u) <=> DBP!Crash(u)
         /\ DB!Deliver(u) <=> DBP!Deliver(u)
         /\ DB!Apply(u) <=> DBP!Apply(u)
         /\ DB!Refuse(u) <=> DBP!Refuse(u)
<1> USE DEF DB!Frame, DBP!Frame, DB!Watched, DBP!Watched, DB!Spend, DBP!Spend,
            DB!HasNextPut, DBP!HasNextPut, DB!NextPut, DBP!NextPut
<1>1. DB!Connect(u) <=> DBP!Connect(u)
  BY DEF DB!Connect, DBP!Connect
<1>2. DB!Drop(u) <=> DBP!Drop(u)
  BY DEF DB!Drop, DBP!Drop
<1>3. DB!Crash(u) <=> DBP!Crash(u)
  BY DEF DB!Crash, DBP!Crash
<1>4. DB!Deliver(u) <=> DBP!Deliver(u)
  BY DEF DB!Deliver, DB!Settle, DBP!Deliver, DBP!Settle
<1>5. DB!Apply(u) <=> DBP!Apply(u)
  BY DEF DB!Apply, DBP!Apply
<1>6. DB!Refuse(u) <=> DBP!Refuse(u)
  BY DEF DB!Refuse, DBP!Refuse
<1>7. QED
  BY <1>1, <1>2, <1>3, <1>4, <1>5, <1>6

\* What the lemmas assume of the database's constants holds of this instance.
LEMMA DatabaseConstants ==
  /\ OwnIndex \in [Users -> SUBSET (Pointers \union Entries)]
  /\ MaxFaults \in [DBP!FaultKinds -> Nat]
  BY MessagingAssumption DEF OwnIndex, Pointers, DBP!FaultKinds

\* A step of the network or a crash keeps the types of the database.
LEMMA DatabaseStepType ==
  ASSUME DB!DbTypeOK, NEW u \in Users,
         DB!Progress(u) \/ DB!Fault(u) \/ DB!Crash(u)
  PROVE  DB!DbTypeOK'
<1>1. DBP!DbTypeOK
  BY SamePredicates
<1>2. DBP!DbTypeOK'
  <2>1. CASE DB!Connect(u)
    BY <1>1, <2>1, SameActions, DatabaseConstants, DBP!ConnectType
  <2>2. CASE DB!Apply(u)
    BY <1>1, <2>2, SameActions, DatabaseConstants, DBP!ApplyType
  <2>3. CASE DB!Deliver(u)
    BY <1>1, <2>3, SameActions, DatabaseConstants, DBP!DeliverType
  <2>4. CASE DB!Drop(u)
    BY <1>1, <2>4, SameActions, DatabaseConstants, DBP!DropType
  <2>5. CASE DB!Refuse(u)
    BY <1>1, <2>5, SameActions, DatabaseConstants, DBP!RefuseType
  <2>6. CASE DB!Crash(u)
    BY <1>1, <2>6, SameActions, DatabaseConstants, DBP!CrashType
  <2>7. QED
    BY <2>1, <2>2, <2>3, <2>4, <2>5, <2>6 DEF DB!Progress, DB!Fault
<1>3. QED
  BY <1>2, SamePredicatesNext

-----------------------------------------------------------------------------
(* Type correctness *)

\* An outstanding write more keeps the type of the queue of writes.
LEMMA WriteType ==
  ASSUME DB!DbTypeOK, NEW m \in Messages, NEW p \in Pointers \union Entries,
         NEW v \in Messages, NEW k \in Messages \union {Nobody}, Write(m, p, v, k)
  PROVE  puts' \in [Users -> Seq(DB!Put)]
<1>1. [path |-> p, value |-> v, caller |-> k] \in DB!Put
  BY DEF DB!Put, DB!Stored
<1>2. puts \in [Users -> Seq(DB!Put)] /\ From[m] \in Users
  BY MessagingAssumption DEF DB!DbTypeOK
<1>3. Append(puts[From[m]], [path |-> p, value |-> v, caller |-> k]) \in Seq(DB!Put)
  BY <1>1, <1>2, AppendProperties
<1>4. QED
  BY <1>2, <1>3 DEF Write, DB!Enqueue

\* A block less keeps the types of everything but the writes.
LEMMA RunBlockType ==
  ASSUME DB!DbTypeOK, NEW u \in Users, DB!RunBlock(u), puts' \in [Users -> Seq(DB!Put)]
  PROVE  DB!DbTypeOK'
<1>1. blocks[u] \in Seq(DB!Block) /\ blocks[u] # <<>>
  BY DEF DB!DbTypeOK, DB!RunBlock
<1>2. Tail(blocks[u]) \in Seq(DB!Block)
  BY <1>1, HeadTailProperties
<1>3. QED
  BY <1>2 DEF DB!DbTypeOK, DB!RunBlock, DB!Trees, DB!Frames

\* The oldest block of a main queue is a block.
LEMMA HeadBlockType ==
  ASSUME DB!DbTypeOK, NEW m \in Messages, blocks[From[m]] # <<>>
  PROVE  BlockOf(m) \in DB!Block
<1>1. blocks[From[m]] \in Seq(DB!Block)
  BY MessagingAssumption DEF DB!DbTypeOK
<1>2. QED
  BY <1>1, HeadTailProperties DEF BlockOf

\* A step that leaves the database alone keeps its types.
LEMMA UnchangedType ==
  ASSUME DB!DbTypeOK, UNCHANGED dbVars
  PROVE  DB!DbTypeOK'
  BY DEF DB!DbTypeOK, dbVars, DB!Trees, DB!Frames, DB!Put, DB!Block, DB!Stored,
         DB!Answers, DB!FaultKinds

\* A read through the library keeps the types: what it answers may be stored.
LEMMA ReadPointerType ==
  ASSUME DB!DbTypeOK, NEW m \in Messages, ReadPointer(m)
  PROVE  DB!DbTypeOK'
<1> DEFINE u == From[m]
           p == Pointer(From[m], To[m])
           b == [caller |-> m, answer |-> "value", value |-> DB!View(u, p)]
<1>1. u \in Users /\ p \in Pointers
  BY MessagingAssumption DEF Pointers
<1>2. DBP!View(u, p) \in DBP!Stored
  BY <1>1, SamePredicates, DatabaseConstants, DBP!ViewType
<1>3. DB!View(u, p) \in DB!Stored
  BY <1>1, <1>2, SamePredicates DEF DB!Stored, DBP!Stored
<1>4. b \in DB!Block
  BY <1>3 DEF DB!Block
<1>5. blocks[u] \in Seq(DB!Block)
  BY <1>1 DEF DB!DbTypeOK
<1>6. Append(blocks[u], b) \in Seq(DB!Block)
  BY <1>4, <1>5, AppendProperties
<1>7. blocks' \in [Users -> Seq(DB!Block)]
  BY <1>1, <1>6 DEF DB!DbTypeOK, ReadPointer, DB!Observe
<1>8. QED
  BY <1>7 DEF DB!DbTypeOK, ReadPointer, DB!Observe, DB!Trees, DB!Frames

\* Every step of Messaging keeps the types.
LEMMA StepType ==
  ASSUME TypeOK, [Next]_vars
  PROVE  TypeOK'
<1>1. DB!DbTypeOK'
  <2>1. CASE UNCHANGED vars
    BY <2>1, UnchangedType DEF TypeOK, vars
  <2>2. ASSUME NEW m \in Messages, Compose(m) \/ Uploaded(m) \/ UploadFailed(m)
        PROVE  DB!DbTypeOK'
    BY <2>2, UnchangedType DEF TypeOK, Compose, Uploaded, UploadFailed
  <2>3. ASSUME NEW m \in Messages, ReadPointer(m)
        PROVE  DB!DbTypeOK'
    BY <2>3, ReadPointerType DEF TypeOK
  <2>4. ASSUME NEW m \in Messages, AppendMessage(m)
        PROVE  DB!DbTypeOK'
    <3>1. BlockOf(m).value \in Messages
      BY <2>4, HeadBlockType DEF TypeOK, AppendMessage, HasBlock, DB!Block, DB!Stored
    <3>2. Entry(BlockOf(m).value, m) \in Entries
      BY <3>1 DEF Entries
    <3>3. puts' \in [Users -> Seq(DB!Put)]
      BY <2>4, <3>2, WriteType DEF TypeOK, AppendMessage
    <3>4. QED
      BY <2>4, <3>3, RunBlockType, MessagingAssumption DEF TypeOK, AppendMessage
  <2>5. ASSUME NEW m \in Messages, CreateConversation(m)
        PROVE  DB!DbTypeOK'
    <3>1. Entry(m, m) \in Entries
      BY DEF Entries
    <3>2. puts' \in [Users -> Seq(DB!Put)]
      BY <2>5, <3>1, WriteType DEF TypeOK, CreateConversation
    <3>3. QED
      BY <2>5, <3>2, RunBlockType, MessagingAssumption DEF TypeOK, CreateConversation
  <2>6. ASSUME NEW m \in Messages, Appended(m)
        PROVE  DB!DbTypeOK'
    <3>1. puts' \in [Users -> Seq(DB!Put)]
      BY <2>6 DEF TypeOK, DB!DbTypeOK, Appended
    <3>2. QED
      BY <2>6, <3>1, RunBlockType, MessagingAssumption DEF TypeOK, Appended
  <2>7. ASSUME NEW m \in Messages, PublishToSelf(m)
        PROVE  DB!DbTypeOK'
    <3>1. Pointer(From[m], To[m]) \in Pointers
      BY MessagingAssumption DEF Pointers
    <3>2. puts' \in [Users -> Seq(DB!Put)]
      BY <2>7, <3>1, WriteType DEF TypeOK, PublishToSelf
    <3>3. QED
      BY <2>7, <3>2, RunBlockType, MessagingAssumption DEF TypeOK, PublishToSelf
  <2>8. ASSUME NEW m \in Messages, PublishToPeer(m)
        PROVE  DB!DbTypeOK'
    <3>1. Pointer(To[m], From[m]) \in Pointers
      BY MessagingAssumption DEF Pointers
    <3>2. puts' \in [Users -> Seq(DB!Put)]
      BY <2>8, <3>1, WriteType DEF TypeOK, PublishToPeer
    <3>3. QED
      BY <2>8, <3>2 DEF TypeOK, DB!DbTypeOK, PublishToPeer, DB!Trees, DB!Frames
  <2>9. ASSUME NEW u \in Users, Network(u) \/ Crash(u)
        PROVE  DB!DbTypeOK'
    BY <2>9, DatabaseStepType DEF TypeOK, Network, Crash
  <2>10. QED
    BY <2>1, <2>2, <2>3, <2>4, <2>5, <2>6, <2>7, <2>8, <2>9 DEF Next, Send
<1>2. stage' \in [Messages -> Stages]
  <2>1. CASE UNCHANGED vars
    BY <2>1 DEF TypeOK, vars
  <2>2. ASSUME NEW m \in Messages, Compose(m) \/ Send(m)
        PROVE  stage' \in [Messages -> Stages]
    <3>1. \E s \in Stages : Move(m, s)
      BY <2>2 DEF Compose, Send, Uploaded, UploadFailed, ReadPointer, AppendMessage,
            CreateConversation, Appended, PublishToSelf, PublishToPeer, Stages,
            UnderWay, Over
    <3>2. QED
      BY <3>1 DEF Move, TypeOK
  <2>3. ASSUME NEW u \in Users, Network(u) \/ Crash(u)
        PROVE  stage' \in [Messages -> Stages]
    BY <2>3 DEF Network, Crash, TypeOK, Stages, Over
  <2>4. QED
    BY <2>1, <2>2, <2>3 DEF Next
<1>3. QED
  BY <1>1, <1>2 DEF TypeOK

\* Every reachable state is well typed, whatever the users, the messages and
\* the number of faults.
THEOREM TypeCorrect == Spec => []TypeOK
<1>1. Init => TypeOK
  <2>1. DB!DbInit => DB!DbTypeOK
    BY SamePredicates, DatabaseConstants, DBP!InitType
  <2>2. QED
    BY <2>1 DEF Init, TypeOK, Stages
<1>2. TypeOK /\ [Next]_vars => TypeOK'
  BY StepType
<1>3. QED
  BY <1>1, <1>2, PTL DEF Spec

-----------------------------------------------------------------------------
(* No update of a user's index is missed *)

\* A step of the network or a crash leaves nobody online with old data.
LEMMA DatabaseStepConverges ==
  ASSUME DB!DbTypeOK, DB!CacheConverges, NEW u \in Users,
         DB!Progress(u) \/ DB!Fault(u) \/ DB!Crash(u)
  PROVE  DB!CacheConverges'
<1>1. DBP!DbTypeOK /\ DBP!CacheConverges
  BY SamePredicates
<1>2. DBP!CacheConverges'
  <2>1. CASE DB!Connect(u)
    BY <1>1, <2>1, SameActions, DatabaseConstants, DBP!ConnectConverges
  <2>2. CASE DB!Apply(u)
    BY <1>1, <2>2, SameActions, DatabaseConstants, DBP!ApplyConverges
  <2>3. CASE DB!Deliver(u)
    BY <1>1, <2>3, SameActions, DatabaseConstants, DBP!DeliverConverges
  <2>4. CASE DB!Drop(u) \/ DB!Crash(u)
    BY <1>1, <2>4, SameActions, DatabaseConstants, DBP!OfflineConverges
  <2>5. CASE DB!Refuse(u)
    BY <1>1, <2>5, SameActions, DatabaseConstants, DBP!RefuseConverges
  <2>6. QED
    BY <2>1, <2>2, <2>3, <2>4, <2>5 DEF DB!Progress, DB!Fault
<1>3. QED
  BY <1>2, SamePredicatesNext

\* The app's own steps concern neither the tree nor what is sent of it.
LEMMA AppStepIsLocal ==
  ASSUME NEW m \in Messages, Compose(m) \/ Send(m)
  PROVE  UNCHANGED <<tree, applied, inbox, cache, synced, online, faults>>
  BY DEF Compose, Send, Uploaded, UploadFailed, ReadPointer, AppendMessage,
         CreateConversation, Appended, PublishToSelf, PublishToPeer, DB!Observe,
         DB!RunBlock, dbVars

\* On a live connection a phone has, or is being sent, its user's index as the
\* server has it.
THEOREM IndexIsUpToDate == Spec => []CacheConverges
<1>1. Init => CacheConverges
  BY SamePredicates, DatabaseConstants, DBP!InitConverges DEF Init, CacheConverges
<1>2. TypeOK /\ CacheConverges /\ [Next]_vars => CacheConverges'
  <2> SUFFICES ASSUME TypeOK, CacheConverges, [Next]_vars
               PROVE  DB!CacheConverges'
    BY DEF CacheConverges
  <2>1. CASE \E u \in Users : Network(u) \/ Crash(u)
    BY <2>1, DatabaseStepConverges DEF TypeOK, CacheConverges, Network, Crash
  <2>2. CASE UNCHANGED <<tree, inbox, cache, online>>
    <3>1. DBP!CacheConverges
      BY SamePredicates DEF CacheConverges
    <3>2. DBP!CacheConverges'
      BY <2>2, <3>1, DatabaseConstants, DBP!CallConverges
    <3>3. QED
      BY <3>2, SamePredicatesNext
  <2>3. QED
    BY <2>1, <2>2, AppStepIsLocal DEF Next, vars, dbVars
<1>3. QED
  BY <1>1, <1>2, TypeCorrect, PTL DEF Spec

-----------------------------------------------------------------------------
(* SafetyInvariant: what the lemmas are about *)

\* The places of the tree are told apart by what they are named after.
LEMMA PathsAreDistinct ==
  /\ \A u, v, x, y : Pointer(u, v) = Pointer(x, y) => u = x /\ v = y
  /\ \A l, m, x, y : Entry(l, m) = Entry(x, y) => l = x /\ m = y
  /\ \A u, v, l, m : Pointer(u, v) # Entry(l, m)
  BY DEF Pointer, Entry

\* Every place is an index entry or a message.
LEMMA PathIsPointerOrEntry ==
  ASSUME NEW p \in Pointers \union Entries
  PROVE  \/ \E u, v \in Users : p = Pointer(u, v)
         \/ \E l, m \in Messages : p = Entry(l, m)
  BY DEF Pointers, Entries

-----------------------------------------------------------------------------
(* What a step keeps for ever *)

\* The write the server applies next is one of the client's outstanding ones.
LEMMA NextPutIsPut ==
  ASSUME TypeOK, PutsSafe, NEW u \in Users, DB!HasNextPut(u)
  PROVE  /\ applied[u] + 1 \in 1..Len(puts[u])
         /\ DB!NextPut(u) = puts[u][applied[u] + 1]
         /\ DB!NextPut(u) \in DB!Put
         /\ PutSafe(u, DB!NextPut(u))
<1>1. puts[u] \in Seq(DB!Put) /\ applied[u] \in Nat /\ Len(puts[u]) \in Nat
  BY DEF TypeOK, DB!DbTypeOK
<1>2. applied[u] + 1 \in 1..Len(puts[u])
  BY <1>1 DEF DB!HasNextPut
<1>3. puts[u][applied[u] + 1] \in DB!Put
  BY <1>1, <1>2, ElementOfSeq
<1>4. QED
  BY <1>2, <1>3 DEF DB!NextPut, PutsSafe

\* Only the server changes the tree.
LEMMA TreeChangesByApply ==
  ASSUME [Next]_vars
  PROVE  tree' = tree \/ \E u \in Users : DB!Apply(u)
<1>1. CASE \E m \in Messages : Compose(m) \/ Send(m)
  BY <1>1, AppStepIsLocal
<1>2. CASE \E u \in Users : Network(u) \/ Crash(u)
  BY <1>2 DEF Network, Crash, DB!Progress, DB!Fault, DB!Connect, DB!Deliver, DB!Settle, DB!Drop,
              DB!Refuse, DB!Crash
<1>3. CASE UNCHANGED vars
  BY <1>3 DEF vars, dbVars
<1>4. QED
  BY <1>1, <1>2, <1>3 DEF Next

\* What is stored stays stored: no write of the app removes anything.
LEMMA StoredIsKept ==
  ASSUME TypeOK, PutsSafe, [Next]_vars
  PROVE  \A l, m \in Messages : StoredAt(l, m) => StoredAt(l, m)'
<1> SUFFICES ASSUME NEW u \in Users, DB!Apply(u), NEW l \in Messages, NEW m \in Messages,
                    StoredAt(l, m)
             PROVE  StoredAt(l, m)'
  BY TreeChangesByApply DEF StoredAt
<1> DEFINE w == DB!NextPut(u)
<1>1. w \in DB!Put /\ PutSafe(u, w)
  BY NextPutIsPut DEF DB!Apply
<1>2. w.value # Absent
  BY <1>1 DEF PutSafe
<1>3. tree' = [tree EXCEPT ![w.path] = w.value]
  BY DEF DB!Apply
<1>4. tree \in [Pointers \union Entries -> DB!Stored] /\ Entry(l, m) \in Entries
  BY DEF TypeOK, DB!DbTypeOK, DB!Trees, Entries
<1>5. QED
  BY <1>2, <1>3, <1>4 DEF StoredAt

\* The number of refusals only grows.
LEMMA RefusalsAreKept ==
  ASSUME TypeOK, [Next]_vars
  PROVE  Unrefused' => Unrefused
<1>1. faults \in [{"drop", "crash", "refuse"} -> Nat]
  BY DEF TypeOK, DB!DbTypeOK, DB!FaultKinds
<1>2. CASE \E m \in Messages : Compose(m) \/ Send(m)
  BY <1>2, AppStepIsLocal DEF Unrefused
<1>3. CASE \E u \in Users : Network(u) \/ Crash(u)
  BY <1>1, <1>3 DEF Unrefused, Network, Crash, DB!Progress, DB!Fault, DB!Connect,
        DB!Deliver, DB!Settle, DB!Apply, DB!Drop, DB!Refuse, DB!Crash, DB!Spend
<1>4. CASE UNCHANGED vars
  BY <1>4 DEF vars, dbVars, Unrefused
<1>5. QED
  BY <1>2, <1>3, <1>4 DEF Next

\* So what was safe to write, to read and to be told stays safe.
LEMMA SafeIsKept ==
  ASSUME TypeOK, PutsSafe, [Next]_vars
  PROVE  /\ \A l \in Messages : \A u, v : Shared(l, u, v) => Shared(l, u, v)'
         /\ \A u \in Users : \A w \in DB!Put : PutSafe(u, w) => PutSafe(u, w)'
         /\ \A u \in Users : \A b \in DB!Block : BlockSafe(u, b) => BlockSafe(u, b)'
         /\ \A t \in DB!Trees : IndexSafe(t) => IndexSafe(t)'
<1>1. \A l, m \in Messages : StoredAt(l, m) => StoredAt(l, m)'
  BY StoredIsKept
<1>2. Unrefused' => Unrefused
  BY RefusalsAreKept
<1>3. \A l \in Messages : \A u, v : Shared(l, u, v) => Shared(l, u, v)'
  BY <1>1, <1>2 DEF Shared, Created, StoredAt, Pair
<1>4. ASSUME NEW u \in Users, NEW w \in DB!Put, PutSafe(u, w)
      PROVE  PutSafe(u, w)'
  <2>1. w.value \in Messages
    BY <1>4 DEF PutSafe, DB!Put, DB!Stored
  <2>2. QED
    BY <1>1, <1>2, <1>3, <1>4, <2>1 DEF PutSafe, Created, StoredAt, Pair
<1>5. ASSUME NEW u \in Users, NEW b \in DB!Block, BlockSafe(u, b)
      PROVE  BlockSafe(u, b)'
  <2>1. b.caller \in Messages /\ (b.value # Absent => b.value \in Messages)
    BY DEF DB!Block, DB!Stored
  <2>2. QED
    BY <1>1, <1>2, <1>3, <1>5, <2>1 DEF BlockSafe, IsStored
<1>6. ASSUME NEW t \in DB!Trees, IndexSafe(t)
      PROVE  IndexSafe(t)'
  <2>1. \A u, v \in Users : t[Pointer(u, v)] # Absent => t[Pointer(u, v)] \in Messages
    BY DEF DB!Trees, DB!Stored, Pointers
  <2>2. QED
    BY <1>3, <1>6, <2>1 DEF IndexSafe
<1>7. QED
  BY <1>3, <1>4, <1>5, <1>6

-----------------------------------------------------------------------------
(* Outstanding writes *)

\* The block a handler of m runs is a safe one.
LEMMA HeadBlockIsSafe ==
  ASSUME TypeOK, BlocksSafe, NEW m \in Messages, blocks[From[m]] # <<>>
  PROVE  BlockOf(m) \in DB!Block /\ BlockSafe(From[m], BlockOf(m))
<1>1. From[m] \in Users /\ blocks[From[m]] \in Seq(DB!Block)
  BY MessagingAssumption DEF TypeOK, DB!DbTypeOK
<1>2. BlockOf(m) \in DB!Block /\ BlockOf(m) = blocks[From[m]][1]
  BY <1>1, HeadTailProperties DEF BlockOf
<1>3. 1 \in 1..Len(blocks[From[m]])
  BY <1>1, EmptySeq
<1>4. QED
  BY <1>1, <1>2, <1>3 DEF BlocksSafe

\* When a create has been answered, by a server that refuses nothing, the
\* conversation is there.
LEMMA AnsweredCreateIsStored ==
  ASSUME TypeOK, SafetyInvariant, NEW m \in Messages, PublishToSelf(m), Unrefused
  PROVE  Created(m)
<1>1. BlockOf(m) \in DB!Block /\ BlockSafe(From[m], BlockOf(m))
  BY HeadBlockIsSafe DEF SafetyInvariant, PublishToSelf, HasBlock
<1>2. BlockOf(m).answer = "ok" /\ BlockOf(m).caller = m
  BY <1>1 DEF PublishToSelf, HasBlock, BlockSafe
<1>3. IsStored(m)
  BY <1>1, <1>2 DEF BlockSafe
<1>4. PICK l \in Messages : StoredAt(l, m)
  BY <1>3 DEF IsStored
<1>5. l = m
  BY <1>4 DEF SafetyInvariant, WrittenOnce, Written, PublishToSelf
<1>6. QED
  BY <1>4, <1>5 DEF StoredAt, Created

\* A safe write more, and all outstanding writes are still safe.
LEMMA WriteKeepsPutsSafe ==
  ASSUME TypeOK, PutsSafe, [Next]_vars, NEW m \in Messages,
         NEW p \in Pointers \union Entries, NEW v \in Messages,
         NEW k \in Messages \union {Nobody}, Write(m, p, v, k),
         PutSafe(From[m], [path |-> p, value |-> v, caller |-> k])
  PROVE  PutsSafe'
<1> DEFINE w == [path |-> p, value |-> v, caller |-> k]
<1>1. w \in DB!Put /\ From[m] \in Users
  BY MessagingAssumption DEF DB!Put, DB!Stored
<1>2. \A u \in Users : puts[u] \in Seq(DB!Put)
  BY DEF TypeOK, DB!DbTypeOK
<1>3. puts' = [puts EXCEPT ![From[m]] = Append(@, w)] /\ puts \in [Users -> Seq(DB!Put)]
  BY DEF Write, DB!Enqueue, TypeOK, DB!DbTypeOK
<1> SUFFICES ASSUME NEW u \in Users, NEW i \in 1..Len(puts'[u])
             PROVE  PutSafe(u, puts[u][i])'
  BY DEF PutsSafe
<1>4. CASE u = From[m]
  <2>1. puts'[u] = Append(puts[u], w)
    BY <1>3, <1>4
  <2>2. /\ Len(puts[u]) \in Nat /\ Len(puts'[u]) = Len(puts[u]) + 1
        /\ \A j \in 1..Len(puts[u]) : puts'[u][j] = puts[u][j]
        /\ puts'[u][Len(puts[u]) + 1] = w
    BY <1>1, <1>2, <2>1, AppendProperties, LenProperties
  <2>3. CASE i \in 1..Len(puts[u])
    <3>1. puts[u][i] \in DB!Put /\ PutSafe(u, puts[u][i])
      BY <1>2, <2>3, ElementOfSeq DEF PutsSafe
    <3>2. PICK x \in DB!Put : x = puts[u][i] /\ PutSafe(u, x)
      BY <3>1
    <3>3. PutSafe(u, x)' /\ puts'[u][i] = x
      BY <2>2, <2>3, <3>2, SafeIsKept
    <3>4. QED
      BY <3>3 DEF PutSafe
  <2>4. CASE i = Len(puts[u]) + 1
    <3>1. PutSafe(u, w)'
      BY <1>1, <1>4, SafeIsKept
    <3>2. puts'[u][i] = w
      BY <2>2, <2>4
    <3>3. QED
      BY <3>1, <3>2 DEF PutSafe
  <2>5. QED
    BY <2>2, <2>3, <2>4
<1>5. CASE u # From[m]
  <2>1. puts'[u] = puts[u]
    BY <1>3, <1>5
  <2>2. puts[u][i] \in DB!Put /\ PutSafe(u, puts[u][i])
    BY <1>2, <2>1, ElementOfSeq DEF PutsSafe
  <2>3. PICK x \in DB!Put : x = puts[u][i] /\ PutSafe(u, x)
    BY <2>2
  <2>4. PutSafe(u, x)' /\ puts'[u][i] = x
    BY <2>1, <2>3, SafeIsKept
  <2>5. QED
    BY <2>4 DEF PutSafe
<1>6. QED
  BY <1>4, <1>5

\* Without its caller, as a restart restores it, a write is as safe as before.
LEMMA RestoredPutIsSafe ==
  ASSUME NEW u \in Users, NEW w \in DB!Put, PutSafe(u, w)
  PROVE  /\ [w EXCEPT !.caller = Nobody] \in DB!Put
         /\ PutSafe(u, [w EXCEPT !.caller = Nobody])
  BY DEF DB!Put, PutSafe

\* When the writes of every user are old ones, with or without their callers,
\* they are safe.
LEMMA OldPutsAreSafe ==
  ASSUME TypeOK, PutsSafe, [Next]_vars,
         \A u \in Users : \A i \in 1..Len(puts'[u]) : \E j \in 1..Len(puts[u]) :
             \/ puts'[u][i] = puts[u][j]
             \/ puts'[u][i] = [puts[u][j] EXCEPT !.caller = Nobody]
  PROVE  PutsSafe'
<1> SUFFICES ASSUME NEW u \in Users, NEW i \in 1..Len(puts'[u])
             PROVE  PutSafe(u, puts[u][i])'
  BY DEF PutsSafe
<1>1. PICK j \in 1..Len(puts[u]) : \/ puts'[u][i] = puts[u][j]
                                   \/ puts'[u][i] = [puts[u][j] EXCEPT !.caller = Nobody]
  OBVIOUS
<1>2. puts[u][j] \in DB!Put /\ PutSafe(u, puts[u][j])
  BY ElementOfSeq DEF PutsSafe, TypeOK, DB!DbTypeOK
<1>3. PICK x \in DB!Put : PutSafe(u, x) /\ puts'[u][i] = x
  BY <1>1, <1>2, RestoredPutIsSafe
<1>4. PutSafe(u, x)'
  BY <1>3, SafeIsKept
<1>5. QED
  BY <1>3, <1>4 DEF PutSafe

\* A frame handled or a process restarted leaves old writes only.
LEMMA DatabaseStepKeepsPutsSafe ==
  ASSUME TypeOK, PutsSafe, NEW u \in Users, Network(u) \/ Crash(u)
  PROVE  PutsSafe'
<1>1. [Next]_vars
  BY DEF Next
<1>2. puts \in [Users -> Seq(DB!Put)]
  BY DEF TypeOK, DB!DbTypeOK
<1>3. CASE puts' = puts
  BY <1>1, <1>3, OldPutsAreSafe
<1>4. CASE DB!Deliver(u) /\ puts' # puts
  <2>1. puts[u] # <<>> /\ puts' = [puts EXCEPT ![u] = Tail(@)]
    BY <1>4 DEF DB!Deliver, DB!Settle
  <2>2. /\ Len(puts[u]) \in Nat /\ Len(Tail(puts[u])) = Len(puts[u]) - 1
        /\ \A i \in 1..Len(Tail(puts[u])) : Tail(puts[u])[i] = puts[u][i + 1]
    BY <1>2, <2>1, HeadTailProperties, LenProperties
  <2> SUFFICES ASSUME NEW x \in Users, NEW i \in 1..Len(puts'[x])
               PROVE  \E j \in 1..Len(puts[x]) : puts'[x][i] = puts[x][j]
    BY <1>1, OldPutsAreSafe
  <2>3. CASE x = u
    <3>1. puts'[x] = Tail(puts[u])
      BY <1>2, <2>1, <2>3
    <3>2. i + 1 \in 1..Len(puts[u]) /\ puts'[x][i] = puts[u][i + 1]
      BY <2>2, <3>1
    <3>3. QED
      BY <2>3, <3>2
  <2>4. CASE x # u
    BY <1>2, <2>1, <2>4
  <2>5. QED
    BY <2>3, <2>4
<1>5. CASE DB!Crash(u)
  <2>1. /\ puts'[u] = [i \in DOMAIN puts[u] |-> [puts[u][i] EXCEPT !.caller = Nobody]]
        /\ \A x \in Users : x # u => puts'[x] = puts[x]
    BY <1>2, <1>5 DEF DB!Crash
  <2>2. DOMAIN puts[u] = 1..Len(puts[u]) /\ Len(puts[u]) \in Nat
    BY <1>2, LenProperties
  <2>3. Len(puts'[u]) = Len(puts[u])
    BY <2>1, <2>2
  <2>4. \A i \in 1..Len(puts'[u]) :
          puts'[u][i] = [puts[u][i] EXCEPT !.caller = Nobody]
    BY <2>1, <2>2, <2>3
  <2>5. QED
    BY <1>1, <2>1, <2>3, <2>4, OldPutsAreSafe
<1>6. QED
  BY <1>3, <1>4, <1>5 DEF Network, Crash, DB!Progress, DB!Fault, DB!Connect, DB!Apply,
        DB!Drop, DB!Refuse

\* Every write the app makes is a safe one.
LEMMA PutsStaySafe ==
  ASSUME TypeOK, SafetyInvariant, [Next]_vars
  PROVE  PutsSafe'
<1> USE DEF SafetyInvariant
<1>1. ASSUME NEW m \in Messages, AppendMessage(m)
      PROVE  PutsSafe'
  <2> DEFINE l == BlockOf(m).value
  <2>1. BlockOf(m) \in DB!Block /\ BlockSafe(From[m], BlockOf(m))
    BY <1>1, HeadBlockIsSafe DEF AppendMessage, HasBlock
  <2>2. l \in Messages /\ BlockOf(m).caller = m
    BY <1>1, <2>1 DEF AppendMessage, HasBlock, DB!Block, DB!Stored
  <2>3. Shared(l, From[m], To[m])
    BY <1>1, <2>1, <2>2 DEF BlockSafe, AppendMessage
  <2>4. Entry(l, m) \in Entries
    BY <2>2 DEF Entries
  <2>5. PutSafe(From[m], [path |-> Entry(l, m), value |-> m, caller |-> m])
    BY <2>2, <2>3, PathsAreDistinct, MessagingAssumption DEF PutSafe, Shared, Pair
  <2>6. QED
    BY <1>1, <2>4, <2>5, WriteKeepsPutsSafe DEF AppendMessage
<1>2. ASSUME NEW m \in Messages, CreateConversation(m)
      PROVE  PutsSafe'
  <2>1. Entry(m, m) \in Entries
    BY DEF Entries
  <2>2. PutSafe(From[m], [path |-> Entry(m, m), value |-> m, caller |-> m])
    BY PathsAreDistinct, MessagingAssumption DEF PutSafe
  <2>3. QED
    BY <1>2, <2>1, <2>2, WriteKeepsPutsSafe DEF CreateConversation
<1>3. ASSUME NEW m \in Messages, PublishToSelf(m)
      PROVE  PutsSafe'
  <2>1. Pointer(From[m], To[m]) \in Pointers
    BY MessagingAssumption DEF Pointers
  <2>2. Unrefused => Created(m)
    BY <1>3, AnsweredCreateIsStored
  <2>3. PutSafe(From[m], [path |-> Pointer(From[m], To[m]), value |-> m, caller |-> Nobody])
    BY <2>2, PathsAreDistinct, MessagingAssumption DEF PutSafe, Shared, Pair
  <2>4. QED
    BY <1>3, <2>1, <2>3, WriteKeepsPutsSafe DEF PublishToSelf
<1>4. ASSUME NEW m \in Messages, PublishToPeer(m)
      PROVE  PutsSafe'
  <2>1. Pointer(To[m], From[m]) \in Pointers
    BY MessagingAssumption DEF Pointers
  <2>2. Unrefused => Created(m)
    BY <1>4 DEF PublishToPeer, StagesSafe
  <2>3. PutSafe(From[m], [path |-> Pointer(To[m], From[m]), value |-> m, caller |-> Nobody])
    BY <2>2, PathsAreDistinct, MessagingAssumption DEF PutSafe, Shared, Pair
  <2>4. QED
    BY <1>4, <2>1, <2>3, WriteKeepsPutsSafe DEF PublishToPeer
<1>5. CASE puts' = puts
  BY <1>5, OldPutsAreSafe
<1>6. ASSUME NEW m \in Messages, Compose(m) \/ Uploaded(m) \/ UploadFailed(m)
                                 \/ ReadPointer(m) \/ Appended(m)
      PROVE  puts' = puts
  BY <1>6 DEF Compose, Uploaded, UploadFailed, ReadPointer, Appended, DB!Observe, dbVars
<1>7. QED
  BY <1>1, <1>2, <1>3, <1>4, <1>5, <1>6, DatabaseStepKeepsPutsSafe
     DEF Next, Send, vars, dbVars

-----------------------------------------------------------------------------
(* The server's tree, what is sent of it and what is cached *)

\* The server's index stays safe.
LEMMA TreeIndexStaysSafe ==
  ASSUME TypeOK, SafetyInvariant, [Next]_vars
  PROVE  IndexSafe(tree)'
<1> USE DEF SafetyInvariant
<1>1. tree \in DB!Trees /\ IndexSafe(tree)
  BY DEF TypeOK, DB!DbTypeOK
<1>2. CASE tree' = tree
  <2>1. PICK t \in DB!Trees : t = tree /\ IndexSafe(t)
    BY <1>1
  <2>2. IndexSafe(t)' /\ tree' = t
    BY <1>2, <2>1, SafeIsKept
  <2>3. QED
    BY <2>2 DEF IndexSafe
<1>3. ASSUME NEW u \in Users, DB!Apply(u)
      PROVE  IndexSafe(tree)'
  <2> DEFINE w == DB!NextPut(u)
  <2>1. w \in DB!Put /\ PutSafe(u, w)
    BY <1>3, NextPutIsPut DEF DB!Apply
  <2>2. tree' = [tree EXCEPT ![w.path] = w.value]
    BY <1>3 DEF DB!Apply
  <2> SUFFICES ASSUME NEW x \in Users, NEW y \in Users, tree'[Pointer(x, y)] # Absent
               PROVE  Shared(tree[Pointer(x, y)], x, y)'
    BY DEF IndexSafe
  <2>3. PICK l \in Messages : l = tree'[Pointer(x, y)] /\ Shared(l, x, y)
    <3>1. Pointer(x, y) \in Pointers \union Entries
      BY DEF Pointers
    <3>2. CASE w.path = Pointer(x, y)
      BY <1>1, <2>1, <2>2, <3>1, <3>2 DEF PutSafe, DB!Put, DB!Stored, DB!Trees
    <3>3. CASE w.path # Pointer(x, y)
      BY <1>1, <2>2, <3>1, <3>3 DEF IndexSafe, DB!Trees, DB!Stored
    <3>4. QED
      BY <3>2, <3>3
  <2>4. Shared(l, x, y)'
    BY <2>3, SafeIsKept
  <2>5. QED
    BY <2>3, <2>4 DEF Shared
<1>4. QED
  BY <1>2, <1>3, TreeChangesByApply

\* Messages are only stored where they belong, in conversations that exist.
LEMMA EntriesStaySafe ==
  ASSUME TypeOK, SafetyInvariant, [Next]_vars
  PROVE  EntriesSafe'
<1> USE DEF SafetyInvariant
<1> SUFFICES ASSUME NEW l \in Messages, NEW m \in Messages, StoredAt(l, m)'
             PROVE  Pair(l) = Pair(m) /\ (Unrefused' => Created(l)')
  BY DEF EntriesSafe, Pair
<1>1. /\ Unrefused' => Unrefused
      /\ Created(l) => Created(l)'
  BY RefusalsAreKept, StoredIsKept DEF Created, StoredAt
<1>2. CASE StoredAt(l, m)
  BY <1>1, <1>2 DEF EntriesSafe
<1>3. CASE ~StoredAt(l, m)
  <2>1. PICK u \in Users : DB!Apply(u)
    BY <1>3, TreeChangesByApply DEF StoredAt
  <2> DEFINE w == DB!NextPut(u)
  <2>2. w \in DB!Put /\ PutSafe(u, w) /\ tree' = [tree EXCEPT ![w.path] = w.value]
    BY <2>1, NextPutIsPut DEF DB!Apply
  <2>3. w.path = Entry(l, m)
    BY <1>3, <2>2 DEF StoredAt, TypeOK, DB!DbTypeOK, DB!Trees
  <2>4. Pair(l) = Pair(m) /\ (l # m /\ Unrefused => Created(l))
    BY <2>2, <2>3 DEF PutSafe
  <2>5. l = m => Created(l)'
    BY DEF StoredAt, Created
  <2>6. QED
    BY <1>1, <2>4, <2>5
<1>4. QED
  BY <1>2, <1>3

\* The part of a safe index that a user listens to is safe.
LEMMA WatchedIsSafe ==
  ASSUME NEW u \in Users, NEW t \in DB!Trees, IndexSafe(t)
  PROVE  DB!Watched(t, u) \in DB!Trees /\ IndexSafe(DB!Watched(t, u))
<1>1. \A x, y \in Users : Pointer(x, y) \in Pointers \union Entries
  BY DEF Pointers
<1>2. QED
  BY <1>1 DEF DB!Watched, IndexSafe, DB!Trees, DB!Stored

\* A safe frame stays safe.
LEMMA FrameIsKept ==
  ASSUME TypeOK, PutsSafe, [Next]_vars, NEW f \in DB!Frames, FrameSafe(f)
  PROVE  FrameSafe(f)'
<1>1. f.data \in DB!Trees
  BY DEF DB!Frames
<1>2. IndexSafe(f.data)' /\ (Unrefused' => Unrefused)
  BY <1>1, SafeIsKept, RefusalsAreKept DEF FrameSafe
<1>3. QED
  BY <1>2 DEF FrameSafe

\* The frames of every step are old ones, or cut from the server's tree.
LEMMA FrameOrigin ==
  ASSUME TypeOK, [Next]_vars, NEW u \in Users, NEW i \in 1..Len(inbox'[u])
  PROVE  \/ \E j \in 1..Len(inbox[u]) : inbox'[u][i] = inbox[u][j]
         \/ inbox'[u][i].data = DB!Watched(tree', u) /\ inbox'[u][i].answer \in {"none", "ok"}
         \/ inbox'[u][i].data = DB!Watched(tree', u) /\ ~Unrefused'
<1>1. inbox \in [Users -> Seq(DB!Frames)] /\ faults \in [{"drop", "crash", "refuse"} -> Nat]
  BY DEF TypeOK, DB!DbTypeOK, DB!FaultKinds
<1>2. inbox[u] \in Seq(DB!Frames) /\ Len(inbox[u]) \in Nat
  BY <1>1, LenProperties
<1>3. CASE inbox'[u] = inbox[u]
  BY <1>3
<1>4. ASSUME NEW x \in Users, DB!Connect(x)
      PROVE  inbox'[u] = inbox[u] \/ inbox'[u] = <<DB!Frame(tree', u, "none")>>
  BY <1>1, <1>4 DEF DB!Connect, DB!Frame
<1>5. ASSUME inbox'[u] = <<DB!Frame(tree', u, "none")>>
      PROVE  inbox'[u][i].data = DB!Watched(tree', u) /\ inbox'[u][i].answer \in {"none", "ok"}
  BY <1>5 DEF DB!Frame
<1>6. ASSUME NEW x \in Users, DB!Drop(x) \/ DB!Crash(x)
      PROVE  inbox'[u] = inbox[u] \/ inbox'[u] = <<>>
  BY <1>1, <1>6 DEF DB!Drop, DB!Crash
<1>7. inbox'[u] # <<>>
  BY DEF TypeOK
<1>8. ASSUME NEW x \in Users, DB!Deliver(x)
      PROVE  \E j \in 1..Len(inbox[u]) : inbox'[u][i] = inbox[u][j]
  <2>1. CASE x = u
    <3>1. inbox[u] # <<>> /\ inbox'[u] = Tail(inbox[u])
      BY <1>1, <1>8, <2>1 DEF DB!Deliver, DB!Settle
    <3>2. /\ Len(Tail(inbox[u])) = Len(inbox[u]) - 1
          /\ \A j \in 1..Len(Tail(inbox[u])) : Tail(inbox[u])[j] = inbox[u][j + 1]
      BY <1>2, <3>1, HeadTailProperties
    <3>3. i + 1 \in 1..Len(inbox[u]) /\ inbox'[u][i] = inbox[u][i + 1]
      BY <1>2, <3>1, <3>2
    <3>4. QED
      BY <3>3
  <2>2. CASE x # u
    BY <1>1, <1>8, <2>2 DEF DB!Deliver, DB!Settle
  <2>3. QED
    BY <2>1, <2>2
<1>9. ASSUME NEW f, inbox'[u] = Append(inbox[u], f)
      PROVE  inbox'[u][i] = f \/ \E j \in 1..Len(inbox[u]) : inbox'[u][i] = inbox[u][j]
  BY <1>2, <1>9
<1>10. ASSUME NEW x \in Users, DB!Apply(x)
       PROVE  \/ inbox'[u] = inbox[u]
              \/ inbox'[u] = Append(inbox[u], DB!Frame(tree', u, "ok"))
              \/ inbox'[u] = Append(inbox[u], DB!Frame(tree', u, "none"))
  BY <1>10 DEF DB!Apply
<1>11. ASSUME NEW x \in Users, DB!Refuse(x)
       PROVE  /\ ~Unrefused' /\ tree' = tree
              /\ \/ inbox'[u] = inbox[u]
                 \/ inbox'[u] = Append(inbox[u], DB!Frame(tree, u, "refused"))
  BY <1>1, <1>11 DEF DB!Refuse, DB!Spend, Unrefused
<1>12. CASE \E m \in Messages : Compose(m) \/ Send(m)
  BY <1>3, <1>12, AppStepIsLocal
<1>13. CASE UNCHANGED vars
  BY <1>3, <1>13 DEF vars, dbVars
<1>14. CASE \E x \in Users : Network(x) \/ Crash(x)
  <2>1. PICK x \in Users : \/ DB!Connect(x) \/ DB!Apply(x) \/ DB!Deliver(x)
                           \/ DB!Drop(x) \/ DB!Refuse(x) \/ DB!Crash(x)
    BY <1>14 DEF Network, Crash, DB!Progress, DB!Fault
  <2>2. CASE DB!Connect(x)
    BY <1>3, <1>4, <1>5, <2>2
  <2>3. CASE DB!Apply(x)
    BY <1>3, <1>9, <1>10, <2>3 DEF DB!Frame
  <2>4. CASE DB!Deliver(x)
    BY <1>8, <2>4
  <2>5. CASE DB!Drop(x) \/ DB!Crash(x)
    BY <1>3, <1>6, <1>7, <2>5
  <2>6. CASE DB!Refuse(x)
    BY <1>3, <1>9, <1>11, <2>6 DEF DB!Frame
  <2>7. QED
    BY <2>1, <2>2, <2>3, <2>4, <2>5, <2>6
<1>15. QED
  BY <1>12, <1>13, <1>14 DEF Next

\* Frames stay safe.
LEMMA FramesStaySafe ==
  ASSUME TypeOK, SafetyInvariant, [Next]_vars
  PROVE  FramesSafe'
<1> USE DEF SafetyInvariant
<1> SUFFICES ASSUME NEW u \in Users, NEW i \in 1..Len(inbox'[u])
             PROVE  FrameSafe(inbox[u][i])'
  BY DEF FramesSafe
<1>1. CASE \E j \in 1..Len(inbox[u]) : inbox'[u][i] = inbox[u][j]
  <2>1. PICK j \in 1..Len(inbox[u]) : inbox'[u][i] = inbox[u][j]
    BY <1>1
  <2>2. inbox[u][j] \in DB!Frames /\ FrameSafe(inbox[u][j])
    BY ElementOfSeq DEF FramesSafe, TypeOK, DB!DbTypeOK
  <2>3. PICK f \in DB!Frames : f = inbox[u][j] /\ FrameSafe(f)
    BY <2>2
  <2>4. FrameSafe(f)' /\ inbox'[u][i] = f
    BY <2>1, <2>3, FrameIsKept
  <2>5. QED
    BY <2>4 DEF FrameSafe
<1>2. CASE /\ inbox'[u][i].data = DB!Watched(tree', u)
           /\ inbox'[u][i].answer \in {"none", "ok"} \/ ~Unrefused'
  <2>1. tree' \in DB!Trees /\ IndexSafe(tree)'
    BY TreeIndexStaysSafe, StepType DEF TypeOK, DB!DbTypeOK, DB!Trees, DB!Stored
  <2>2. \A x, y \in Users : Pointer(x, y) \in Pointers \union Entries
    BY DEF Pointers
  <2>3. IndexSafe(inbox[u][i].data)'
    BY <1>2, <2>1, <2>2 DEF IndexSafe, DB!Watched, DB!Trees
  <2>4. QED
    BY <1>2, <2>3 DEF FrameSafe
<1>3. QED
  BY <1>1, <1>2, FrameOrigin

\* What a phone has cached of an index stays safe.
LEMMA CachesStaySafe ==
  ASSUME TypeOK, SafetyInvariant, [Next]_vars
  PROVE  CachesSafe'
<1> USE DEF SafetyInvariant
<1> SUFFICES ASSUME NEW u \in Users
             PROVE  IndexSafe(cache[u])'
  BY DEF CachesSafe
<1>1. PICK t \in DB!Trees : t = cache'[u] /\ IndexSafe(t)
  <2>1. cache \in [Users -> DB!Trees] /\ IndexSafe(cache[u])
    BY DEF CachesSafe, TypeOK, DB!DbTypeOK
  <2>2. CASE cache' = cache
    BY <2>1, <2>2
  <2>3. ASSUME NEW x \in Users, DB!Deliver(x)
        PROVE  cache'[u] \in DB!Trees /\ IndexSafe(cache'[u])
    <3>1. inbox[x] \in Seq(DB!Frames) /\ inbox[x] # <<>>
      BY <2>3 DEF DB!Deliver, DB!Settle, TypeOK, DB!DbTypeOK
    <3>2. 1 \in 1..Len(inbox[x]) /\ Head(inbox[x]) = inbox[x][1]
      BY <3>1, EmptySeq
    <3>3. Head(inbox[x]).data \in DB!Trees /\ IndexSafe(Head(inbox[x]).data)
      <4>1. Head(inbox[x]) \in DB!Frames
        BY <3>1, HeadTailProperties
      <4>2. FrameSafe(Head(inbox[x]))
        BY <3>2 DEF FramesSafe
      <4>3. QED
        BY <4>1, <4>2 DEF FrameSafe, DB!Frames
    <3>4. QED
      BY <2>1, <2>3, <3>3 DEF DB!Deliver, DB!Settle
  <2>4. cache' = cache \/ \E x \in Users : DB!Deliver(x)
    BY AppStepIsLocal DEF Next, Network, Crash, DB!Progress, DB!Fault, DB!Connect,
       DB!Apply, DB!Drop, DB!Refuse, DB!Crash, vars, dbVars
  <2>5. QED
    BY <2>2, <2>3, <2>4
<1>2. IndexSafe(t)'
  BY <1>1, SafeIsKept
<1>3. QED
  BY <1>1, <1>2 DEF IndexSafe

-----------------------------------------------------------------------------
(* What has been answered has been stored *)

\* The writes a step leaves at their places, the new ones being at the end.
LEMMA AppKeepsEarlierPuts ==
  ASSUME TypeOK, NEW m \in Messages, Compose(m) \/ Send(m), NEW u \in Users
  PROVE  /\ Len(puts'[u]) >= Len(puts[u])
         /\ \A i \in 1..Len(puts[u]) : puts'[u][i] = puts[u][i]
<1>1. puts \in [Users -> Seq(DB!Put)] /\ Len(puts[u]) \in Nat
  BY LenProperties DEF TypeOK, DB!DbTypeOK
<1>2. \/ puts' = puts
      \/ \E w : puts' = [puts EXCEPT ![From[m]] = Append(@, w)]
  BY DEF Compose, Send, Uploaded, UploadFailed, ReadPointer, AppendMessage,
         CreateConversation, Appended, PublishToSelf, PublishToPeer, DB!Observe,
         dbVars, Write, DB!Enqueue
<1>3. puts'[u] = puts[u] \/ \E w : puts'[u] = Append(puts[u], w)
  BY <1>1, <1>2
<1>4. puts[u] \in Seq(DB!Put)
  BY <1>1
<1>5. QED
  BY <1>1, <1>3, <1>4

\* AppliedSafe for one user.
LEMMA AppliedStaysSafe ==
  ASSUME TypeOK, SafetyInvariant, [Next]_vars
  PROVE  AppliedSafe'
<1> USE DEF SafetyInvariant
<1>1. /\ puts \in [Users -> Seq(DB!Put)] /\ applied \in [Users -> Nat]
      /\ \A u \in Users : Len(puts[u]) \in Nat
  BY LenProperties DEF TypeOK, DB!DbTypeOK
<1>2. /\ \A l, m \in Messages : StoredAt(l, m) => StoredAt(l, m)'
      /\ Unrefused' => Unrefused
  BY StoredIsKept, RefusalsAreKept
<1> SUFFICES ASSUME NEW u \in Users
             PROVE  /\ applied'[u] <= Len(puts'[u])
                    /\ Unrefused' =>
                         \A i \in 1..applied'[u] : \A l, m \in Messages :
                             puts'[u][i].path = Entry(l, m) => StoredAt(l, m)'
  BY DEF AppliedSafe
<1>3. CASE /\ applied'[u] = applied[u] /\ Len(puts'[u]) >= Len(puts[u])
           /\ Len(puts'[u]) \in Nat
           /\ \A i \in 1..Len(puts[u]) : puts'[u][i] = puts[u][i]
  BY <1>1, <1>2, <1>3 DEF AppliedSafe
<1>4. puts' \in [Users -> Seq(DB!Put)] /\ Len(puts'[u]) \in Nat
  <2>1. TypeOK'
    BY StepType
  <2>2. puts' \in [Users -> Seq(DB!Put)]
    BY <2>1 DEF TypeOK, DB!DbTypeOK, DB!Put, DB!Stored
  <2>3. QED
    BY <2>2, LenProperties
<1>5. CASE applied'[u] = 0
  BY <1>4, <1>5
<1>6. CASE \E m \in Messages : Compose(m) \/ Send(m)
  <2>1. applied'[u] = applied[u]
    BY <1>6, AppStepIsLocal
  <2>2. /\ Len(puts'[u]) >= Len(puts[u])
        /\ \A i \in 1..Len(puts[u]) : puts'[u][i] = puts[u][i]
    BY <1>6, AppKeepsEarlierPuts
  <2>3. QED
    BY <1>3, <1>4, <2>1, <2>2
<1>7. CASE UNCHANGED vars
  BY <1>1, <1>3, <1>7 DEF vars, dbVars
<1>8. ASSUME NEW x \in Users, DB!Connect(x) \/ DB!Drop(x) \/ DB!Crash(x)
      PROVE  applied'[u] = 0 \/ (applied'[u] = applied[u] /\ puts'[u] = puts[u])
  BY <1>1, <1>8 DEF DB!Connect, DB!Drop, DB!Crash
<1>9. ASSUME NEW x \in Users, DB!Refuse(x)
      PROVE  /\ ~Unrefused'
             /\ puts'[u] = puts[u]
             /\ \/ applied'[u] = applied[u]
                \/ applied'[u] = applied[u] + 1 /\ applied[u] < Len(puts[u])
  <2>1. faults \in [{"drop", "crash", "refuse"} -> Nat]
    BY DEF TypeOK, DB!DbTypeOK, DB!FaultKinds
  <2>2. QED
    BY <1>1, <1>9, <2>1 DEF DB!Refuse, DB!HasNextPut, DB!Spend, Unrefused
<1>10. ASSUME NEW x \in Users, DB!Apply(x)
       PROVE  /\ puts'[u] = puts[u]
              /\ \/ applied'[u] = applied[u]
                 \/ /\ applied'[u] = applied[u] + 1
                    /\ applied[u] + 1 \in 1..Len(puts[u])
                    /\ \A l, m \in Messages :
                         puts[u][applied[u] + 1].path = Entry(l, m) => StoredAt(l, m)'
  <2>1. CASE x # u
    BY <1>1, <1>10, <2>1 DEF DB!Apply
  <2>2. CASE x = u
    <3> DEFINE w == DB!NextPut(u)
    <3>1. /\ applied[u] + 1 \in 1..Len(puts[u])
          /\ w = puts[u][applied[u] + 1] /\ w \in DB!Put /\ PutSafe(u, w)
      BY <1>10, <2>2, NextPutIsPut DEF DB!Apply
    <3>2. puts' = puts /\ applied'[u] = applied[u] + 1 /\ tree' = [tree EXCEPT ![w.path] = w.value]
      BY <1>1, <1>10, <2>2 DEF DB!Apply
    <3>3. \A l, m \in Messages : w.path = Entry(l, m) => StoredAt(l, m)'
      BY <3>1, <3>2 DEF StoredAt, PutSafe, TypeOK, DB!DbTypeOK, DB!Trees, DB!Put
    <3>4. QED
      BY <3>1, <3>2, <3>3
  <2>3. QED
    BY <2>1, <2>2
<1>11. ASSUME NEW x \in Users, DB!Deliver(x)
       PROVE  \/ applied'[u] = applied[u] /\ puts'[u] = puts[u]
              \/ /\ applied[u] > 0 /\ applied'[u] = applied[u] - 1
                 /\ Len(puts'[u]) = Len(puts[u]) - 1
                 /\ \A i \in 1..Len(puts'[u]) : puts'[u][i] = puts[u][i + 1]
  <2>1. CASE puts' = puts /\ applied' = applied
    BY <2>1
  <2>2. CASE /\ puts[x] # <<>> /\ applied[x] > 0
             /\ puts' = [puts EXCEPT ![x] = Tail(@)]
             /\ applied' = [applied EXCEPT ![x] = @ - 1]
    <3>1. CASE x # u
      BY <1>1, <2>2, <3>1
    <3>2. CASE x = u
      <4>1. puts'[u] = Tail(puts[u]) /\ applied'[u] = applied[u] - 1
        BY <1>1, <2>2, <3>2
      <4>2. puts[u] \in Seq(DB!Put) /\ puts[u] # <<>>
        BY <1>1, <2>2, <3>2
      <4>3. /\ Len(Tail(puts[u])) = Len(puts[u]) - 1
            /\ \A i \in 1..Len(Tail(puts[u])) : Tail(puts[u])[i] = puts[u][i + 1]
        BY <4>2, HeadTailProperties
      <4>4. QED
        BY <2>2, <3>2, <4>1, <4>3
    <3>3. QED
      BY <3>1, <3>2
  <2>3. QED
    BY <1>11, <2>1, <2>2 DEF DB!Deliver, DB!Settle
<1>12. CASE \E x \in Users : Network(x) \/ Crash(x)
  <2>1. PICK x \in Users : \/ DB!Connect(x) \/ DB!Apply(x) \/ DB!Deliver(x)
                           \/ DB!Drop(x) \/ DB!Refuse(x) \/ DB!Crash(x)
    BY <1>12 DEF Network, Crash, DB!Progress, DB!Fault
  <2>2. applied[u] \in Nat /\ Len(puts[u]) \in Nat /\ applied[u] <= Len(puts[u])
    BY <1>1 DEF AppliedSafe
  <2>3. CASE applied'[u] = applied[u] /\ puts'[u] = puts[u]
    BY <1>3, <2>2, <2>3
  <2>4. CASE DB!Connect(x) \/ DB!Drop(x) \/ DB!Crash(x)
    BY <1>5, <1>8, <2>3, <2>4
  <2>5. CASE DB!Refuse(x)
    BY <1>9, <2>2, <2>5
  <2>6. CASE DB!Apply(x)
    <3>1. CASE applied'[u] = applied[u] + 1
      <4>1. /\ puts'[u] = puts[u] /\ applied[u] + 1 \in 1..Len(puts[u])
            /\ \A l, m \in Messages :
                 puts[u][applied[u] + 1].path = Entry(l, m) => StoredAt(l, m)'
        BY <1>10, <2>2, <2>6, <3>1
      <4>2. Unrefused' => \A i \in 1..applied[u] : \A l, m \in Messages :
                            puts[u][i].path = Entry(l, m) => StoredAt(l, m)'
        BY <1>2 DEF AppliedSafe
      <4>3. \A i \in 1..applied'[u] : i \in 1..applied[u] \/ i = applied[u] + 1
        BY <2>2, <3>1
      <4>4. QED
        BY <2>2, <3>1, <4>1, <4>2, <4>3
    <3>2. QED
      BY <1>10, <2>3, <2>6, <3>1
  <2>7. CASE DB!Deliver(x)
    <3>1. CASE /\ applied[u] > 0 /\ applied'[u] = applied[u] - 1
               /\ Len(puts'[u]) = Len(puts[u]) - 1
               /\ \A i \in 1..Len(puts'[u]) : puts'[u][i] = puts[u][i + 1]
      <4>1. applied'[u] <= Len(puts'[u])
        BY <2>2, <3>1
      <4>2. \A i \in 1..applied'[u] : i + 1 \in 1..applied[u] /\ puts'[u][i] = puts[u][i + 1]
        BY <2>2, <3>1
      <4>3. QED
        BY <1>2, <4>1, <4>2 DEF AppliedSafe
    <3>2. QED
      BY <1>11, <2>3, <2>7, <3>1
  <2>8. QED
    BY <2>1, <2>4, <2>5, <2>6, <2>7
<1>13. QED
  BY <1>6, <1>7, <1>12 DEF Next

-----------------------------------------------------------------------------
(* Blocks on the main queues *)

\* What a phone believes about a peer is safe to act upon.
LEMMA ViewIsSafe ==
  ASSUME TypeOK, SafetyInvariant, NEW m \in Messages
  PROVE  LET v == DB!View(From[m], Pointer(From[m], To[m]))
         IN  v \in DB!Stored /\ (v # Absent => Shared(v, From[m], To[m]))
<1> USE DEF SafetyInvariant
<1> DEFINE u == From[m]
           p == Pointer(u, To[m])
           S == DB!Pending(u, p)
<1>1. u \in Users /\ To[m] \in Users /\ p \in Pointers \union Entries
  BY MessagingAssumption DEF Pointers
<1>2. puts[u] \in Seq(DB!Put) /\ DOMAIN puts[u] = 1..Len(puts[u])
  BY <1>1, LenProperties DEF TypeOK, DB!DbTypeOK
<1>3. CASE S = {}
  BY <1>1, <1>3 DEF DB!View, CachesSafe, IndexSafe, TypeOK, DB!DbTypeOK, DB!Trees
<1>4. CASE S # {}
  <2>1. DBP!Pending(u, p) = S /\ DBP!Latest(S) = DB!Latest(S)
    BY DEF DB!Pending, DBP!Pending, DB!Latest, DBP!Latest
  <2>2. DBP!Latest(DBP!Pending(u, p)) \in DBP!Pending(u, p)
    BY <1>1, <1>4, <2>1, SamePredicates, DatabaseConstants, DBP!LatestIsPending DEF TypeOK
  <2>3. PICK i \in S : i = DB!Latest(S)
    BY <2>1, <2>2
  <2>4. i \in 1..Len(puts[u]) /\ puts[u][i].path = p
    BY <1>2, <2>3 DEF DB!Pending
  <2>5. puts[u][i] \in DB!Put /\ PutSafe(u, puts[u][i])
    BY <1>1, <1>2, <2>4, ElementOfSeq DEF PutsSafe
  <2>6. DB!View(u, p) = puts[u][i].value
    BY <1>4, <2>3 DEF DB!View
  <2>7. QED
    BY <1>1, <2>4, <2>5, <2>6 DEF PutSafe, DB!Put
<1>5. QED
  BY <1>3, <1>4

\* A step leaves old blocks, and adds at most one at the end.
LEMMA BlockOrigin ==
  ASSUME TypeOK, SafetyInvariant, [Next]_vars, NEW u \in Users,
         NEW i \in 1..Len(blocks'[u])
  PROVE  \/ \E j \in 1..Len(blocks[u]) : blocks'[u][i] = blocks[u][j]
         \/ \E b \in DB!Block : blocks'[u][i] = b /\ BlockSafe(u, b)
<1> USE DEF SafetyInvariant
<1>1. /\ blocks \in [Users -> Seq(DB!Block)] /\ blocks[u] \in Seq(DB!Block)
      /\ Len(blocks[u]) \in Nat
  BY LenProperties DEF TypeOK, DB!DbTypeOK
<1>2. CASE blocks'[u] = blocks[u]
  BY <1>2
<1>3. ASSUME NEW b, blocks'[u] = Append(blocks[u], b)
      PROVE  blocks'[u][i] = b \/ \E j \in 1..Len(blocks[u]) : blocks'[u][i] = blocks[u][j]
  BY <1>1, <1>3
<1>4. ASSUME NEW x \in Users, DB!RunBlock(x)
      PROVE  \E j \in 1..Len(blocks[u]) : blocks'[u][i] = blocks[u][j]
  <2>1. CASE x # u
    BY <1>1, <1>4, <2>1 DEF DB!RunBlock
  <2>2. CASE x = u
    <3>1. blocks[u] # <<>> /\ blocks'[u] = Tail(blocks[u])
      BY <1>1, <1>4, <2>2 DEF DB!RunBlock
    <3>2. /\ Len(Tail(blocks[u])) = Len(blocks[u]) - 1
          /\ \A j \in 1..Len(Tail(blocks[u])) : Tail(blocks[u])[j] = blocks[u][j + 1]
      BY <1>1, <3>1, HeadTailProperties
    <3>3. i + 1 \in 1..Len(blocks[u]) /\ blocks'[u][i] = blocks[u][i + 1]
      BY <1>1, <3>1, <3>2
    <3>4. QED
      BY <3>3
  <2>3. QED
    BY <2>1, <2>2
<1>5. ASSUME NEW m \in Messages, ReadPointer(m)
      PROVE  \/ blocks'[u] = blocks[u]
             \/ \E b \in DB!Block : blocks'[u] = Append(blocks[u], b) /\ BlockSafe(u, b)
  <2> DEFINE b == [caller |-> m, answer |-> "value",
                   value |-> DB!View(From[m], Pointer(From[m], To[m]))]
  <2>1. b \in DB!Block /\ BlockSafe(From[m], b)
    BY ViewIsSafe DEF DB!Block, BlockSafe
  <2>2. blocks' = [blocks EXCEPT ![From[m]] = Append(@, b)]
    BY <1>5 DEF ReadPointer, DB!Observe
  <2>3. QED
    BY <1>1, <2>1, <2>2
<1>6. ASSUME NEW x \in Users, DB!Deliver(x)
      PROVE  \/ blocks'[u] = blocks[u]
             \/ \E b \in DB!Block : blocks'[u] = Append(blocks[u], b) /\ BlockSafe(u, b)
  <2> DEFINE frame == Head(inbox[x])
             oldest == Head(puts[x])
             b == [caller |-> oldest.caller, answer |-> frame.answer, value |-> Absent]
  <2>1. CASE blocks' = blocks
    BY <2>1
  <2>2. CASE blocks' # blocks
    <3>1. /\ frame.answer # "none" /\ puts[x] # <<>> /\ applied[x] > 0
          /\ oldest.caller # Nobody /\ blocks' = [blocks EXCEPT ![x] = Append(@, b)]
      BY <1>6, <2>2 DEF DB!Deliver, DB!Settle
    <3>2. frame \in DB!Frames /\ FrameSafe(frame)
      <4>1. inbox[x] \in Seq(DB!Frames) /\ inbox[x] # <<>>
        BY <1>6 DEF DB!Deliver, DB!Settle, TypeOK, DB!DbTypeOK
      <4>2. 1 \in 1..Len(inbox[x]) /\ frame = inbox[x][1] /\ frame \in DB!Frames
        BY <4>1, EmptySeq, HeadTailProperties
      <4>3. QED
        BY <4>2 DEF FramesSafe
    <3>3. /\ oldest \in DB!Put /\ PutSafe(x, oldest) /\ oldest = puts[x][1]
          /\ 1 \in 1..applied[x]
      <4>1. puts[x] \in Seq(DB!Put) /\ applied[x] \in Nat
        BY DEF TypeOK, DB!DbTypeOK
      <4>2. 1 \in 1..Len(puts[x]) /\ oldest = puts[x][1] /\ oldest \in DB!Put
        BY <3>1, <4>1, EmptySeq, HeadTailProperties
      <4>3. QED
        BY <3>1, <4>1, <4>2 DEF PutsSafe
    <3>4. oldest.caller \in Messages /\ From[oldest.caller] = x
      BY <3>1, <3>3 DEF DB!Put, PutSafe
    <3>5. Unrefused => IsStored(oldest.caller)
      <4>1. PICK l \in Messages, m \in Messages : oldest.path = Entry(l, m)
        BY <3>1, <3>3, PathIsPointerOrEntry DEF PutSafe, DB!Put
      <4>2. m = oldest.caller
        BY <3>1, <3>3, <4>1 DEF PutSafe
      <4>3. Unrefused => StoredAt(l, m)
        BY <3>3, <4>1 DEF AppliedSafe
      <4>4. QED
        BY <4>2, <4>3 DEF IsStored
    <3>6. b \in DB!Block
      BY <3>1, <3>2, <3>4 DEF DB!Block, DB!Frames, DB!Answers, DB!Stored
    <3>7. BlockSafe(x, b)
      BY <3>2, <3>4, <3>5 DEF BlockSafe, FrameSafe
    <3>8. QED
      BY <1>1, <3>1, <3>6, <3>7
  <2>3. QED
    BY <2>1, <2>2
<1>7. ASSUME NEW x \in Users, DB!Crash(x)
      PROVE  blocks'[u] = blocks[u] \/ blocks'[u] = <<>>
  BY <1>1, <1>7 DEF DB!Crash
<1>8. CASE \E m \in Messages : Compose(m) \/ Send(m)
  <2>1. PICK m \in Messages : Compose(m) \/ Send(m)
    BY <1>8
  <2>2. CASE blocks' = blocks
    BY <1>2, <2>2
  <2>3. CASE ReadPointer(m)
    BY <1>2, <1>3, <1>5, <2>3
  <2>4. CASE DB!RunBlock(From[m])
    BY <1>4, <2>4, MessagingAssumption
  <2>5. QED
    BY <2>1, <2>2, <2>3, <2>4 DEF Compose, Send, Uploaded, UploadFailed, AppendMessage,
       CreateConversation, Appended, PublishToSelf, PublishToPeer, dbVars
<1>9. CASE UNCHANGED vars
  BY <1>2, <1>9 DEF vars, dbVars
<1>10. CASE \E x \in Users : Network(x) \/ Crash(x)
  <2>1. PICK x \in Users : \/ blocks' = blocks
                           \/ DB!Deliver(x) \/ DB!Crash(x)
    BY <1>10 DEF Network, Crash, DB!Progress, DB!Fault, DB!Connect, DB!Apply, DB!Drop,
       DB!Refuse
  <2>2. CASE DB!Deliver(x)
    BY <1>2, <1>3, <1>6, <2>2
  <2>3. CASE DB!Crash(x)
    BY <1>2, <1>7, <2>3
  <2>4. QED
    BY <1>2, <2>1, <2>2, <2>3
<1>11. QED
  BY <1>8, <1>9, <1>10 DEF Next

\* Blocks stay safe.
LEMMA BlocksStaySafe ==
  ASSUME TypeOK, SafetyInvariant, [Next]_vars
  PROVE  BlocksSafe'
<1> USE DEF SafetyInvariant
<1> SUFFICES ASSUME NEW u \in Users, NEW i \in 1..Len(blocks'[u])
             PROVE  BlockSafe(u, blocks[u][i])'
  BY DEF BlocksSafe
<1>1. PICK b \in DB!Block : blocks'[u][i] = b /\ BlockSafe(u, b)
  <2>1. \A j \in 1..Len(blocks[u]) : blocks[u][j] \in DB!Block /\ BlockSafe(u, blocks[u][j])
    BY ElementOfSeq DEF BlocksSafe, TypeOK, DB!DbTypeOK
  <2>2. QED
    BY <2>1, BlockOrigin
<1>2. BlockSafe(u, b)'
  BY <1>1, SafeIsKept
<1>3. QED
  BY <1>1, <1>2 DEF BlockSafe

-----------------------------------------------------------------------------
(* Where a message is written, and how far its send has come *)

\* A step writes a message to a new place only when its handler found a
\* location, or opened a conversation.
LEMMA WrittenOrigin ==
  ASSUME TypeOK, SafetyInvariant, [Next]_vars, NEW l \in Messages, NEW m \in Messages,
         Written(l, m)'
  PROVE  \/ Written(l, m)
         \/ AppendMessage(m) /\ l = BlockOf(m).value
         \/ CreateConversation(m) /\ l = m
<1> USE DEF SafetyInvariant
<1>1. /\ puts \in [Users -> Seq(DB!Put)]
      /\ \A u \in Users : Len(puts[u]) \in Nat /\ puts[u] \in Seq(DB!Put)
  BY LenProperties DEF TypeOK, DB!DbTypeOK
<1>2. CASE StoredAt(l, m)' /\ ~StoredAt(l, m)
  <2>1. PICK u \in Users : DB!Apply(u)
    BY <1>2, TreeChangesByApply DEF StoredAt
  <2> DEFINE w == DB!NextPut(u)
  <2>2. /\ applied[u] + 1 \in 1..Len(puts[u]) /\ w = puts[u][applied[u] + 1]
        /\ tree' = [tree EXCEPT ![w.path] = w.value]
    BY <2>1, NextPutIsPut DEF DB!Apply
  <2>3. w.path = Entry(l, m)
    BY <1>2, <2>2 DEF StoredAt, TypeOK, DB!DbTypeOK, DB!Trees
  <2>4. QED
    BY <2>2, <2>3 DEF Written
<1>3. CASE StoredAt(l, m)
  BY <1>3 DEF Written
<1>4. CASE \E u \in Users : \E i \in 1..Len(puts'[u]) : puts'[u][i].path = Entry(l, m)
  <2>0. PICK u \in Users : \E i \in 1..Len(puts'[u]) : puts'[u][i].path = Entry(l, m)
    BY <1>4
  <2>1. PICK i \in 1..Len(puts'[u]) : puts'[u][i].path = Entry(l, m)
    BY <2>0
  <2>2. ASSUME puts'[u] = puts[u] PROVE Written(l, m)
    BY <2>1, <2>2 DEF Written
  <2>3. ASSUME NEW k \in Messages, NEW p, NEW v, NEW q, Write(k, p, v, q)
        PROVE  Written(l, m) \/ p = Entry(l, m)
    <3> DEFINE w == [path |-> p, value |-> v, caller |-> q]
    <3>1. puts'[u] = puts[u] \/ puts'[u] = Append(puts[u], w)
      BY <1>1, <2>3 DEF Write, DB!Enqueue
    <3>2. CASE puts'[u] = Append(puts[u], w)
      <4>1. \/ i \in 1..Len(puts[u]) /\ puts'[u][i] = puts[u][i]
            \/ puts'[u][i] = w
        BY <1>1, <3>2
      <4>2. QED
        BY <2>1, <4>1 DEF Written
    <3>3. QED
      BY <2>2, <3>1, <3>2
  <2>4. ASSUME NEW k \in Messages, Compose(k) \/ Send(k)
        PROVE  \/ Written(l, m)
               \/ AppendMessage(m) /\ l = BlockOf(m).value
               \/ CreateConversation(m) /\ l = m
    <3>1. CASE AppendMessage(k)
      <4>1. Written(l, m) \/ Entry(BlockOf(k).value, k) = Entry(l, m)
        BY <2>3, <3>1 DEF AppendMessage
      <4>2. QED
        BY <3>1, <4>1, PathsAreDistinct
    <3>2. CASE CreateConversation(k)
      <4>1. Written(l, m) \/ Entry(k, k) = Entry(l, m)
        BY <2>3, <3>2 DEF CreateConversation
      <4>2. QED
        BY <3>2, <4>1, PathsAreDistinct
    <3>3. CASE PublishToSelf(k)
      BY <2>3, <3>3, PathsAreDistinct DEF PublishToSelf
    <3>4. CASE PublishToPeer(k)
      BY <2>3, <3>4, PathsAreDistinct DEF PublishToPeer
    <3>5. CASE puts' = puts
      BY <2>2, <3>5
    <3>6. QED
      BY <2>4, <3>1, <3>2, <3>3, <3>4, <3>5 DEF Compose, Send, Uploaded, UploadFailed,
         ReadPointer, Appended, DB!Observe, dbVars
  <2>5. ASSUME NEW x \in Users, DB!Deliver(x)
        PROVE  Written(l, m)
    <3>1. CASE puts'[u] # puts[u]
      <4>1. x = u /\ puts[u] # <<>> /\ puts'[u] = Tail(puts[u])
        BY <1>1, <2>5, <3>1 DEF DB!Deliver, DB!Settle
      <4>2. /\ Len(Tail(puts[u])) = Len(puts[u]) - 1
            /\ \A j \in 1..Len(Tail(puts[u])) : Tail(puts[u])[j] = puts[u][j + 1]
        BY <1>1, <4>1, HeadTailProperties
      <4>3. i + 1 \in 1..Len(puts[u]) /\ puts'[u][i] = puts[u][i + 1]
        BY <1>1, <4>1, <4>2
      <4>4. QED
        BY <2>1, <4>3 DEF Written
    <3>2. QED
      BY <2>2, <3>1
  <2>6. ASSUME NEW x \in Users, DB!Crash(x)
        PROVE  Written(l, m)
    <3>1. CASE puts'[u] # puts[u]
      <4>1. puts'[u] = [j \in DOMAIN puts[u] |-> [puts[u][j] EXCEPT !.caller = Nobody]]
        BY <1>1, <2>6, <3>1 DEF DB!Crash
      <4>2. DOMAIN puts[u] = 1..Len(puts[u]) /\ Len(puts[u]) \in Nat
        BY <1>1, LenProperties
      <4>3. Len(puts'[u]) = Len(puts[u])
        BY <4>1, <4>2
      <4>4. puts[u][i] \in DB!Put /\ puts'[u][i] = [puts[u][i] EXCEPT !.caller = Nobody]
        BY <1>1, <4>1, <4>2, <4>3, ElementOfSeq
      <4>5. puts[u][i].path = Entry(l, m)
        BY <2>1, <4>4 DEF DB!Put
      <4>6. QED
        BY <4>3, <4>5 DEF Written
    <3>2. QED
      BY <2>2, <3>1
  <2>7. QED
    BY <2>2, <2>4, <2>5, <2>6 DEF Next, Network, Crash, DB!Progress, DB!Fault, DB!Connect,
       DB!Apply, DB!Drop, DB!Refuse, vars, dbVars
<1>5. QED
  BY <1>2, <1>3, <1>4 DEF Written

\* The stages a message may be in once it has been written.
WrittenStages == {"appending", "creating", "publishing"} \union Over

\* From there a send only goes on to such a stage, and none enters "creating"
\* but by CreateConversation.
LEMMA StageOfWritten ==
  ASSUME TypeOK, [Next]_vars, NEW m \in Messages
  PROVE  /\ stage[m] \in WrittenStages => stage'[m] \in WrittenStages
         /\ stage'[m] = "creating" => stage[m] = "creating" \/ CreateConversation(m)
         /\ AppendMessage(m) => stage[m] = "asked" /\ stage'[m] = "appending"
         /\ CreateConversation(m) => stage[m] = "asked" /\ stage'[m] = "creating"
<1>1. stage \in [Messages -> Stages]
  BY DEF TypeOK
<1> USE DEF WrittenStages, Over
<1>2. ASSUME NEW k \in Messages, Compose(k) \/ Send(k), k # m
      PROVE  stage'[m] = stage[m]
  BY <1>1, <1>2 DEF Compose, Send, Uploaded, UploadFailed, ReadPointer, AppendMessage,
     CreateConversation, Appended, PublishToSelf, PublishToPeer, Move
<1>3. ASSUME Compose(m) \/ Send(m)
      PROVE  /\ stage[m] \in WrittenStages => stage'[m] \in WrittenStages
             /\ stage'[m] = "creating" => CreateConversation(m)
  BY <1>1, <1>3 DEF Compose, Send, Uploaded, UploadFailed, ReadPointer, AppendMessage,
     CreateConversation, Appended, PublishToSelf, PublishToPeer, Move
<1>4. ASSUME NEW u \in Users, Network(u) \/ Crash(u)
      PROVE  stage'[m] = stage[m] \/ stage'[m] = "interrupted"
  BY <1>1, <1>4 DEF Network, Crash
<1>5. /\ AppendMessage(m) => stage[m] = "asked" /\ stage'[m] = "appending"
      /\ CreateConversation(m) => stage[m] = "asked" /\ stage'[m] = "creating"
  BY <1>1 DEF AppendMessage, CreateConversation, Move
<1>6. QED
  BY <1>2, <1>3, <1>4, <1>5 DEF Next, vars

\* A message is never written to a second place.
LEMMA WrittenStaysOnce ==
  ASSUME TypeOK, SafetyInvariant, [Next]_vars
  PROVE  WrittenOnce'
<1> USE DEF SafetyInvariant
<1> SUFFICES ASSUME NEW k \in Messages, NEW l \in Messages, NEW m \in Messages
             PROVE  /\ Written(l, m)' => stage'[m] \in WrittenStages
                    /\ Written(l, m)' /\ stage'[m] = "creating" => l = m
                    /\ Written(k, m)' /\ Written(l, m)' => k = l
  BY DEF WrittenOnce, WrittenStages, Over
<1>1. \A x \in Messages :
        /\ Written(x, m) => stage[m] \in WrittenStages
        /\ Written(x, m) /\ stage[m] = "creating" => x = m
        /\ \A y \in Messages : Written(x, m) /\ Written(y, m) => x = y
  BY DEF WrittenOnce, WrittenStages
<1>2. \A x \in Messages : Written(x, m)' =>
        \/ Written(x, m)
        \/ AppendMessage(m) /\ x = BlockOf(m).value
        \/ CreateConversation(m) /\ x = m
  BY WrittenOrigin
<1>3. /\ stage[m] \in WrittenStages => stage'[m] \in WrittenStages
      /\ stage'[m] = "creating" => stage[m] = "creating" \/ CreateConversation(m)
      /\ AppendMessage(m) => stage[m] = "asked" /\ stage'[m] = "appending"
      /\ CreateConversation(m) => stage[m] = "asked" /\ stage'[m] = "creating"
  BY StageOfWritten
<1>4. "asked" \notin WrittenStages /\ "appending" \in WrittenStages
      /\ "creating" \in WrittenStages
  BY DEF WrittenStages, Over
<1>5. QED
  BY <1>1, <1>2, <1>3, <1>4

\* A published or sent message is stored.
LEMMA StagesStaySafe ==
  ASSUME TypeOK, SafetyInvariant, [Next]_vars
  PROVE  StagesSafe'
<1> USE DEF SafetyInvariant
<1> SUFFICES ASSUME Unrefused', NEW m \in Messages
             PROVE  /\ stage'[m] = "publishing" => Created(m)'
                    /\ stage'[m] = "sent" => IsStored(m)'
  BY DEF StagesSafe
<1>1. /\ Unrefused
      /\ Created(m) => Created(m)'
      /\ IsStored(m) => IsStored(m)'
  BY RefusalsAreKept, StoredIsKept DEF Created, IsStored, StoredAt
<1>2. stage \in [Messages -> Stages]
  BY DEF TypeOK
<1>3. CASE stage'[m] = stage[m]
  BY <1>1, <1>3 DEF StagesSafe
<1>4. CASE PublishToSelf(m)
  <2>1. stage'[m] = "publishing" /\ Created(m)
    BY <1>1, <1>2, <1>4, AnsweredCreateIsStored DEF PublishToSelf, Move
  <2>2. QED
    BY <1>1, <2>1
<1>5. CASE PublishToPeer(m)
  <2>1. stage'[m] = "sent" /\ Created(m)
    BY <1>1, <1>2, <1>5 DEF PublishToPeer, Move, StagesSafe
  <2>2. QED
    BY <1>1, <2>1 DEF Created, IsStored, StoredAt
<1>6. CASE Appended(m)
  <2>1. stage'[m] = "sent" => BlockOf(m).answer = "ok"
    BY <1>2, <1>6 DEF Appended, Move
  <2>2. BlockSafe(From[m], BlockOf(m)) /\ BlockOf(m).caller = m
    BY <1>6, HeadBlockIsSafe DEF Appended, HasBlock
  <2>3. stage'[m] = "sent" => IsStored(m)
    BY <1>1, <2>1, <2>2 DEF BlockSafe
  <2>4. stage'[m] # "publishing"
    BY <1>2, <1>6 DEF Appended, Move
  <2>5. QED
    BY <1>1, <2>3, <2>4
<1>7. stage'[m] # stage[m] /\ stage'[m] \in {"publishing", "sent"}
        => PublishToSelf(m) \/ PublishToPeer(m) \/ Appended(m)
  BY <1>2 DEF Next, vars, Send, Network, Crash, Compose, Uploaded, UploadFailed, ReadPointer,
     AppendMessage, CreateConversation, Appended, PublishToSelf, PublishToPeer, Move
<1>8. QED
  BY <1>3, <1>4, <1>5, <1>6, <1>7

-----------------------------------------------------------------------------
(* The theorems *)

\* Nothing is stored, written or under way in the initial state.
LEMMA InitIsSafe == Init => SafetyInvariant
<1> SUFFICES ASSUME Init PROVE SafetyInvariant
  OBVIOUS
<1>1. /\ tree = [p \in Pointers \union Entries |-> Absent]
      /\ puts = [u \in Users |-> <<>>] /\ applied = [u \in Users |-> 0]
      /\ inbox = [u \in Users |-> <<>>] /\ blocks = [u \in Users |-> <<>>]
      /\ cache = [u \in Users |-> [p \in Pointers \union Entries |-> Absent]]
      /\ stage = [m \in Messages |-> "idle"]
  BY DEF Init, DB!DbInit
<1>2. /\ \A u, v \in Users : Pointer(u, v) \in Pointers
      /\ \A l, m \in Messages : Entry(l, m) \in Entries
  BY DEF Pointers, Entries
<1>3. /\ IndexSafe(tree) /\ CachesSafe
      /\ \A l, m \in Messages : ~StoredAt(l, m) /\ ~Written(l, m)
  BY <1>1, <1>2 DEF IndexSafe, CachesSafe, StoredAt, Written
<1>4. PutsSafe /\ BlocksSafe /\ FramesSafe /\ AppliedSafe
  BY <1>1 DEF PutsSafe, BlocksSafe, FramesSafe, AppliedSafe
<1>5. EntriesSafe /\ WrittenOnce /\ StagesSafe
  BY <1>1, <1>3 DEF EntriesSafe, WrittenOnce, StagesSafe
<1>6. QED
  BY <1>3, <1>4, <1>5 DEF SafetyInvariant

\* The inductive invariant holds in every reachable state.
THEOREM Safety == Spec => []SafetyInvariant
<1>1. Init => SafetyInvariant
  BY InitIsSafe
<1>2. TypeOK /\ SafetyInvariant /\ [Next]_vars => SafetyInvariant'
  BY TreeIndexStaysSafe, EntriesStaySafe, PutsStaySafe, BlocksStaySafe, FramesStaySafe,
     CachesStaySafe, AppliedStaysSafe, WrittenStaysOnce, StagesStaySafe
     DEF SafetyInvariant
<1>3. QED
  BY <1>1, <1>2, TypeCorrect, PTL DEF Spec

\* No index entry leads to, and no message is appended to, a conversation that
\* is not stored, as long as the server refuses nothing.
THEOREM NoPointerDangles == Spec => []NoDanglingPointer
<1>1. TypeOK /\ SafetyInvariant => NoDanglingPointer
  BY DEF SafetyInvariant, IndexSafe, EntriesSafe, Shared, NoDanglingPointer
<1>2. QED
  BY <1>1, Safety, TypeCorrect, PTL

\* No message and no index entry ever crosses over to another pair of users.
THEOREM PairsAreSeparate == Spec => []NoCrossTalk
<1>1. SafetyInvariant => NoCrossTalk
  BY DEF SafetyInvariant, IndexSafe, EntriesSafe, Shared, NoCrossTalk
<1>2. QED
  BY <1>1, Safety, PTL

\* Sent again or not, a message is stored in one place.
THEOREM MessagesAreStoredOnce == Spec => []StoredOnce
<1>1. SafetyInvariant => StoredOnce
  BY DEF SafetyInvariant, WrittenOnce, Written, StoredOnce
<1>2. QED
  BY <1>1, Safety, PTL

\* A sender is told that a message was sent only when it is stored.
THEOREM SentMessagesAreStored == Spec => []SentIsStored
<1>1. SafetyInvariant => SentIsStored
  BY DEF SafetyInvariant, StagesSafe, SentIsStored
<1>2. QED
  BY <1>1, Safety, PTL

-----------------------------------------------------------------------------
(* The service is implemented *)

Mail == {e \in Messages \X Messages : StoredAt(e[1], e[2])}
Chats == {<<From[m], To[m]>> : m \in Messages} \union {<<To[m], From[m]>> : m \in Messages}
Directory == [e \in Chats |-> tree[Pointer(e[1], e[2])]]

\* Two different users of one pair are a message's sender and recipient.
LEMMA PairIsChat ==
  ASSUME NEW l \in Messages, NEW x, NEW y, Pair(l) = {x, y}
  PROVE  <<x, y>> \in Chats
<1>1. From[l] # To[l]
  BY MessagingAssumption
<1>2. (x = From[l] /\ y = To[l]) \/ (x = To[l] /\ y = From[l])
  BY <1>1 DEF Pair
<1>3. QED
  BY <1>2 DEF Chats

\* The server setting an index entry is Index.
LEMMA PointerIsIndex ==
  ASSUME TypeOK, SafetyInvariant, Unrefused, NEW u \in Users, NEW w \in DB!Put, PutSafe(u, w),
         NEW x \in Users, NEW y \in Users, w.path = Pointer(x, y),
         tree' = [tree EXCEPT ![w.path] = w.value]
  PROVE  Mail' = Mail /\ \E e \in Chats, l \in Messages : Service!Index(e, l)
<1>0. Pointer(x, y) \in Pointers
  BY DEF Pointers
<1>1. tree \in [Pointers \union Entries -> DB!Stored] /\ w.path \in Pointers
  BY <1>0 DEF TypeOK, DB!DbTypeOK, DB!Trees
<1>2. PICK l \in Messages : l = w.value
  BY DEF PutSafe, DB!Put, DB!Stored
<1>3. Pair(l) = {x, y} /\ Created(l)
  BY <1>2 DEF PutSafe, Shared
<1>4. <<x, y>> \in Chats
  BY <1>3, PairIsChat
<1>5. \A k, m \in Messages : StoredAt(k, m)' <=> StoredAt(k, m)
  BY <1>1, PathsAreDistinct DEF StoredAt, Entries
<1>6. Mail' = Mail
  BY <1>5 DEF Mail
<1>7. Directory' = [Directory EXCEPT ![<<x, y>>] = l]
  <2>1. \A e \in Chats : Pointer(e[1], e[2]) \in Pointers
    BY MessagingAssumption DEF Chats, Pointers
  <2>2. \A e \in Chats : e = <<e[1], e[2]>>
    BY DEF Chats
  <2>3. ASSUME NEW e \in Chats
        PROVE  tree'[Pointer(e[1], e[2])] =
                   IF e = <<x, y>> THEN l ELSE tree[Pointer(e[1], e[2])]
    <3>1. Pointer(e[1], e[2]) = Pointer(x, y) <=> e = <<x, y>>
      BY <2>2, PathsAreDistinct
    <3>2. QED
      BY <1>1, <1>2, <2>1, <3>1
  <2>4. QED
    BY <1>4, <2>3 DEF Directory
<1>8. <<l, l>> \in Mail
  BY <1>3 DEF Mail, Created, StoredAt
<1>9. Service!Index(<<x, y>>, l)
  <2>1. Service!Opened(l)
    BY <1>8 DEF Service!Opened, Mail
  <2>2. Service!Pair(l) = {x, y}
    BY <1>3 DEF Service!Pair, Pair
  <2>3. QED
    BY <1>6, <1>7, <2>1, <2>2 DEF Service!Index, Mail, Directory, Chats
<1>10. QED
  BY <1>4, <1>6, <1>9

\* The server storing a message is OpenConversation or AppendTo, or it has the
\* message already.
LEMMA EntryIsMail ==
  ASSUME TypeOK, SafetyInvariant, Unrefused, NEW u \in Users, NEW w \in DB!Put, PutSafe(u, w),
         NEW l \in Messages, NEW m \in Messages, w.path = Entry(l, m), Written(l, m),
         tree' = [tree EXCEPT ![w.path] = w.value]
  PROVE  \/ UNCHANGED <<Mail, Directory>>
         \/ Service!OpenConversation(m)
         \/ Service!AppendTo(m, l)
<1>1. tree \in [Pointers \union Entries -> DB!Stored] /\ w.path \in Entries
  BY DEF TypeOK, DB!DbTypeOK, DB!Trees, Entries
<1>2. w.value # Absent
  BY DEF PutSafe
<1>3. StoredAt(l, m)'
  BY <1>1, <1>2 DEF StoredAt
<1>4. \A k, n \in Messages : k # l \/ n # m => (StoredAt(k, n)' <=> StoredAt(k, n))
  BY <1>1, PathsAreDistinct DEF StoredAt, Entries
<1>5. Mail' = Mail \union {<<l, m>>}
  <2>1. \A e \in Messages \X Messages :
            StoredAt(e[1], e[2])' <=> StoredAt(e[1], e[2]) \/ e = <<l, m>>
    <3>1. ASSUME NEW e \in Messages \X Messages
          PROVE  StoredAt(e[1], e[2])' <=> StoredAt(e[1], e[2]) \/ e = <<l, m>>
      <4>1. PICK k, n \in Messages : e = <<k, n>>
        OBVIOUS
      <4>2. StoredAt(k, n)' <=> StoredAt(k, n) \/ (k = l /\ n = m)
        BY <1>3, <1>4
      <4>3. QED
        BY <4>1, <4>2 DEF StoredAt
    <3>2. QED
      BY <3>1
  <2>2. QED
    BY <2>1 DEF Mail
<1>6. Directory' = Directory
  <2>1. \A e \in Chats : Pointer(e[1], e[2]) \in Pointers
    BY MessagingAssumption DEF Chats, Pointers
  <2>2. \A e \in Chats : tree'[Pointer(e[1], e[2])] = tree[Pointer(e[1], e[2])]
    BY <1>1, <2>1, PathsAreDistinct
  <2>3. QED
    BY <2>2 DEF Directory
<1>7. CASE StoredAt(l, m)
  <2>1. <<l, m>> \in Mail
    BY <1>7 DEF Mail
  <2>2. QED
    BY <1>5, <1>6, <2>1
<1>8. CASE ~StoredAt(l, m)
  <2>1. ~Service!Filed(m)
    <3>1. \A k \in Messages : ~StoredAt(k, m)
      BY <1>8 DEF SafetyInvariant, WrittenOnce, Written
    <3>2. QED
      BY <3>1 DEF Service!Filed
  <2>2. CASE l = m
    <3>1. Service!OpenConversation(m)
      BY <1>5, <1>6, <2>1, <2>2 DEF Service!OpenConversation, Mail, Directory, Chats
    <3>2. QED
      BY <3>1
  <2>3. CASE l # m
    <3>1. Pair(l) = Pair(m) /\ Created(l)
      BY <2>3 DEF PutSafe
    <3>2. Service!Opened(l) /\ Service!Pair(l) = Service!Pair(m)
      BY <3>1 DEF Service!Opened, Service!Pair, Pair, Created, StoredAt
    <3>3. Service!AppendTo(m, l)
      BY <1>5, <1>6, <2>1, <3>2 DEF Service!AppendTo, Mail, Directory, Chats
    <3>4. QED
      BY <3>3
  <2>4. QED
    BY <2>2, <2>3
<1>9. QED
  BY <1>7, <1>8

\* Every step is one of the service's, or changes nothing the service shows.
LEMMA StepIsService ==
  ASSUME TypeOK, SafetyInvariant, Unrefused, [Next]_vars
  PROVE  [Service!ServiceNext]_(Service!serviceVars)
<1>1. CASE tree' = tree
  BY <1>1 DEF Service!serviceVars, StoredAt
<1>2. ASSUME NEW u \in Users, DB!Apply(u) PROVE [Service!ServiceNext]_(Service!serviceVars)
  <2>1. PICK w \in DB!Put : /\ w = DB!NextPut(u) /\ PutSafe(u, w)
                            /\ applied[u] + 1 \in 1..Len(puts[u])
                            /\ w = puts[u][applied[u] + 1]
                            /\ tree' = [tree EXCEPT ![w.path] = w.value]
    BY <1>2, NextPutIsPut DEF DB!Apply, SafetyInvariant
  <2>2. w.path \in Pointers \union Entries
    BY DEF DB!Put
  <2>3. ASSUME NEW x \in Users, NEW y \in Users, w.path = Pointer(x, y)
        PROVE  Service!ServiceNext
    <3>1. \E e \in Chats, l \in Messages : Service!Index(e, l)
      BY <2>1, <2>3, PointerIsIndex
    <3>2. QED
      BY <3>1 DEF Service!ServiceNext, Chats
  <2>4. ASSUME NEW l \in Messages, NEW m \in Messages, w.path = Entry(l, m)
        PROVE  [Service!ServiceNext]_(Service!serviceVars)
    <3>1. Written(l, m)
      BY <2>1, <2>4 DEF Written
    <3>2. \/ UNCHANGED <<Mail, Directory>>
          \/ Service!OpenConversation(m)
          \/ Service!AppendTo(m, l)
      BY <2>1, <2>4, <3>1, EntryIsMail
    <3>3. QED
      BY <3>2 DEF Service!ServiceNext, Service!serviceVars, Mail, Directory, Chats
  <2>5. QED
    BY <2>2, <2>3, <2>4, PathIsPointerOrEntry
<1>3. QED
  BY <1>1, <1>2, TreeChangesByApply

\* With a server that refuses nothing, sending implements the service: a
\* message is filed once, in a conversation of its two users that was opened
\* before, and an index entry is only ever set to an opened one - through
\* overlapping sends, lost answers, restarts and writes sent again.
THEOREM SendingImplementsTheService ==
  ASSUME MaxFaults["refuse"] = 0
  PROVE  Spec => ServiceIsImplemented
<1>1. Init => Service!ServiceInit
  <2>1. ASSUME Init PROVE Service!ServiceInit
    <3>1. tree = [p \in Pointers \union Entries |-> Absent]
      BY <2>1 DEF Init, DB!DbInit
    <3>2. \A l, m \in Messages : ~StoredAt(l, m)
      BY <3>1 DEF StoredAt, Entries
    <3>3. \A e \in Chats : tree[Pointer(e[1], e[2])] = Absent
      BY <3>1, MessagingAssumption DEF Chats, Pointers
    <3>4. QED
      BY <3>2, <3>3 DEF Service!ServiceInit, Chats
  <2>2. QED
    BY <2>1
<1>2. Init => Unrefused
  BY DEF Init, DB!DbInit, DB!FaultKinds, Unrefused
<1>3. TypeOK /\ Unrefused /\ [Next]_vars => Unrefused'
  <2> SUFFICES ASSUME TypeOK, Unrefused, [Next]_vars PROVE Unrefused'
    OBVIOUS
  <2>1. faults \in [{"drop", "crash", "refuse"} -> Nat]
    BY DEF TypeOK, DB!DbTypeOK, DB!FaultKinds
  <2>2. CASE \E m \in Messages : Compose(m) \/ Send(m)
    BY <2>2, AppStepIsLocal DEF Unrefused
  <2>3. CASE \E u \in Users : Network(u) \/ Crash(u)
    BY <2>1, <2>3 DEF Unrefused, Network, Crash, DB!Progress, DB!Fault, DB!Connect,
          DB!Deliver, DB!Settle, DB!Apply, DB!Drop, DB!Refuse, DB!Crash, DB!Spend
  <2>4. CASE UNCHANGED vars
    BY <2>4 DEF vars, dbVars, Unrefused
  <2>5. QED
    BY <2>2, <2>3, <2>4 DEF Next
<1>4. TypeOK /\ SafetyInvariant /\ Unrefused /\ [Next]_vars
        => [Service!ServiceNext]_(Service!serviceVars)
  BY StepIsService
<1>5. QED
  BY <1>1, <1>2, <1>3, <1>4, TypeCorrect, Safety, PTL
     DEF Spec, ServiceIsImplemented, Service!ServiceSpec


-----------------------------------------------------------------------------
(* What a phone has been told *)

\* A phone knows no less of its index the newer the data: what it has cached,
\* what is on its way to it, and what the server has.
KnownGrows ==
    \A u, v \in Users :
        LET p == Pointer(u, v) IN
        /\ cache[u][p] # Absent => tree[p] # Absent
        /\ \A j \in 1..Len(inbox[u]) :
               /\ cache[u][p] # Absent => inbox[u][j].data[p] # Absent
               /\ inbox[u][j].data[p] # Absent => tree[p] # Absent
               /\ \A k \in 1..Len(inbox[u]) :
                      j <= k /\ inbox[u][j].data[p] # Absent => inbox[u][k].data[p] # Absent

\* f counts the answers up to each frame on its way to u: as many as u has
\* writes that the server applied.
Counts(f, u) ==
    /\ f \in [0..Len(inbox[u]) -> 0..applied[u]]
    /\ f[0] = 0 /\ f[Len(inbox[u])] = applied[u]
    /\ \A j \in 1..Len(inbox[u]) :
           f[j] = f[j - 1] + IF inbox[u][j].answer = "none" THEN 0 ELSE 1
    /\ \A j, k \in 0..Len(inbox[u]) : j <= k => f[j] <= f[k]

\* An answer to the write of an index entry comes with the entry.
AnswersTell ==
    \A u \in Users : \E f \in [0..Len(inbox[u]) -> 0..applied[u]] :
        /\ Counts(f, u)
        /\ Unrefused =>
               \A j \in 1..Len(inbox[u]) : \A i \in 1..f[j] : \A v \in Users :
                   puts[u][i].path = Pointer(u, v) =>
                       inbox[u][j].data[Pointer(u, v)] # Absent

\* What the server has applied on this connection, its tree has.
AppliedPointers ==
    \A u \in Users : Unrefused =>
        \A i \in 1..applied[u] : \A x, y \in Users :
            puts[u][i].path = Pointer(x, y) => tree[Pointer(x, y)] # Absent

\* An entry is set, or a write of it is outstanding.
Announced(p) ==
    \/ tree[p] # Absent
    \/ \E u \in Users : \E i \in 1..Len(puts[u]) : puts[u][i].path = p

\* The two calls of a create's completion block.
OpenersAnnounce ==
    Unrefused =>
        \A m \in Messages :
            /\ stage[m] = "appending" => ~Written(m, m)
            /\ stage[m] = "publishing" => Announced(Pointer(From[m], To[m]))
            /\ stage[m] = "sent" /\ Written(m, m) =>
                   Announced(Pointer(From[m], To[m])) /\ Announced(Pointer(To[m], From[m]))

ToldInvariant == KnownGrows /\ AnswersTell /\ AppliedPointers /\ OpenersAnnounce

\* What a step may be for the connection of one user.
SameFor(u) ==
    /\ puts'[u] = puts[u] /\ applied'[u] = applied[u]
    /\ inbox'[u] = inbox[u] /\ cache'[u] = cache[u]

WroteFor(u) ==
    /\ applied'[u] = applied[u] /\ inbox'[u] = inbox[u] /\ cache'[u] = cache[u]
    /\ Len(puts'[u]) = Len(puts[u]) + 1
    /\ \A i \in 1..Len(puts[u]) : puts'[u][i] = puts[u][i]

ResetFor(u) ==
    /\ applied'[u] = 0 /\ cache'[u] = cache[u]
    /\ Len(puts'[u]) = Len(puts[u])
    /\ \A i \in 1..Len(puts[u]) : puts'[u][i].path = puts[u][i].path
    /\ \/ Len(inbox'[u]) = 0
       \/ /\ Len(inbox'[u]) = 1 /\ inbox'[u][1].answer = "none"
          /\ inbox'[u][1].data = DB!Watched(tree', u)

HandledFor(u) ==
    /\ Len(inbox[u]) > 0 /\ cache'[u] = inbox[u][1].data
    /\ Len(inbox'[u]) = Len(inbox[u]) - 1
    /\ \A j \in 1..Len(inbox'[u]) : inbox'[u][j] = inbox[u][j + 1]
    /\ IF inbox[u][1].answer = "none"
       THEN puts'[u] = puts[u] /\ applied'[u] = applied[u]
       ELSE /\ applied[u] > 0 /\ applied'[u] = applied[u] - 1
            /\ Len(puts'[u]) = Len(puts[u]) - 1
            /\ \A i \in 1..Len(puts'[u]) : puts'[u][i] = puts[u][i + 1]

ToldFor(u) ==
    /\ cache'[u] = cache[u] /\ puts'[u] = puts[u]
    /\ Len(inbox'[u]) = Len(inbox[u]) + 1
    /\ \A j \in 1..Len(inbox[u]) : inbox'[u][j] = inbox[u][j]
    /\ inbox'[u][Len(inbox'[u])].data = DB!Watched(tree', u)
    /\ IF inbox'[u][Len(inbox'[u])].answer = "none"
       THEN applied'[u] = applied[u]
       ELSE /\ applied'[u] = applied[u] + 1 /\ applied[u] + 1 <= Len(puts[u])
            /\ Unrefused' => tree'[puts[u][applied[u] + 1].path] # Absent

\* The types this section uses.
LEMMA ConnectionTypes ==
  ASSUME TypeOK
  PROVE  /\ puts \in [Users -> Seq(DB!Put)] /\ inbox \in [Users -> Seq(DB!Frames)]
         /\ applied \in [Users -> Nat] /\ cache \in [Users -> DB!Trees] /\ tree \in DB!Trees
         /\ faults \in [{"drop", "crash", "refuse"} -> Nat]
         /\ \A u \in Users : /\ Len(puts[u]) \in Nat /\ puts[u] \in Seq(DB!Put)
                             /\ Len(inbox[u]) \in Nat /\ inbox[u] \in Seq(DB!Frames)
                             /\ applied[u] \in Nat
<1>1. /\ puts \in [Users -> Seq(DB!Put)] /\ inbox \in [Users -> Seq(DB!Frames)]
      /\ applied \in [Users -> Nat] /\ cache \in [Users -> DB!Trees] /\ tree \in DB!Trees
      /\ faults \in [{"drop", "crash", "refuse"} -> Nat]
  BY DEF TypeOK, DB!DbTypeOK, DB!FaultKinds
<1>2. QED
  BY <1>1, LenProperties

LEMMA AppStepFor ==
  ASSUME TypeOK, NEW m \in Messages, Compose(m) \/ Send(m), NEW u \in Users
  PROVE  SameFor(u) \/ WroteFor(u)
<1>1. /\ puts \in [Users -> Seq(DB!Put)] /\ Len(puts[u]) \in Nat /\ puts[u] \in Seq(DB!Put)
  BY ConnectionTypes
<1>2. \/ puts' = puts
      \/ \E w : puts' = [puts EXCEPT ![From[m]] = Append(@, w)]
  BY DEF Compose, Send, Uploaded, UploadFailed, ReadPointer, AppendMessage,
         CreateConversation, Appended, PublishToSelf, PublishToPeer, DB!Observe,
         dbVars, Write, DB!Enqueue
<1>3. applied'[u] = applied[u] /\ inbox'[u] = inbox[u] /\ cache'[u] = cache[u]
  BY AppStepIsLocal
<1>4. puts'[u] = puts[u] \/ \E w : puts'[u] = Append(puts[u], w)
  BY <1>1, <1>2
<1>5. ASSUME NEW w, puts'[u] = Append(puts[u], w)
      PROVE  /\ Len(puts'[u]) = Len(puts[u]) + 1
             /\ \A i \in 1..Len(puts[u]) : puts'[u][i] = puts[u][i]
  BY <1>1, <1>5
<1>6. QED
  BY <1>3, <1>4, <1>5 DEF SameFor, WroteFor

LEMMA ResetStepFor ==
  ASSUME TypeOK, NEW x \in Users, DB!Connect(x) \/ DB!Drop(x) \/ DB!Crash(x), NEW u \in Users
  PROVE  SameFor(u) \/ ResetFor(u)
<1>1. /\ puts \in [Users -> Seq(DB!Put)] /\ inbox \in [Users -> Seq(DB!Frames)]
      /\ applied \in [Users -> Nat] /\ Len(puts[u]) \in Nat /\ puts[u] \in Seq(DB!Put)
  BY ConnectionTypes
<1>2. CASE x # u
  BY <1>1, <1>2 DEF SameFor, DB!Connect, DB!Drop, DB!Crash
<1>3. CASE x = u
  <2>1. applied'[u] = 0 /\ cache'[u] = cache[u]
    BY <1>1, <1>3 DEF DB!Connect, DB!Drop, DB!Crash
  <2>2. \/ Len(inbox'[u]) = 0
        \/ /\ Len(inbox'[u]) = 1 /\ inbox'[u][1].answer = "none"
           /\ inbox'[u][1].data = DB!Watched(tree', u)
    <3>1. CASE DB!Connect(x)
      <4>1. inbox'[u] = <<DB!Frame(tree, u, "none")>> /\ tree' = tree
        BY <1>1, <1>3, <3>1 DEF DB!Connect
      <4>2. QED
        BY <4>1 DEF DB!Frame
    <3>2. CASE DB!Drop(x) \/ DB!Crash(x)
      <4>1. inbox'[u] = <<>>
        BY <1>1, <1>3, <3>2 DEF DB!Drop, DB!Crash
      <4>2. QED
        BY <4>1
    <3>3. QED
      BY <3>1, <3>2
  <2>3. /\ Len(puts'[u]) = Len(puts[u])
        /\ \A i \in 1..Len(puts[u]) : puts'[u][i].path = puts[u][i].path
    <3>1. CASE puts' = puts
      BY <3>1
    <3>2. CASE DB!Crash(x)
      <4>1. puts'[u] = [i \in DOMAIN puts[u] |-> [puts[u][i] EXCEPT !.caller = Nobody]]
        BY <1>1, <1>3, <3>2 DEF DB!Crash
      <4>2. DOMAIN puts[u] = 1..Len(puts[u])
        BY <1>1, LenProperties
      <4>3. Len(puts'[u]) = Len(puts[u])
        BY <1>1, <4>1, <4>2
      <4>4. \A i \in 1..Len(puts[u]) : puts[u][i] \in DB!Put
        BY <1>1, ElementOfSeq
      <4>5. \A i \in 1..Len(puts[u]) : puts'[u][i] = [puts[u][i] EXCEPT !.caller = Nobody]
        BY <4>1, <4>2
      <4>6. \A i \in 1..Len(puts[u]) : puts'[u][i].path = puts[u][i].path
        BY <4>4, <4>5 DEF DB!Put
      <4>7. QED
        BY <4>3, <4>6
    <3>3. QED
      BY <3>1, <3>2 DEF DB!Connect, DB!Drop
  <2>4. QED
    BY <2>1, <2>2, <2>3 DEF ResetFor
<1>4. QED
  BY <1>2, <1>3

LEMMA DeliverStepFor ==
  ASSUME TypeOK, NEW x \in Users, DB!Deliver(x), NEW u \in Users
  PROVE  SameFor(u) \/ HandledFor(u)
<1>1. /\ puts \in [Users -> Seq(DB!Put)] /\ inbox \in [Users -> Seq(DB!Frames)]
      /\ applied \in [Users -> Nat] /\ cache \in [Users -> DB!Trees]
      /\ Len(puts[u]) \in Nat /\ puts[u] \in Seq(DB!Put)
      /\ Len(inbox[u]) \in Nat /\ inbox[u] \in Seq(DB!Frames)
  BY ConnectionTypes
<1>2. CASE x # u
  BY <1>1, <1>2 DEF SameFor, DB!Deliver, DB!Settle
<1>3. CASE x = u
  <2>1. inbox[u] # <<>> /\ inbox'[u] = Tail(inbox[u]) /\ cache'[u] = Head(inbox[u]).data
    BY <1>1, <1>3 DEF DB!Deliver
  <2>2. /\ Head(inbox[u]) = inbox[u][1] /\ Len(inbox[u]) # 0
        /\ Len(Tail(inbox[u])) = Len(inbox[u]) - 1
        /\ \A j \in 1..Len(Tail(inbox[u])) : Tail(inbox[u])[j] = inbox[u][j + 1]
    BY <1>1, <2>1, HeadTailProperties, EmptySeq
  <2>3. CASE inbox[u][1].answer = "none"
    <3>1. puts'[u] = puts[u] /\ applied'[u] = applied[u]
      BY <1>3, <2>2, <2>3 DEF DB!Deliver
    <3>2. QED
      BY <1>1, <2>1, <2>2, <2>3, <3>1 DEF HandledFor
  <2>4. CASE inbox[u][1].answer # "none"
    <3>1. /\ puts[u] # <<>> /\ applied[u] > 0
          /\ puts'[u] = Tail(puts[u]) /\ applied'[u] = applied[u] - 1
      BY <1>1, <1>3, <2>2, <2>4 DEF DB!Deliver, DB!Settle
    <3>2. /\ Len(Tail(puts[u])) = Len(puts[u]) - 1
          /\ \A i \in 1..Len(Tail(puts[u])) : Tail(puts[u])[i] = puts[u][i + 1]
      BY <1>1, <3>1, HeadTailProperties
    <3>3. QED
      BY <1>1, <2>1, <2>2, <2>4, <3>1, <3>2 DEF HandledFor
  <2>5. QED
    BY <2>3, <2>4
<1>4. QED
  BY <1>2, <1>3

LEMMA ServerStepFor ==
  ASSUME TypeOK, PutsSafe, NEW x \in Users, DB!Apply(x) \/ DB!Refuse(x), NEW u \in Users
  PROVE  SameFor(u) \/ ToldFor(u)
<1>1. /\ puts \in [Users -> Seq(DB!Put)] /\ inbox \in [Users -> Seq(DB!Frames)]
      /\ applied \in [Users -> Nat] /\ tree \in DB!Trees
      /\ Len(puts[u]) \in Nat /\ puts[u] \in Seq(DB!Put)
      /\ Len(inbox[u]) \in Nat /\ inbox[u] \in Seq(DB!Frames)
      /\ faults \in [{"drop", "crash", "refuse"} -> Nat]
  BY ConnectionTypes
<1>2. ASSUME NEW f, inbox'[u] = Append(inbox[u], f)
      PROVE  /\ Len(inbox'[u]) = Len(inbox[u]) + 1
             /\ \A j \in 1..Len(inbox[u]) : inbox'[u][j] = inbox[u][j]
             /\ inbox'[u][Len(inbox'[u])] = f
  BY <1>1, <1>2
<1>3. \A t, a : DB!Frame(t, u, a).data = DB!Watched(t, u) /\ DB!Frame(t, u, a).answer = a
  BY DEF DB!Frame
<1>4. CASE DB!Apply(x)
  <2>1. puts' = puts /\ cache' = cache
    BY <1>4 DEF DB!Apply
  <2>2. CASE x = u
    <3>1. /\ applied[u] + 1 \in 1..Len(puts[u]) /\ DB!NextPut(u) = puts[u][applied[u] + 1]
          /\ DB!NextPut(u) \in DB!Put /\ PutSafe(u, DB!NextPut(u))
      BY <1>4, <2>2, NextPutIsPut DEF DB!Apply
    <3>2. PICK w \in DB!Put : w = puts[u][applied[u] + 1] /\ DB!NextPut(u) = w /\ w.value # Absent
      BY <3>1 DEF PutSafe
    <3>3. /\ tree' = [tree EXCEPT ![w.path] = w.value] /\ applied'[u] = applied[u] + 1
          /\ inbox'[u] = Append(inbox[u], DB!Frame(tree', u, "ok"))
      BY <1>1, <1>4, <2>2, <3>2 DEF DB!Apply
    <3>4. tree'[w.path] # Absent
      BY <1>1, <3>2, <3>3 DEF DB!Trees, DB!Put
    <3>5. inbox'[u][Len(inbox'[u])] = DB!Frame(tree', u, "ok")
      BY <1>2, <3>3
    <3>6. QED
      BY <1>1, <1>2, <1>3, <2>1, <3>1, <3>2, <3>3, <3>4, <3>5 DEF ToldFor
  <2>3. CASE x # u
    <3>1. applied'[u] = applied[u]
      BY <1>1, <1>4, <2>3 DEF DB!Apply
    <3>2. inbox'[u] = inbox[u] \/ inbox'[u] = Append(inbox[u], DB!Frame(tree', u, "none"))
      BY <1>4, <2>3 DEF DB!Apply
    <3>3. CASE inbox'[u] = inbox[u]
      BY <2>1, <3>1, <3>3 DEF SameFor
    <3>4. CASE inbox'[u] = Append(inbox[u], DB!Frame(tree', u, "none"))
      BY <1>2, <1>3, <2>1, <3>1, <3>4 DEF ToldFor
    <3>5. QED
      BY <3>2, <3>3, <3>4
  <2>4. QED
    BY <2>2, <2>3
<1>5. CASE DB!Refuse(x)
  <2>1. puts' = puts /\ cache' = cache /\ tree' = tree /\ ~Unrefused'
    BY <1>1, <1>5 DEF DB!Refuse, DB!Spend, Unrefused
  <2>2. CASE x # u
    BY <1>1, <1>5, <2>1, <2>2 DEF DB!Refuse, SameFor
  <2>3. CASE x = u
    <3>1. /\ applied'[u] = applied[u] + 1 /\ applied[u] < Len(puts[u])
          /\ inbox'[u] = Append(inbox[u], DB!Frame(tree, u, "refused"))
      BY <1>1, <1>5, <2>3 DEF DB!Refuse, DB!HasNextPut
    <3>2. applied[u] + 1 <= Len(puts[u])
      BY <1>1, <3>1
    <3>3. QED
      BY <1>2, <1>3, <2>1, <3>1, <3>2 DEF ToldFor
  <2>4. QED
    BY <2>2, <2>3
<1>6. QED
  BY <1>4, <1>5

LEMMA EveryStepFor ==
  ASSUME TypeOK, PutsSafe, [Next]_vars, NEW u \in Users
  PROVE  SameFor(u) \/ WroteFor(u) \/ ResetFor(u) \/ HandledFor(u) \/ ToldFor(u)
<1>1. CASE \E m \in Messages : Compose(m) \/ Send(m)
  BY <1>1, AppStepFor
<1>2. CASE \E x \in Users : Network(x) \/ Crash(x)
  BY <1>2, ResetStepFor, DeliverStepFor, ServerStepFor
     DEF Network, Crash, DB!Progress, DB!Fault
<1>3. CASE UNCHANGED vars
  BY <1>3 DEF vars, dbVars, SameFor
<1>4. QED
  BY <1>1, <1>2, <1>3 DEF Next

\* An index entry stays set: no write of the app removes one.
LEMMA PointersAreKept ==
  ASSUME TypeOK, PutsSafe, [Next]_vars, NEW x \in Users, NEW y \in Users,
         tree[Pointer(x, y)] # Absent
  PROVE  tree'[Pointer(x, y)] # Absent
<1> SUFFICES ASSUME NEW u \in Users, DB!Apply(u)
             PROVE  tree'[Pointer(x, y)] # Absent
  BY TreeChangesByApply
<1>1. PICK w \in DB!Put : w = DB!NextPut(u) /\ w.value # Absent
  BY NextPutIsPut DEF DB!Apply, PutSafe
<1>2. tree' = [tree EXCEPT ![w.path] = w.value]
  BY <1>1 DEF DB!Apply
<1>3. Pointer(x, y) \in Pointers /\ tree \in [Pointers \union Entries -> DB!Stored]
  <2>1. Pointer(x, y) \in Pointers
    BY DEF Pointers
  <2>2. tree \in [Pointers \union Entries -> DB!Stored]
    BY ConnectionTypes DEF DB!Trees
  <2>3. QED
    BY <2>1, <2>2
<1>4. QED
  BY <1>1, <1>2, <1>3

\* A user's frames show his own index.
LEMMA OwnIndexIsWatched ==
  ASSUME NEW t, NEW u \in Users, NEW v \in Users
  PROVE  DB!Watched(t, u)[Pointer(u, v)] = t[Pointer(u, v)]
<1>1. Pointer(u, v) \in Pointers /\ Pointer(u, v) \in OwnIndex[u]
  BY DEF Pointers, OwnIndex
<1>2. QED
  BY <1>1 DEF DB!Watched


LEMMA KnownStaysGrowing ==
  ASSUME TypeOK, PutsSafe, KnownGrows, [Next]_vars
  PROVE  KnownGrows'
<1> SUFFICES ASSUME NEW u \in Users, NEW v \in Users
    PROVE  /\ cache'[u][Pointer(u, v)] # Absent => tree'[Pointer(u, v)] # Absent
           /\ \A j \in 1..Len(inbox'[u]) :
                  /\ cache'[u][Pointer(u, v)] # Absent => inbox'[u][j].data[Pointer(u, v)] # Absent
                  /\ inbox'[u][j].data[Pointer(u, v)] # Absent => tree'[Pointer(u, v)] # Absent
                  /\ \A k \in 1..Len(inbox'[u]) :
                         j <= k /\ inbox'[u][j].data[Pointer(u, v)] # Absent
                             => inbox'[u][k].data[Pointer(u, v)] # Absent
  BY DEF KnownGrows
<1> DEFINE p == Pointer(u, v)
<1>1. PICK n \in Nat : n = Len(inbox[u])
  BY ConnectionTypes
<1>2. /\ cache[u][p] # Absent => tree[p] # Absent
      /\ \A j \in 1..n :
             /\ cache[u][p] # Absent => inbox[u][j].data[p] # Absent
             /\ inbox[u][j].data[p] # Absent => tree[p] # Absent
             /\ \A k \in 1..n :
                    j <= k /\ inbox[u][j].data[p] # Absent => inbox[u][k].data[p] # Absent
  BY <1>1 DEF KnownGrows
<1>3. tree[p] # Absent => tree'[p] # Absent
  BY PointersAreKept
<1>4. DB!Watched(tree', u)[p] = tree'[p]
  BY OwnIndexIsWatched
<1> HIDE DEF p
<1>5. CASE SameFor(u) \/ WroteFor(u)
  <2>1. inbox'[u] = inbox[u] /\ cache'[u] = cache[u]
    BY <1>5 DEF SameFor, WroteFor
  <2>2. QED
    BY <1>1, <1>2, <1>3, <2>1 DEF p
<1>6. CASE ResetFor(u)
  <2>1. cache'[u] = cache[u]
    BY <1>6 DEF ResetFor
  <2>2. \A j \in 1..Len(inbox'[u]) : inbox'[u][j].data[p] = tree'[p]
    BY <1>4, <1>6 DEF ResetFor
  <2>3. QED
    BY <1>2, <1>3, <2>1, <2>2 DEF p
<1>7. CASE HandledFor(u)
  <2>1. /\ n > 0 /\ cache'[u] = inbox[u][1].data /\ Len(inbox'[u]) = n - 1
        /\ \A j \in 1..(n - 1) : inbox'[u][j] = inbox[u][j + 1]
    BY <1>1, <1>7 DEF HandledFor
  <2>2. \A j \in 1..(n - 1) : j + 1 \in 1..n /\ 1 <= j + 1
    OBVIOUS
  <2>3. 1 \in 1..n
    BY <2>1
  <2>4. \A j, k \in 1..(n - 1) : j <= k => j + 1 <= k + 1
    OBVIOUS
  <2>5. cache'[u][p] # Absent => tree'[p] # Absent
    BY <1>2, <1>3, <2>1, <2>3
  <2>6. ASSUME NEW j \in 1..(n - 1)
        PROVE  /\ cache'[u][p] # Absent => inbox'[u][j].data[p] # Absent
               /\ inbox'[u][j].data[p] # Absent => tree'[p] # Absent
    BY <1>2, <1>3, <2>1, <2>2, <2>3
  <2>7. ASSUME NEW j \in 1..(n - 1), NEW k \in 1..(n - 1), j <= k, inbox'[u][j].data[p] # Absent
        PROVE  inbox'[u][k].data[p] # Absent
    BY <1>2, <2>1, <2>2, <2>4, <2>7
  <2>8. QED
    BY <2>1, <2>5, <2>6, <2>7 DEF p
<1>8. CASE ToldFor(u)
  <2>1. /\ cache'[u] = cache[u] /\ Len(inbox'[u]) = n + 1
        /\ \A j \in 1..n : inbox'[u][j] = inbox[u][j]
        /\ inbox'[u][n + 1].data[p] = tree'[p]
    BY <1>1, <1>4, <1>8 DEF ToldFor
  <2>2. \A j \in 1..(n + 1) : j \in 1..n \/ j = n + 1
    OBVIOUS
  <2>3. \A j \in 1..n : ~(n + 1 <= j)
    OBVIOUS
  <2>4. ASSUME NEW j \in 1..(n + 1)
        PROVE  /\ cache'[u][p] # Absent => inbox'[u][j].data[p] # Absent
               /\ inbox'[u][j].data[p] # Absent => tree'[p] # Absent
    BY <1>2, <1>3, <2>1, <2>2
  <2>5. ASSUME NEW j \in 1..(n + 1), NEW k \in 1..(n + 1), j <= k, inbox'[u][j].data[p] # Absent
        PROVE  inbox'[u][k].data[p] # Absent
    BY <1>2, <1>3, <2>1, <2>2, <2>3, <2>5
  <2>6. QED
    BY <1>2, <1>3, <2>1, <2>4, <2>5 DEF p
<1>9. QED
  BY <1>5, <1>6, <1>7, <1>8, EveryStepFor

LEMMA AppliedPointersStay ==
  ASSUME TypeOK, PutsSafe, AppliedSafe, AppliedPointers, [Next]_vars
  PROVE  AppliedPointers'
<1> SUFFICES ASSUME Unrefused', NEW u \in Users, NEW i \in 1..applied'[u],
                    NEW x \in Users, NEW y \in Users, puts'[u][i].path = Pointer(x, y)
             PROVE  tree'[Pointer(x, y)] # Absent
  BY DEF AppliedPointers
<1>1. PICK a \in Nat, n \in Nat : a = applied[u] /\ n = Len(puts[u]) /\ a <= n
  BY ConnectionTypes DEF AppliedSafe
<1>2. Unrefused
  BY RefusalsAreKept
<1>3. \A k \in 1..a : puts[u][k].path = Pointer(x, y) => tree[Pointer(x, y)] # Absent
  BY <1>1, <1>2 DEF AppliedPointers
<1>4. tree[Pointer(x, y)] # Absent => tree'[Pointer(x, y)] # Absent
  BY PointersAreKept
<1>5. CASE SameFor(u) \/ WroteFor(u)
  <2>1. /\ applied'[u] = a /\ i \in 1..a /\ i \in 1..n
        /\ puts'[u][i] = puts[u][i]
    BY <1>1, <1>5 DEF SameFor, WroteFor
  <2>2. QED
    BY <1>3, <1>4, <2>1
<1>6. CASE ResetFor(u)
  BY <1>6 DEF ResetFor
<1>7. CASE HandledFor(u)
  <2>1. \/ applied'[u] = a /\ puts'[u] = puts[u]
        \/ /\ applied'[u] = a - 1 /\ Len(puts'[u]) = n - 1
           /\ \A k \in 1..(n - 1) : puts'[u][k] = puts[u][k + 1]
    BY <1>1, <1>7 DEF HandledFor
  <2>2. CASE applied'[u] = a /\ puts'[u] = puts[u]
    BY <1>3, <1>4, <2>2
  <2>3. CASE /\ applied'[u] = a - 1
             /\ \A k \in 1..(n - 1) : puts'[u][k] = puts[u][k + 1]
    <3>1. i \in 1..(n - 1) /\ i + 1 \in 1..a
      BY <1>1, <2>3
    <3>2. QED
      BY <1>3, <1>4, <2>3, <3>1
  <2>4. QED
    BY <2>1, <2>2, <2>3
<1>8. CASE ToldFor(u)
  <2>1. puts'[u] = puts[u]
    BY <1>8 DEF ToldFor
  <2>2. \/ applied'[u] = a
        \/ applied'[u] = a + 1 /\ tree'[puts[u][a + 1].path] # Absent
    BY <1>1, <1>8 DEF ToldFor
  <2>3. CASE i \in 1..a
    BY <1>3, <1>4, <2>1, <2>3
  <2>4. CASE i \notin 1..a
    <3>1. i = a + 1 /\ applied'[u] = a + 1
      BY <1>1, <2>2, <2>4
    <3>2. QED
      BY <1>1, <2>1, <2>2, <3>1
  <2>5. QED
    BY <2>3, <2>4
<1>9. QED
  BY <1>5, <1>6, <1>7, <1>8, EveryStepFor

\* An announced entry stays announced: a write of it is forgotten only when
\* the server has it.
LEMMA AnnouncedIsKept ==
  ASSUME TypeOK, PutsSafe, AppliedSafe, AppliedPointers, [Next]_vars, Unrefused',
         NEW x \in Users, NEW y \in Users, Announced(Pointer(x, y))
  PROVE  Announced(Pointer(x, y))'
<1>1. CASE tree[Pointer(x, y)] # Absent
  BY <1>1, PointersAreKept DEF Announced
<1>2. ASSUME NEW u \in Users, NEW i \in 1..Len(puts[u]), puts[u][i].path = Pointer(x, y)
      PROVE  Announced(Pointer(x, y))'
  <2>1. PICK n \in Nat : n = Len(puts[u])
    BY ConnectionTypes
  <2>2. ASSUME NEW k \in 1..Len(puts'[u]), puts'[u][k].path = Pointer(x, y)
        PROVE  Announced(Pointer(x, y))'
    BY <2>2 DEF Announced
  <2>3. CASE SameFor(u) \/ ToldFor(u)
    <3>1. puts'[u] = puts[u]
      BY <2>3 DEF SameFor, ToldFor
    <3>2. QED
      BY <1>2, <2>2, <3>1
  <2>4. CASE WroteFor(u) \/ ResetFor(u)
    <3>1. /\ i \in 1..Len(puts'[u]) /\ puts'[u][i].path = puts[u][i].path
      BY <2>1, <2>4 DEF WroteFor, ResetFor
    <3>2. QED
      BY <1>2, <2>2, <3>1
  <2>5. CASE HandledFor(u)
    <3>1. CASE puts'[u] = puts[u]
      BY <1>2, <2>2, <3>1
    <3>2. CASE puts'[u] # puts[u]
      <4>1. /\ applied[u] > 0 /\ Len(puts'[u]) = n - 1
            /\ \A k \in 1..(n - 1) : puts'[u][k] = puts[u][k + 1]
        BY <2>1, <2>5, <3>2 DEF HandledFor
      <4>2. CASE i = 1
        <5>1. 1 \in 1..applied[u]
          BY <4>1, ConnectionTypes
        <5>2. Unrefused
          BY RefusalsAreKept
        <5>3. tree[Pointer(x, y)] # Absent
          BY <1>2, <4>2, <5>1, <5>2 DEF AppliedPointers
        <5>4. QED
          BY <1>1, <5>3
      <4>3. CASE i # 1
        <5>1. i - 1 \in 1..(n - 1) /\ (i - 1) + 1 = i
          BY <2>1, <4>3
        <5>2. PICK k \in 1..(n - 1) : k = i - 1
          BY <5>1
        <5>3. puts'[u][k] = puts[u][i]
          BY <4>1, <5>1, <5>2
        <5>4. QED
          BY <1>2, <2>2, <4>1, <5>3
      <4>4. QED
        BY <4>2, <4>3
    <3>3. QED
      BY <3>1, <3>2
  <2>6. QED
    BY <2>3, <2>4, <2>5, EveryStepFor
<1>3. QED
  BY <1>1, <1>2 DEF Announced


LEMMA AnswersStayTold ==
  ASSUME TypeOK, PutsSafe, AppliedSafe, AppliedPointers, AnswersTell, [Next]_vars
  PROVE  AnswersTell'
<1> SUFFICES ASSUME NEW u \in Users
    PROVE  \E g \in [0..Len(inbox'[u]) -> 0..applied'[u]] :
               /\ Counts(g, u)'
               /\ Unrefused' =>
                      \A j \in 1..Len(inbox'[u]) : \A i \in 1..g[j] : \A v \in Users :
                          puts'[u][i].path = Pointer(u, v) =>
                              inbox'[u][j].data[Pointer(u, v)] # Absent
  BY DEF AnswersTell, Counts
<1>1. PICK a \in Nat, n \in Nat, q \in Nat :
          a = applied[u] /\ n = Len(inbox[u]) /\ q = Len(puts[u]) /\ a <= q
  BY ConnectionTypes DEF AppliedSafe
<1>2. PICK f \in [0..n -> 0..a] :
          /\ f[0] = 0 /\ f[n] = a
          /\ \A j \in 1..n : f[j] = f[j - 1] + IF inbox[u][j].answer = "none" THEN 0 ELSE 1
          /\ \A j, k \in 0..n : j <= k => f[j] <= f[k]
          /\ Unrefused => \A j \in 1..n : \A i \in 1..f[j] : \A v \in Users :
                 puts[u][i].path = Pointer(u, v) => inbox[u][j].data[Pointer(u, v)] # Absent
  BY <1>1 DEF AnswersTell, Counts
<1>3. \A j \in 0..n : f[j] \in 0..a /\ f[j] \in Nat
  BY <1>2
<1>4. Unrefused' => Unrefused
  BY RefusalsAreKept
<1>5. CASE SameFor(u) \/ WroteFor(u)
  <2>1. inbox'[u] = inbox[u] /\ applied'[u] = applied[u]
    BY <1>5 DEF SameFor, WroteFor
  <2>2. \A i \in 1..a : puts'[u][i] = puts[u][i]
    BY <1>1, <1>5 DEF SameFor, WroteFor
  <2>3. Counts(f, u)'
    BY <1>1, <1>2, <2>1 DEF Counts
  <2>4. ASSUME Unrefused', NEW j \in 1..n, NEW i \in 1..f[j], NEW v \in Users,
               puts'[u][i].path = Pointer(u, v)
        PROVE  inbox'[u][j].data[Pointer(u, v)] # Absent
    <3>1. i \in 1..a
      BY <1>3
    <3>2. QED
      BY <1>2, <1>4, <2>1, <2>2, <2>4, <3>1
  <2>5. QED
    BY <1>1, <2>1, <2>3, <2>4
<1>6. CASE ResetFor(u)
  <2>1. PICK k \in 0..1 : Len(inbox'[u]) = k /\ applied'[u] = 0
                          /\ (k = 1 => inbox'[u][1].answer = "none")
    BY <1>6 DEF ResetFor
  <2>2. PICK g : g = [j \in 0..k |-> 0]
    OBVIOUS
  <2>3. \A j \in 0..k : g[j] = 0 /\ g[j] \in 0..0
    BY <2>2
  <2>4. \A j \in 1..k : j = 1 /\ k = 1 /\ j - 1 \in 0..k /\ j \in 0..k
    BY <2>1
  <2>5. Counts(g, u)'
    <3>1. g \in [0..k -> 0..0]
      BY <2>2, <2>3
    <3>2. g[0] = 0 /\ g[Len(inbox'[u])] = applied'[u]
      BY <2>1, <2>3
    <3>3. \A j \in 1..Len(inbox'[u]) :
              g[j] = g[j - 1] + IF inbox'[u][j].answer = "none" THEN 0 ELSE 1
      <4>1. CASE k = 0
        BY <2>1, <4>1
      <4>2. CASE k = 1
        <5>1. g[1] = 0 /\ g[1 - 1] = 0 /\ inbox'[u][1].answer = "none"
          BY <2>1, <2>3, <4>2
        <5>2. g[1] = g[1 - 1] + IF inbox'[u][1].answer = "none" THEN 0 ELSE 1
          BY <5>1
        <5>3. \A j \in 1..Len(inbox'[u]) : j = 1
          BY <2>1, <4>2
        <5>4. QED
          BY <5>2, <5>3
      <4>3. QED
        BY <4>1, <4>2
    <3>4. \A j, l \in 0..Len(inbox'[u]) : j <= l => g[j] <= g[l]
      BY <2>1, <2>3
    <3>5. QED
      BY <2>1, <3>1, <3>2, <3>3, <3>4 DEF Counts
  <2>6. \A j \in 1..k : 1..g[j] = {}
    BY <2>3, <2>4
  <2>7. g \in [0..Len(inbox'[u]) -> 0..applied'[u]]
    BY <2>1, <2>2, <2>3
  <2>8. QED
    BY <2>1, <2>5, <2>6, <2>7
<1>7. CASE HandledFor(u)
  <2>1. PICK d \in 0..1 : d = f[1]
    BY <1>1, <1>2, <1>7 DEF HandledFor
  <2>2. /\ n > 0 /\ Len(inbox'[u]) = n - 1
        /\ \A j \in 1..(n - 1) : inbox'[u][j] = inbox[u][j + 1]
    BY <1>1, <1>7 DEF HandledFor
  <2>3. /\ applied'[u] = a - d /\ d <= a
        /\ \A i \in 1..(q - d) : puts'[u][i] = puts[u][i + d]
    <3>1. CASE inbox[u][1].answer = "none"
      <4>1. d = 0
        BY <1>2, <2>1, <2>2, <3>1
      <4>2. applied'[u] = a /\ puts'[u] = puts[u]
        BY <1>1, <1>7, <3>1 DEF HandledFor
      <4>3. QED
        BY <1>1, <4>1, <4>2
    <3>2. CASE inbox[u][1].answer # "none"
      <4>1. d = 1
        BY <1>2, <2>1, <2>2, <3>2
      <4>2. /\ a > 0 /\ applied'[u] = a - 1
            /\ \A i \in 1..(q - 1) : puts'[u][i] = puts[u][i + 1]
        BY <1>1, <1>7, <3>2 DEF HandledFor
      <4>3. applied'[u] = a - d /\ d <= a
        BY <1>1, <4>1, <4>2
      <4>4. \A i \in 1..(q - d) : puts'[u][i] = puts[u][i + d]
        BY <4>1, <4>2
      <4>5. QED
        BY <4>3, <4>4
    <3>3. QED
      BY <3>1, <3>2
  <2>4. PICK g : g = [j \in 0..(n - 1) |-> f[j + 1] - d]
    OBVIOUS
  <2>5. \A j \in 0..(n - 1) : /\ j + 1 \in 0..n /\ 1 \in 0..n /\ 1 <= j + 1
                              /\ f[j + 1] \in 0..a /\ d <= f[j + 1] /\ g[j] = f[j + 1] - d
    <3> SUFFICES ASSUME NEW j \in 0..(n - 1)
                 PROVE  /\ j + 1 \in 0..n /\ 1 \in 0..n /\ 1 <= j + 1
                        /\ f[j + 1] \in 0..a /\ d <= f[j + 1] /\ g[j] = f[j + 1] - d
      OBVIOUS
    <3>1. PICK k \in 0..n : k = j + 1 /\ 1 <= k
      BY <2>2
    <3>2. 1 \in 0..n
      BY <2>2
    <3>3. f[1] <= f[k] /\ f[k] \in 0..a
      BY <1>2, <1>3, <3>1, <3>2
    <3>4. g[j] = f[k] - d
      BY <2>4, <3>1
    <3>5. QED
      BY <2>1, <3>1, <3>2, <3>3, <3>4
  <2>6. \A j \in 0..(n - 1) : g[j] \in 0..(a - d)
    BY <1>1, <2>5
  <2>7. g \in [0..(n - 1) -> 0..(a - d)]
    BY <2>4, <2>6
  <2>8. Counts(g, u)'
    <3>1. g[0] = 0
      <4>1. 0 \in 0..(n - 1) /\ 0 + 1 = 1
        BY <2>2
      <4>2. g[0] = f[1] - d
        BY <2>5, <4>1
      <4>3. QED
        BY <2>1, <4>2
    <3>2. g[n - 1] = a - d
      BY <1>2, <2>2, <2>5
    <3>3. ASSUME NEW j \in 1..(n - 1)
          PROVE  g[j] = g[j - 1] + IF inbox'[u][j].answer = "none" THEN 0 ELSE 1
      <4>1. PICK k \in 1..n : k = j + 1
        BY <2>2
      <4>2. f[k] = f[k - 1] + IF inbox[u][k].answer = "none" THEN 0 ELSE 1
        BY <1>2
      <4>3. g[j] = f[k] - d /\ g[j - 1] = f[k - 1] - d
        BY <2>5, <4>1
      <4>4. f[k] \in Nat /\ f[k - 1] \in Nat /\ d \in Nat
        BY <1>3, <2>1, <4>1
      <4>5. inbox'[u][j] = inbox[u][k]
        BY <2>2, <4>1
      <4>6. PICK c \in 0..1 : c = IF inbox[u][k].answer = "none" THEN 0 ELSE 1
        OBVIOUS
      <4>7. f[k] = f[k - 1] + c
        BY <4>2, <4>6
      <4>8. g[j] = g[j - 1] + c
        BY <4>3, <4>4, <4>7
      <4>9. QED
        BY <4>5, <4>6, <4>8
    <3>4. ASSUME NEW j \in 0..(n - 1), NEW k \in 0..(n - 1), j <= k
          PROVE  g[j] <= g[k]
      <4>1. f[j + 1] <= f[k + 1]
        BY <1>2, <2>5, <3>4
      <4>2. QED
        BY <2>5, <4>1
    <3>5. QED
      BY <2>2, <2>3, <2>7, <3>1, <3>2, <3>3, <3>4 DEF Counts
  <2>9. ASSUME Unrefused', NEW j \in 1..(n - 1), NEW i \in 1..g[j], NEW v \in Users,
               puts'[u][i].path = Pointer(u, v)
        PROVE  inbox'[u][j].data[Pointer(u, v)] # Absent
    <3>1. PICK k \in 1..n : k = j + 1
      BY <2>2
    <3>2. f[k] \in 0..a /\ g[j] = f[k] - d /\ d <= f[k] /\ inbox'[u][j] = inbox[u][k]
      BY <2>2, <2>5, <3>1
    <3>3. PICK l \in 1..f[k] : l = i + d
      BY <3>2
    <3>4. i \in 1..(q - d)
      BY <1>1, <3>2, <3>3
    <3>5. puts'[u][i] = puts[u][l]
      BY <2>3, <3>3, <3>4
    <3>6. QED
      BY <1>2, <1>4, <2>9, <3>2, <3>5
  <2>10. g \in [0..Len(inbox'[u]) -> 0..applied'[u]]
    BY <2>2, <2>3, <2>7
  <2>11. Unrefused' =>
            \A j \in 1..Len(inbox'[u]) : \A i \in 1..g[j] : \A v \in Users :
                puts'[u][i].path = Pointer(u, v) => inbox'[u][j].data[Pointer(u, v)] # Absent
    BY <2>2, <2>9
  <2>12. QED
    BY <2>8, <2>10, <2>11
<1>8. CASE ToldFor(u)
  <2>1. /\ puts'[u] = puts[u] /\ Len(inbox'[u]) = n + 1
        /\ \A j \in 1..n : inbox'[u][j] = inbox[u][j]
        /\ inbox'[u][n + 1].data = DB!Watched(tree', u)
    BY <1>1, <1>8 DEF ToldFor
  <2>2. PICK b \in Nat :
            /\ b = applied'[u] /\ a <= b
            /\ b = a + IF inbox'[u][n + 1].answer = "none" THEN 0 ELSE 1
            /\ b = a + 1 /\ Unrefused' => tree'[puts[u][a + 1].path] # Absent
    <3>1. CASE inbox'[u][n + 1].answer = "none"
      <4>1. applied'[u] = a
        BY <1>1, <1>8, <2>1, <3>1 DEF ToldFor
      <4>2. QED
        BY <1>1, <3>1, <4>1
    <3>2. CASE inbox'[u][n + 1].answer # "none"
      <4>1. applied'[u] = a + 1 /\ (Unrefused' => tree'[puts[u][a + 1].path] # Absent)
        BY <1>1, <1>8, <2>1, <3>2 DEF ToldFor
      <4>2. QED
        BY <1>1, <3>2, <4>1
    <3>3. QED
      BY <3>1, <3>2
  <2>3. PICK g : g = [j \in 0..(n + 1) |-> IF j \in 0..n THEN f[j] ELSE b]
    OBVIOUS
  <2>4. /\ \A j \in 0..n : g[j] = f[j] /\ j \in 0..(n + 1)
        /\ g[n + 1] = b /\ n + 1 \in 0..(n + 1)
        /\ \A j \in 0..(n + 1) : j \in 0..n \/ j = n + 1
        /\ \A j \in 1..(n + 1) : j \in 1..n \/ j = n + 1
    BY <2>3
  <2>5. \A j \in 0..(n + 1) : g[j] \in 0..b
    <3>1. \A j \in 0..n : g[j] \in 0..b
      <4>1. 0..a \subseteq 0..b
        BY <1>1, <2>2
      <4>2. QED
        BY <1>3, <2>4, <4>1
    <3>2. g[n + 1] \in 0..b
      BY <2>2, <2>4
    <3>3. QED
      BY <2>4, <3>1, <3>2
  <2>6. g \in [0..(n + 1) -> 0..b]
    BY <2>3, <2>5
  <2>7. Counts(g, u)'
    <3>1. g[0] = 0 /\ g[n + 1] = b
      BY <1>2, <2>4
    <3>2. ASSUME NEW j \in 1..(n + 1)
          PROVE  g[j] = g[j - 1] + IF inbox'[u][j].answer = "none" THEN 0 ELSE 1
      <4>1. CASE j \in 1..n
        <5>1. g[j] = f[j] /\ g[j - 1] = f[j - 1] /\ inbox'[u][j] = inbox[u][j]
          BY <2>1, <2>4, <4>1
        <5>2. QED
          BY <1>2, <4>1, <5>1
      <4>2. CASE j = n + 1
        <5>1. g[j] = b /\ g[j - 1] = a
          BY <1>2, <2>4, <4>2
        <5>2. QED
          BY <2>2, <4>2, <5>1
      <4>3. QED
        BY <2>4, <4>1, <4>2
    <3>3. ASSUME NEW j \in 0..(n + 1), NEW k \in 0..(n + 1), j <= k
          PROVE  g[j] <= g[k]
      <4>1. CASE k \in 0..n
        <5>1. j \in 0..n
          BY <3>3, <4>1
        <5>2. QED
          BY <1>2, <2>4, <3>3, <4>1, <5>1
      <4>2. CASE k = n + 1
        BY <2>2, <2>4, <2>5, <4>2
      <4>3. QED
        BY <2>4, <4>1, <4>2
    <3>4. QED
      BY <2>1, <2>2, <2>6, <3>1, <3>2, <3>3 DEF Counts
  <2>8. ASSUME Unrefused', NEW j \in 1..(n + 1), NEW i \in 1..g[j], NEW v \in Users,
               puts'[u][i].path = Pointer(u, v)
        PROVE  inbox'[u][j].data[Pointer(u, v)] # Absent
    <3>1. CASE j \in 1..n
      <4>1. g[j] = f[j] /\ inbox'[u][j] = inbox[u][j]
        BY <2>1, <2>4, <3>1
      <4>2. QED
        BY <1>2, <1>4, <2>1, <2>8, <3>1, <4>1
    <3>2. CASE j = n + 1
      <4>1. inbox'[u][j].data[Pointer(u, v)] = tree'[Pointer(u, v)]
        BY <2>1, <3>2, OwnIndexIsWatched
      <4>2. CASE i \in 1..a
        <5>1. tree[Pointer(u, v)] # Absent
          BY <1>1, <1>4, <2>1, <2>8, <4>2 DEF AppliedPointers
        <5>2. tree'[Pointer(u, v)] # Absent
          BY <5>1, PointersAreKept
        <5>3. QED
          BY <4>1, <5>2
      <4>3. CASE i \notin 1..a
        <5>1. i = a + 1 /\ b = a + 1
          BY <2>2, <2>4, <3>2, <4>3
        <5>2. QED
          BY <2>1, <2>2, <2>8, <4>1, <5>1
      <4>4. QED
        BY <4>2, <4>3
    <3>3. QED
      BY <2>4, <3>1, <3>2
  <2>9. g \in [0..Len(inbox'[u]) -> 0..applied'[u]]
    BY <2>1, <2>2, <2>6
  <2>10. Unrefused' =>
            \A j \in 1..Len(inbox'[u]) : \A i \in 1..g[j] : \A v \in Users :
                puts'[u][i].path = Pointer(u, v) => inbox'[u][j].data[Pointer(u, v)] # Absent
    BY <2>1, <2>8
  <2>11. QED
    BY <2>7, <2>9, <2>10
<1>9. QED
  BY <1>5, <1>6, <1>7, <1>8, EveryStepFor


\* A write of an entry announces it.
LEMMA WriteAnnounces ==
  ASSUME TypeOK, NEW m \in Messages, NEW p, NEW v, NEW k, Write(m, p, v, k)
  PROVE  Announced(p)'
<1>1. PICK u \in Users : u = From[m]
  BY MessagingAssumption
<1>2. /\ puts \in [Users -> Seq(DB!Put)] /\ puts[u] \in Seq(DB!Put) /\ Len(puts[u]) \in Nat
  BY ConnectionTypes
<1>3. puts'[u] = Append(puts[u], [path |-> p, value |-> v, caller |-> k])
  BY <1>1, <1>2 DEF Write, DB!Enqueue
<1>4. /\ Len(puts'[u]) = Len(puts[u]) + 1
      /\ puts'[u][Len(puts[u]) + 1] = [path |-> p, value |-> v, caller |-> k]
  BY <1>2, <1>3
<1>5. Len(puts[u]) + 1 \in 1..Len(puts'[u])
  BY <1>2, <1>4
<1>6. PICK i \in 1..Len(puts'[u]) : i = Len(puts[u]) + 1
  BY <1>5
<1>7. puts'[u][i].path = p
  BY <1>4, <1>6
<1>8. QED
  BY <1>7 DEF Announced

\* Which steps bring a send to the stages an opener is judged at.
LEMMA StageOrigin ==
  ASSUME TypeOK, [Next]_vars, NEW m \in Messages
  PROVE  /\ stage'[m] = "appending" => stage[m] = "appending" \/ AppendMessage(m)
         /\ stage'[m] = "publishing" => stage[m] = "publishing" \/ PublishToSelf(m)
         /\ stage'[m] = "sent" =>
                \/ stage[m] = "sent" \/ PublishToPeer(m)
                \/ Appended(m) /\ stage[m] = "appending"
<1>1. stage \in [Messages -> Stages]
  BY DEF TypeOK
<1>2. ASSUME NEW k \in Messages, Compose(k) \/ Send(k), k # m
      PROVE  stage'[m] = stage[m]
  BY <1>1, <1>2 DEF Compose, Send, Uploaded, UploadFailed, ReadPointer, AppendMessage,
     CreateConversation, Appended, PublishToSelf, PublishToPeer, Move
<1>3. ASSUME Compose(m) \/ Send(m)
      PROVE  /\ stage'[m] = "appending" => AppendMessage(m)
             /\ stage'[m] = "publishing" => PublishToSelf(m)
             /\ stage'[m] = "sent" => PublishToPeer(m) \/ (Appended(m) /\ stage[m] = "appending")
  BY <1>1, <1>3 DEF Compose, Send, Uploaded, UploadFailed, ReadPointer, AppendMessage,
     CreateConversation, Appended, PublishToSelf, PublishToPeer, Move
<1>4. ASSUME NEW u \in Users, Network(u) \/ Crash(u)
      PROVE  stage'[m] = stage[m] \/ stage'[m] = "interrupted"
  BY <1>1, <1>4 DEF Network, Crash
<1>5. QED
  BY <1>2, <1>3, <1>4 DEF Next, vars

LEMMA OpenersStayAnnounced ==
  ASSUME TypeOK, SafetyInvariant, AppliedPointers, OpenersAnnounce, [Next]_vars
  PROVE  OpenersAnnounce'
<1> SUFFICES ASSUME Unrefused', NEW m \in Messages
    PROVE  /\ stage'[m] = "appending" => ~Written(m, m)'
           /\ stage'[m] = "publishing" => Announced(Pointer(From[m], To[m]))'
           /\ stage'[m] = "sent" /\ Written(m, m)' =>
                  Announced(Pointer(From[m], To[m]))' /\ Announced(Pointer(To[m], From[m]))'
  BY DEF OpenersAnnounce
<1>1. PutsSafe /\ AppliedSafe /\ BlocksSafe /\ WrittenOnce
  BY DEF SafetyInvariant
<1>2. Unrefused /\ From[m] \in Users /\ To[m] \in Users
  BY <1>1, RefusalsAreKept, MessagingAssumption
<1>3. /\ stage[m] = "appending" => ~Written(m, m)
      /\ stage[m] = "publishing" => Announced(Pointer(From[m], To[m]))
      /\ stage[m] = "sent" /\ Written(m, m) =>
             Announced(Pointer(From[m], To[m])) /\ Announced(Pointer(To[m], From[m]))
  BY <1>2 DEF OpenersAnnounce
<1>4. \A x, y \in Users : Announced(Pointer(x, y)) => Announced(Pointer(x, y))'
  BY <1>1, AnnouncedIsKept
<1>5. /\ AppendMessage(m) => stage[m] = "asked" /\ stage'[m] = "appending"
      /\ CreateConversation(m) => stage[m] = "asked" /\ stage'[m] = "creating"
  BY StageOfWritten
<1>6. Written(m, m) => stage[m] # "asked"
  BY <1>1 DEF WrittenOnce, Over
<1>7. AppendMessage(m) => BlockOf(m).value # m
  <2> SUFFICES ASSUME AppendMessage(m), BlockOf(m).value = m PROVE FALSE
    OBVIOUS
  <2>1. BlockSafe(From[m], BlockOf(m)) /\ BlockOf(m).caller = m /\ BlockOf(m).value # Absent
    BY <1>1, HeadBlockIsSafe DEF AppendMessage, HasBlock
  <2>2. Created(m)
    BY <1>2, <2>1 DEF BlockSafe, Shared
  <2>3. Written(m, m)
    BY <2>2 DEF Created, StoredAt, Written
  <2>4. QED
    BY <1>5, <1>6, <2>3
<1>8. Written(m, m)' =>
        \/ Written(m, m)
        \/ AppendMessage(m) /\ m = BlockOf(m).value
        \/ CreateConversation(m)
  BY WrittenOrigin
<1>9. stage'[m] = "appending" => ~Written(m, m)'
  BY <1>3, <1>5, <1>6, <1>7, <1>8, StageOrigin
<1>10. PublishToSelf(m) => Announced(Pointer(From[m], To[m]))'
  BY WriteAnnounces DEF PublishToSelf
<1>11. PublishToPeer(m) => stage[m] = "publishing" /\ Announced(Pointer(To[m], From[m]))'
  BY WriteAnnounces DEF PublishToPeer
<1>12. stage'[m] = "sent" /\ Written(m, m)' => Written(m, m)
  BY <1>5, <1>7, <1>8
<1>13. QED
  BY <1>2, <1>3, <1>4, <1>9, <1>10, <1>11, <1>12, StageOrigin

LEMMA InitIsTold == Init => ToldInvariant
<1> SUFFICES ASSUME Init PROVE ToldInvariant
  OBVIOUS
<1>1. /\ puts = [u \in Users |-> <<>>] /\ applied = [u \in Users |-> 0]
      /\ inbox = [u \in Users |-> <<>>] /\ stage = [m \in Messages |-> "idle"]
      /\ cache = [u \in Users |-> [p \in Pointers \union Entries |-> Absent]]
  BY DEF Init, DB!DbInit
<1>2. \A u, v \in Users : Pointer(u, v) \in Pointers
  BY DEF Pointers
<1>3. \A u \in Users : Len(puts[u]) = 0 /\ Len(inbox[u]) = 0 /\ applied[u] = 0
  BY <1>1
<1>4. KnownGrows
  BY <1>1, <1>2, <1>3 DEF KnownGrows
<1>5. AppliedPointers /\ OpenersAnnounce
  BY <1>1, <1>3 DEF AppliedPointers, OpenersAnnounce
<1>6. AnswersTell
  <2> SUFFICES ASSUME NEW u \in Users
               PROVE  \E f \in [0..Len(inbox[u]) -> 0..applied[u]] :
                          /\ Counts(f, u)
                          /\ \A j \in 1..Len(inbox[u]) : FALSE
    BY <1>3 DEF AnswersTell
  <2>1. PICK f : f = [j \in 0..0 |-> 0]
    OBVIOUS
  <2>2. f \in [0..0 -> 0..0] /\ f[0] = 0
    BY <2>1
  <2>3. Counts(f, u)
    BY <1>3, <2>2 DEF Counts
  <2>4. QED
    <3>1. 0..Len(inbox[u]) = 0..0 /\ 0..applied[u] = 0..0 /\ 1..Len(inbox[u]) = {}
      BY <1>3
    <3>2. f \in [0..Len(inbox[u]) -> 0..applied[u]]
      BY <2>2, <3>1
    <3>3. \A j \in 1..Len(inbox[u]) : FALSE
      BY <3>1
    <3>4. QED
      BY <2>3, <3>2, <3>3
<1>7. QED
  BY <1>4, <1>5, <1>6 DEF ToldInvariant

\* What phones know of their users' conversations, in every reachable state.
THEOREM PhonesAreTold == Spec => []ToldInvariant
<1>1. Init => ToldInvariant
  BY InitIsTold
<1>2. TypeOK /\ SafetyInvariant /\ ToldInvariant /\ [Next]_vars => ToldInvariant'
  BY KnownStaysGrowing, AnswersStayTold, AppliedPointersStay, OpenersStayAnnounced
     DEF ToldInvariant, SafetyInvariant
<1>3. QED
  BY <1>1, <1>2, TypeCorrect, Safety, PTL DEF Spec


\* A phone believes in a conversation when its listener knows the entry or a
\* write of it is outstanding.
ViewMeans ==
    \A u, v \in Users :
        DB!View(u, Pointer(u, v)) # Absent
            <=> \/ cache[u][Pointer(u, v)] # Absent
                \/ \E i \in 1..Len(puts[u]) : puts[u][i].path = Pointer(u, v)

LEMMA ViewIsCacheAndPuts == TypeOK /\ PutsSafe => ViewMeans
<1> SUFFICES ASSUME TypeOK, PutsSafe, NEW u \in Users, NEW v \in Users
    PROVE  DB!View(u, Pointer(u, v)) # Absent
               <=> \/ cache[u][Pointer(u, v)] # Absent
                   \/ \E i \in 1..Len(puts[u]) : puts[u][i].path = Pointer(u, v)
  BY DEF ViewMeans
<1> DEFINE p == Pointer(u, v)
           S == DB!Pending(u, p)
<1>1. puts[u] \in Seq(DB!Put) /\ DOMAIN puts[u] = 1..Len(puts[u])
  BY ConnectionTypes, LenProperties
<1>2. p \in Pointers \union Entries
  BY DEF Pointers
<1>3. \A i : i \in S <=> i \in 1..Len(puts[u]) /\ puts[u][i].path = p
  BY <1>1 DEF DB!Pending
<1>4. CASE S = {}
  <2>1. DB!View(u, p) = cache[u][p]
    BY <1>4 DEF DB!View
  <2>2. QED
    BY <1>3, <1>4, <2>1
<1>5. CASE S # {}
  <2>1. DBP!Pending(u, p) = S /\ DBP!Latest(S) = DB!Latest(S)
    BY DEF DB!Pending, DBP!Pending, DB!Latest, DBP!Latest
  <2>2. DBP!Latest(DBP!Pending(u, p)) \in DBP!Pending(u, p)
    BY <1>2, <1>5, <2>1, SamePredicates, DatabaseConstants, DBP!LatestIsPending DEF TypeOK
  <2>3. PICK i \in S : i = DB!Latest(S)
    BY <2>1, <2>2
  <2>4. i \in 1..Len(puts[u]) /\ puts[u][i].path = p
    BY <1>3, <2>3
  <2>5. puts[u][i].value # Absent
    BY <2>4 DEF PutsSafe, PutSafe
  <2>6. DB!View(u, p) = puts[u][i].value
    BY <1>5, <2>3 DEF DB!View
  <2>7. QED
    BY <2>4, <2>5, <2>6
<1>6. QED
  BY <1>4, <1>5

\* What a step leaves of the two.
LEMMA KnownEntryStays ==
  ASSUME TypeOK, PutsSafe, KnownGrows, AnswersTell, [Next]_vars, Unrefused',
         NEW u \in Users, NEW v \in Users,
         \/ cache[u][Pointer(u, v)] # Absent
         \/ \E i \in 1..Len(puts[u]) : puts[u][i].path = Pointer(u, v)
  PROVE  \/ cache'[u][Pointer(u, v)] # Absent
         \/ \E i \in 1..Len(puts'[u]) : puts'[u][i].path = Pointer(u, v)
<1> DEFINE p == Pointer(u, v)
<1>1. PICK n \in Nat : n = Len(puts[u])
  BY ConnectionTypes
<1>2. CASE SameFor(u) \/ WroteFor(u) \/ ResetFor(u) \/ ToldFor(u)
  <2>1. /\ cache'[u] = cache[u]
        /\ \A i \in 1..n : i \in 1..Len(puts'[u]) /\ puts'[u][i].path = puts[u][i].path
    BY <1>1, <1>2 DEF SameFor, WroteFor, ResetFor, ToldFor
  <2>2. QED
    BY <1>1, <2>1
<1>3. CASE HandledFor(u)
  <2>1. PICK k \in Nat : k = Len(inbox[u]) /\ k > 0
    BY <1>3, ConnectionTypes DEF HandledFor
  <2>2. 1 \in 1..k /\ cache'[u] = inbox[u][1].data
    BY <1>3, <2>1 DEF HandledFor
  <2>3. cache[u][p] # Absent => cache'[u][p] # Absent
    BY <2>1, <2>2 DEF KnownGrows
  <2>4. ASSUME NEW i \in 1..n, puts[u][i].path = p
        PROVE  \/ cache'[u][p] # Absent
               \/ \E j \in 1..Len(puts'[u]) : puts'[u][j].path = p
    <3>1. CASE inbox[u][1].answer = "none"
      BY <1>1, <1>3, <2>4, <3>1 DEF HandledFor
    <3>2. CASE inbox[u][1].answer # "none"
      <4>1. /\ applied[u] > 0 /\ Len(puts'[u]) = n - 1
            /\ \A j \in 1..(n - 1) : puts'[u][j] = puts[u][j + 1]
        BY <1>1, <1>3, <3>2 DEF HandledFor
      <4>2. CASE i = 1
        <5>1. PICK f \in [0..k -> 0..applied[u]] :
                  /\ f[0] = 0
                  /\ \A j \in 1..k : f[j] = f[j - 1] + IF inbox[u][j].answer = "none" THEN 0 ELSE 1
                  /\ \A j \in 1..k : \A l \in 1..f[j] : \A x \in Users :
                         puts[u][l].path = Pointer(u, x) => inbox[u][j].data[Pointer(u, x)] # Absent
          <6>1. Unrefused
            BY RefusalsAreKept
          <6>2. QED
            BY <2>1, <6>1 DEF AnswersTell, Counts
        <5>2. f[1] = f[1 - 1] + 1
          BY <2>2, <3>2, <5>1
        <5>3. f[1] = 1
          BY <5>1, <5>2
        <5>4. 1 \in 1..f[1]
          BY <5>3
        <5>5. inbox[u][1].data[p] # Absent
          BY <2>2, <2>4, <4>2, <5>1, <5>4
        <5>6. QED
          BY <2>2, <5>5
      <4>3. CASE i # 1
        <5>1. PICK j \in 1..(n - 1) : i = j + 1
          BY <1>1, <4>3
        <5>2. puts'[u][j].path = p
          BY <2>4, <4>1, <5>1
        <5>3. QED
          BY <4>1, <5>2
      <4>4. QED
        BY <4>2, <4>3
    <3>3. QED
      BY <3>1, <3>2
  <2>5. QED
    BY <1>1, <2>3, <2>4
<1>4. QED
  BY <1>2, <1>3, EveryStepFor

\* Through acknowledgements, reconnections, restarts and writes sent again, a
\* phone that knows of a conversation with a peer never again believes that
\* there is none.
THEOREM ConversationsAreNotForgotten == Spec => ViewNeverForgets
<1> DEFINE Inv == TypeOK /\ SafetyInvariant /\ ToldInvariant /\ ViewMeans
           Kept == Unrefused' =>
                      \A u, v \in Users :
                          synced[u] /\ DB!View(u, Pointer(u, v)) # Absent
                              => DB!View(u, Pointer(u, v))' # Absent
<1>1. TypeOK /\ SafetyInvariant => ViewMeans
  BY ViewIsCacheAndPuts DEF SafetyInvariant
<1>2. Spec => []Inv
  BY <1>1, TypeCorrect, Safety, PhonesAreTold, PTL
<1>3. Inv /\ Inv' /\ [Next]_vars => Kept
  <2> SUFFICES ASSUME TypeOK, SafetyInvariant, ToldInvariant, ViewMeans, ViewMeans', [Next]_vars,
                      Unrefused', NEW u \in Users, NEW v \in Users,
                      DB!View(u, Pointer(u, v)) # Absent
               PROVE  DB!View(u, Pointer(u, v))' # Absent
    OBVIOUS
  <2>1. \/ cache[u][Pointer(u, v)] # Absent
        \/ \E i \in 1..Len(puts[u]) : puts[u][i].path = Pointer(u, v)
    BY DEF ViewMeans
  <2>2. \/ cache'[u][Pointer(u, v)] # Absent
        \/ \E i \in 1..Len(puts'[u]) : puts'[u][i].path = Pointer(u, v)
    BY <2>1, KnownEntryStays DEF SafetyInvariant, ToldInvariant
  <2>3. QED
    BY <2>2 DEF ViewMeans
<1>4. QED
  BY <1>2, <1>3, PTL DEF Spec, ViewNeverForgets

\* A conversation that alone was opened between two users, and whose sender
\* was told so, is found from both sides once everything has settled.
THEOREM BothSidesFindTheConversation == Spec => []SoleConversationIsShared
<1>1. TypeOK /\ SafetyInvariant /\ ToldInvariant => SoleConversationIsShared
  <2> SUFFICES ASSUME TypeOK, SafetyInvariant, ToldInvariant, DB!Quiet, Unrefused,
                      NEW l \in Messages, stage[l] = "sent",
                      {k \in Messages : Created(k) /\ Pair(k) = Pair(l)} = {l}
               PROVE  tree[Pointer(From[l], To[l])] = l /\ tree[Pointer(To[l], From[l])] = l
    BY DEF SoleConversationIsShared
  <2>1. From[l] \in Users /\ To[l] \in Users
    BY MessagingAssumption
  <2>2. Written(l, l)
    BY DEF Created, StoredAt, Written
  <2>3. Announced(Pointer(From[l], To[l])) /\ Announced(Pointer(To[l], From[l]))
    BY <2>2 DEF ToldInvariant, OpenersAnnounce
  <2>4. \A u \in Users : 1..Len(puts[u]) = {}
    BY DEF DB!Quiet
  <2>5. ASSUME NEW u \in Users, NEW v \in Users, {u, v} = Pair(l), Announced(Pointer(u, v))
        PROVE  tree[Pointer(u, v)] = l
    <3>1. tree[Pointer(u, v)] # Absent
      BY <2>4, <2>5 DEF Announced
    <3>2. tree[Pointer(u, v)] \in DB!Stored
      <4>1. Pointer(u, v) \in Pointers
        BY DEF Pointers
      <4>2. QED
        BY <4>1, ConnectionTypes DEF DB!Trees
    <3>3. PICK k \in Messages : k = tree[Pointer(u, v)]
      BY <3>1, <3>2 DEF DB!Stored
    <3>4. Created(k) /\ Pair(k) = Pair(l)
      BY <2>5, <3>1, <3>3 DEF SafetyInvariant, IndexSafe, Shared
    <3>5. QED
      BY <3>3, <3>4
  <2>6. Pair(l) = {From[l], To[l]} /\ Pair(l) = {To[l], From[l]}
    BY DEF Pair
  <2>7. QED
    BY <2>1, <2>3, <2>5, <2>6
<1>2. QED
  BY <1>1, TypeCorrect, Safety, PhonesAreTold, PTL


=============================================================================

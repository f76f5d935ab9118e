----------------------------- MODULE Messaging ------------------------------
(***************************************************************************)
(* Sending a message: MessageRemoteRepository.send and uploadMessage on    *)
(* every user's phone, over the Realtime Database.                         *)
(*                                                                         *)
(* The two users of a chat share one node of messages, and each keeps in   *)
(* users/<self>/conversations/<peer> the location of that node.  A send    *)
(* reads the sender's own entry.  When there is one, the message is        *)
(* appended at its location; when there is none, the message opens a new   *)
(* conversation and the completion block of that write sets both entries.  *)
(*                                                                         *)
(* A conversation is named by the message that opened it.                  *)
(***************************************************************************)
EXTENDS Naturals, Sequences, FiniteSets

CONSTANTS
    Users,          \* accounts, each signed in on one phone
    Messages,       \* every message a behaviour may contain
    From, To,       \* From[m], To[m]: its sender and its recipient
    Photos,         \* the messages whose content is uploaded first
    Absent,         \* no value
    Nobody,         \* no completion block
    MaxFaults       \* bounds on drops, crashes and refusals

ASSUME MessagingAssumption ==
    /\ From \in [Messages -> Users]
    /\ To \in [Messages -> Users]
    /\ \A m \in Messages : From[m] # To[m]
    /\ Photos \subseteq Messages
    /\ Absent \notin Messages
    /\ Nobody \notin Messages
    /\ MaxFaults \in [{"drop", "crash", "refuse"} -> Nat]

VARIABLES tree, puts, applied, inbox, cache, synced, online, blocks, faults,
    stage           \* stage[m]: how far the send of m has come

\* users/<u>/conversations/<v>/location
Pointer(u, v) == <<"index", u, v>>

\* conversations/<l>/<m>
Entry(l, m) == <<"conversation", l, m>>

Pointers == {Pointer(u, v) : u \in Users, v \in Users}
Entries == {Entry(l, m) : l \in Messages, m \in Messages}

\* ConversationsVC listens to the user's whole index for as long as it lives.
OwnIndex == [u \in Users |-> {Pointer(u, v) : v \in Users}]

DB == INSTANCE RealtimeDatabase WITH
          Clients <- Users, Paths <- Pointers \union Entries, Values <- Messages,
          Watch <- OwnIndex, Callers <- Messages

dbVars == <<tree, puts, applied, inbox, cache, synced, online, blocks, faults>>
vars == <<dbVars, stage>>

UnderWay == {"uploading", "reading", "asked", "appending", "creating", "publishing"}
Over == {"sent", "failed", "dropped", "interrupted"}
Stages == {"idle"} \union UnderWay \union Over

TypeOK == DB!DbTypeOK /\ stage \in [Messages -> Stages]

Init == DB!DbInit /\ stage = [m \in Messages |-> "idle"]

-----------------------------------------------------------------------------
Move(m, s) == stage' = [stage EXCEPT ![m] = s]

\* The completion block of a create makes two calls; the main thread runs
\* nothing else between them.
MainIdle(u) == \A m \in Messages : From[m] = u => stage[m] # "publishing"

\* The next block on the main queue of m's sender is one of m's, and the
\* closure that handles such an answer.
BlockOf(m) == Head(blocks[From[m]])
HasBlock(m, answers) ==
    /\ MainIdle(From[m])
    /\ blocks[From[m]] # <<>>
    /\ BlockOf(m).caller = m /\ BlockOf(m).answer \in answers

Write(m, p, v, caller) == DB!Enqueue(From[m], [path |-> p, value |-> v, caller |-> caller])

-----------------------------------------------------------------------------
(* Faulty variants of the actions below, each a bug that this code could     *)
(* have (see RealtimeDatabase).                                              *)

\* ReadPointer: the entry of any peer is read.
ReadAnyPointer(m) ==
    /\ stage[m] = "reading"
    /\ \E v \in Users : DB!Observe(From[m], Pointer(From[m], v), m)
    /\ Move(m, "asked")

\* AppendMessage: completion(true) without waiting for the answer.
AppendWithoutWaiting(m) ==
    /\ stage[m] = "asked" /\ HasBlock(m, {"value"})
    /\ BlockOf(m).value # Absent
    /\ Write(m, Entry(BlockOf(m).value, m), m, Nobody)
    /\ Move(m, "sent")
    /\ DB!RunBlock(From[m])

\* CreateConversation: the sender's entry is set before the conversation.
CreateAfterPublishing(m) ==
    /\ stage[m] = "asked" /\ HasBlock(m, {"value"})
    /\ BlockOf(m).value = Absent
    /\ puts' = [puts EXCEPT ![From[m]] = @ \o
           <<[path |-> Pointer(From[m], To[m]), value |-> m, caller |-> Nobody],
             [path |-> Entry(m, m), value |-> m, caller |-> m]>>]
    /\ Move(m, "creating")
    /\ DB!RunBlock(From[m])

\* PublishToPeer: the peer's entry is forgotten.
PublishToNobody(m) ==
    /\ stage[m] = "publishing"
    /\ Move(m, "sent")
    /\ UNCHANGED dbVars

\* Crash: the sends under way start again after the restart.
CrashAndSendAgain(u) ==
    /\ DB!Crash(u)
    /\ stage' = [m \in Messages |->
           IF From[m] = u /\ stage[m] \in UnderWay THEN "idle" ELSE stage[m]]

-----------------------------------------------------------------------------
\* ChatVC.composeMessage: text and locations go straight to uploadMessage, the
\* image of a photo is put into Storage first.
Compose(m) ==
    /\ stage[m] = "idle"
    /\ MainIdle(From[m])
    /\ Move(m, IF m \in Photos THEN "uploading" ELSE "reading")
    /\ UNCHANGED dbVars

\* putData and downloadURL succeeded: uploadMessage.
Uploaded(m) ==
    /\ stage[m] = "uploading"
    /\ MainIdle(From[m])
    /\ Move(m, "reading")
    /\ UNCHANGED dbVars

\* One of them failed: nothing is written and no completion is called.
UploadFailed(m) ==
    /\ stage[m] = "uploading"
    /\ MainIdle(From[m])
    /\ Move(m, "dropped")
    /\ UNCHANGED dbVars

\* The sender's index entry is read: the value is fixed here, off the main
\* thread, and handed to a block.
ReadPointer(m) ==
    /\ stage[m] = "reading"
    /\ DB!Observe(From[m], Pointer(From[m], To[m]), m)
    /\ Move(m, "asked")

\* That block runs and finds a location: the message is appended there.
AppendMessage(m) ==
    /\ stage[m] = "asked" /\ HasBlock(m, {"value"})
    /\ BlockOf(m).value # Absent
    /\ Write(m, Entry(BlockOf(m).value, m), m, m)
    /\ Move(m, "appending")
    /\ DB!RunBlock(From[m])

\* It finds none: the message opens a conversation.
CreateConversation(m) ==
    /\ stage[m] = "asked" /\ HasBlock(m, {"value"})
    /\ BlockOf(m).value = Absent
    /\ Write(m, Entry(m, m), m, m)
    /\ Move(m, "creating")
    /\ DB!RunBlock(From[m])

\* The server answered the append: completion(error == nil).
Appended(m) ==
    /\ stage[m] = "appending" /\ HasBlock(m, {"ok", "refused"})
    /\ Move(m, IF BlockOf(m).answer = "ok" THEN "sent" ELSE "failed")
    /\ DB!RunBlock(From[m])
    /\ UNCHANGED puts

\* The server answered the create.  The block ignores the error and sets the
\* sender's entry ...
PublishToSelf(m) ==
    /\ stage[m] = "creating" /\ HasBlock(m, {"ok", "refused"})
    /\ Write(m, Pointer(From[m], To[m]), m, Nobody)
    /\ Move(m, "publishing")
    /\ DB!RunBlock(From[m])

\* ... then the peer's, and calls completion(true).
PublishToPeer(m) ==
    /\ stage[m] = "publishing"
    /\ Write(m, Pointer(To[m], From[m]), m, Nobody)
    /\ Move(m, "sent")
    /\ UNCHANGED <<tree, applied, inbox, cache, synced, online, blocks, faults>>

\* The sender's process dies: the database keeps what it persisted, the sends
\* under way are forgotten.
Crash(u) ==
    /\ DB!Crash(u)
    /\ stage' = [m \in Messages |->
           IF From[m] = u /\ stage[m] \in UnderWay THEN "interrupted" ELSE stage[m]]

-----------------------------------------------------------------------------
Send(m) ==
    \/ Uploaded(m) \/ UploadFailed(m)
    \/ ReadPointer(m)
    \/ AppendMessage(m) \/ CreateConversation(m)
    \/ Appended(m)
    \/ PublishToSelf(m) \/ PublishToPeer(m)

Network(u) ==
    /\ DB!Progress(u) \/ DB!Fault(u)
    /\ UNCHANGED stage

Next ==
    \/ \E m \in Messages : Compose(m) \/ Send(m)
    \/ \E u \in Users : Network(u) \/ Crash(u)

Spec == Init /\ [][Next]_vars

\* A phone that is offline reconnects with a back-off, the server and the
\* library handle what they have been sent, and the main queue runs its
\* blocks.  Composing is up to the user and no fault has to happen.
Fairness ==
    /\ \A u \in Users : WF_vars(DB!Connect(u) /\ UNCHANGED stage)
    /\ \A u \in Users : WF_vars(DB!Apply(u) /\ UNCHANGED stage)
    /\ \A u \in Users : WF_vars(DB!Deliver(u) /\ UNCHANGED stage)
    /\ \A m \in Messages : WF_vars(Send(m))

FairSpec == Spec /\ Fairness

-----------------------------------------------------------------------------
Pair(m) == {From[m], To[m]}
Created(l) == tree[Entry(l, l)] # Absent
StoredAt(l, m) == tree[Entry(l, m)] # Absent
IsStored(m) == \E l \in Messages : StoredAt(l, m)
Unrefused == faults["refuse"] = 0

\* An index entry never leads to a conversation that was not stored, and
\* nothing is appended to one that was not opened.  The create is answered
\* before the entries are set (MessageRemoteRepository.swift:145-151); a
\* refused create is published all the same, so this needs a server that
\* refuses nothing.
NoDanglingPointer ==
    Unrefused =>
        /\ \A u, v \in Users : LET l == tree[Pointer(u, v)] IN l # Absent => Created(l)
        /\ \A l, m \in Messages : StoredAt(l, m) => Created(l)

\* A message is only ever stored in, and an index entry only ever leads to, a
\* conversation of the two users concerned.
NoCrossTalk ==
    /\ \A u, v \in Users :
           LET l == tree[Pointer(u, v)] IN l # Absent => Pair(l) = {u, v}
    /\ \A l, m \in Messages : StoredAt(l, m) => Pair(l) = Pair(m)

\* Sent again after a lost answer or a restart, a message is still stored in
\* one place (the key is drawn once, by childByAutoId, before the first try).
StoredOnce ==
    \A m, k, l \in Messages : StoredAt(k, m) /\ StoredAt(l, m) => k = l

\* completion(true) is called only for what the server has stored.
SentIsStored ==
    Unrefused => \A m \in Messages : stage[m] = "sent" => IsStored(m)

\* When one conversation was opened between two users and its send ran to the
\* end, then once everything has settled both users' entries lead to it.
SoleConversationIsShared ==
    DB!Quiet /\ Unrefused =>
        \A l \in Messages :
            (/\ stage[l] = "sent"
             /\ {k \in Messages : Created(k) /\ Pair(k) = Pair(l)} = {l})
            => /\ tree[Pointer(From[l], To[l])] = l
               /\ tree[Pointer(To[l], From[l])] = l

\* Once a phone knows a conversation with a peer it never again believes that
\* there is none, through acknowledgements, reconnections and restarts: it is
\* what keeps a sender from opening a second conversation by itself.
ViewNeverForgets ==
    [][Unrefused' =>
          \A u, v \in Users :
              synced[u] /\ DB!View(u, Pointer(u, v)) # Absent
                  => DB!View(u, Pointer(u, v))' # Absent]_vars

\* No update of a user's index is missed (see RealtimeDatabase).
CacheConverges == DB!CacheConverges

\* Every send comes to an end: its completion is called, or it is dropped by
\* a failed upload, or its process died.
SendsSettle ==
    \A m \in Messages : stage[m] \in UnderWay ~> stage[m] \in Over

\* m and the two entries of the index that a conversation opened by m gets.
Places(m) == {Entry(l, m) : l \in Messages}
Entrances(m) == {Pointer(From[m], To[m]), Pointer(To[m], From[m])}

\* A write of m to p that the server has yet to apply on this connection.
Outstanding(m, p) ==
    \E i \in 1..Len(puts[From[m]]) :
        /\ i > applied[From[m]]
        /\ puts[From[m]][i].path = p /\ puts[From[m]][i].value = m

\* A write that was handed to the database, of a message or of an entry of the
\* index, takes effect on the server, through drops, crashes and restarts.
\* And a message that opens a conversation is followed by both its entries
\* (MessageRemoteRepository.swift:149-151), unless its sender's process ended
\* first: what is sent again after a restart has no completion block.
WritesArrive ==
    \A m \in Messages :
        /\ \A p \in Places(m) \union Entrances(m) :
               Outstanding(m, p) ~> (tree[p] = m \/ ~Unrefused)
        /\ \A p \in Entrances(m) :
               stage[m] = "creating"
                   ~> (tree[p] = m \/ stage[m] = "interrupted" \/ ~Unrefused)

\* A message whose sender was told that it was sent is, once everything has
\* settled, in the conversation its recipient's index leads to.
DeliveredWhenSent ==
    DB!Quiet =>
        \A m \in Messages : stage[m] = "sent" =>
            \E l \in Messages : tree[Pointer(To[m], From[m])] = l /\ StoredAt(l, m)

-----------------------------------------------------------------------------
(* Why it works: an inductive invariant *)

\* l may be the conversation of u and v.
Shared(l, u, v) == Pair(l) = {u, v} /\ (Unrefused => Created(l))

\* An index as the server, a cache or a frame has it.
IndexSafe(t) ==
    \A u, v \in Users : t[Pointer(u, v)] # Absent => Shared(t[Pointer(u, v)], u, v)

\* An outstanding write of u.
PutSafe(u, w) ==
    /\ w.value # Absent
    /\ w.caller # Nobody => From[w.caller] = u
    /\ \A x, y \in Users : w.path = Pointer(x, y) =>
           w.caller = Nobody /\ Shared(w.value, x, y)
    /\ \A l, m \in Messages : w.path = Entry(l, m) =>
           /\ w.caller \in {m, Nobody}
           /\ Pair(l) = Pair(m)
           /\ l # m /\ Unrefused => Created(l)

\* A block on the main queue of u.
BlockSafe(u, b) ==
    /\ From[b.caller] = u
    /\ b.value # Absent => Shared(b.value, From[b.caller], To[b.caller])
    /\ Unrefused => b.answer # "refused"
    /\ Unrefused /\ b.answer = "ok" => IsStored(b.caller)

\* A frame on its way.
FrameSafe(f) == IndexSafe(f.data) /\ (Unrefused => f.answer # "refused")

PutsSafe == \A u \in Users : \A i \in 1..Len(puts[u]) : PutSafe(u, puts[u][i])
BlocksSafe == \A u \in Users : \A i \in 1..Len(blocks[u]) : BlockSafe(u, blocks[u][i])
FramesSafe == \A u \in Users : \A i \in 1..Len(inbox[u]) : FrameSafe(inbox[u][i])
CachesSafe == \A u \in Users : IndexSafe(cache[u])

\* What the server has answered on this connection, it has stored.
AppliedSafe ==
    \A u \in Users :
        /\ applied[u] <= Len(puts[u])
        /\ Unrefused =>
               \A i \in 1..applied[u] : \A l, m \in Messages :
                   puts[u][i].path = Entry(l, m) => StoredAt(l, m)

EntriesSafe ==
    \A l, m \in Messages :
        StoredAt(l, m) => Pair(l) = Pair(m) /\ (Unrefused => Created(l))

\* m is stored at l, or a write of it there is outstanding.
Written(l, m) ==
    \/ StoredAt(l, m)
    \/ \E u \in Users : \E i \in 1..Len(puts[u]) : puts[u][i].path = Entry(l, m)

WrittenOnce ==
    \A k, l, m \in Messages :
        /\ Written(l, m) => stage[m] \in {"appending", "creating", "publishing"} \union Over
        /\ Written(l, m) /\ stage[m] = "creating" => l = m
        /\ Written(k, m) /\ Written(l, m) => k = l

StagesSafe ==
    Unrefused =>
        \A m \in Messages :
            /\ stage[m] = "publishing" => Created(m)
            /\ stage[m] = "sent" => IsStored(m)

\* Everything above at once.  Together with TypeOK it is preserved by every
\* step, and it implies NoDanglingPointer, NoCrossTalk, StoredOnce and
\* SentIsStored.
SafetyInvariant ==
    /\ IndexSafe(tree) /\ EntriesSafe
    /\ PutsSafe /\ BlocksSafe /\ FramesSafe /\ CachesSafe /\ AppliedSafe
    /\ WrittenOnce /\ StagesSafe

-----------------------------------------------------------------------------
(* What the service promises, of which this is an implementation *)

Service == INSTANCE ChatService WITH
    mail <- {e \in Messages \X Messages : StoredAt(e[1], e[2])},
    directory <- [e \in {<<From[m], To[m]>> : m \in Messages}
                            \union {<<To[m], From[m]>> : m \in Messages} |->
                     tree[Pointer(e[1], e[2])]]

ServiceIsImplemented == Service!ServiceSpec

=============================================================================

-------------------------- MODULE RealtimeDatabase --------------------------
(***************************************************************************)
(* The Firebase Realtime Database as the app uses it: one server tree, and *)
(* in every client the vendored library of Pods/FirebaseDatabase with      *)
(* disk persistence enabled (AppDelegate.swift:35).                        *)
(*                                                                         *)
(* A client writes optimistically.  A write is persisted, overlaid on the  *)
(* server data the client has cached, and kept outstanding until the       *)
(* server answers it; a new connection first restores the listens, then    *)
(* sends every outstanding write again, in order.  So a write reaches the  *)
(* server at least once, and the answer of a write that took effect may be *)
(* lost.                                                                   *)
(*                                                                         *)
(* A module that uses the database says with Enqueue, Observe and RunBlock *)
(* what its callbacks do; the other actions are the library's and the      *)
(* network's own.                                                          *)
(***************************************************************************)
EXTENDS Naturals, Sequences, FiniteSets

CONSTANTS
    Clients,        \* installations of the app
    Paths,          \* the places of the tree the app reads and writes
    Values,         \* what may be stored there
    Absent,         \* the value of a path nothing is stored at
    Watch,          \* Watch[c]: the paths client c keeps a listener on
    Callers,        \* who may be waiting for an answer
    Nobody,         \* tags a write that was given no completion block
    MaxFaults       \* how many drops, crashes and refusals a behaviour may have

VARIABLES
    tree,           \* the server's data
    puts,           \* puts[c]: outstandingPuts, oldest first; persisted
    applied,        \* applied[c]: how many of them this connection's server side answered
    inbox,          \* inbox[c]: what the server has sent on c's connection
    cache,          \* cache[c]: server data under c's listeners; persisted
    synced,         \* synced[c]: the listeners were answered once; persisted
    online,         \* online[c]: connectionState = ConnectionStateConnected
    blocks,         \* blocks[c]: blocks dispatched to the app's main queue, not yet run
    faults          \* faults spent so far

dbVars == <<tree, puts, applied, inbox, cache, synced, online, blocks, faults>>

FaultKinds == {"drop", "crash", "refuse"}
Stored == Values \union {Absent}

ASSUME DatabaseAssumption ==
    /\ Watch \in [Clients -> SUBSET Paths]
    /\ MaxFaults \in [FaultKinds -> Nat]

\* An outstanding write, and who waits for its completion block.
Put == [path : Paths, value : Stored, caller : Callers \union {Nobody}]

\* What a client's listeners see of a tree.
Watched(t, c) == [p \in Paths |-> IF p \in Watch[c] THEN t[p] ELSE Absent]

Trees == [Paths -> Stored]
Answers == {"none", "ok", "refused"}
Frames == [data : Trees, answer : Answers]

\* A server frame: the data under the listeners, and perhaps the answer to
\* the oldest outstanding write.
Frame(t, c, answer) == [data |-> Watched(t, c), answer |-> answer]

\* A block on the main queue: the answer to a read or to a write.
Block == [caller : Callers, answer : {"value", "ok", "refused"}, value : Stored]

DbTypeOK ==
    /\ tree \in Trees
    /\ puts \in [Clients -> Seq(Put)]
    /\ applied \in [Clients -> Nat]
    /\ inbox \in [Clients -> Seq(Frames)]
    /\ cache \in [Clients -> Trees]
    /\ synced \in [Clients -> BOOLEAN]
    /\ online \in [Clients -> BOOLEAN]
    /\ blocks \in [Clients -> Seq(Block)]
    /\ faults \in [FaultKinds -> Nat]

DbInit ==
    /\ tree = [p \in Paths |-> Absent]
    /\ puts = [c \in Clients |-> <<>>]
    /\ applied = [c \in Clients |-> 0]
    /\ inbox = [c \in Clients |-> <<>>]
    /\ cache = [c \in Clients |-> [p \in Paths |-> Absent]]
    /\ synced = [c \in Clients |-> FALSE]
    /\ online = [c \in Clients |-> FALSE]
    /\ blocks = [c \in Clients |-> <<>>]
    /\ faults = [k \in FaultKinds |-> 0]

-----------------------------------------------------------------------------
(* What the client itself sees *)

Pending(c, p) == {i \in DOMAIN puts[c] : puts[c][i].path = p}

Latest(S) == CHOOSE i \in S : \A j \in S : j <= i

\* Faulty: the outstanding writes are not overlaid.
ViewWithoutOverlay(c, p) == cache[c][p]

\* The cached server data with the client's own outstanding writes on top.
View(c, p) ==
    IF Pending(c, p) = {} THEN cache[c][p] ELSE puts[c][Latest(Pending(c, p))].value

-----------------------------------------------------------------------------
(* Faulty variants of the definitions below, each a bug that this code could *)
(* have.  Nothing here uses them; a property is only worth checking when it  *)
(* fails with one of them in the place of the definition it varies.          *)

Spend(kind) ==
    /\ faults[kind] < MaxFaults[kind]
    /\ faults' = [faults EXCEPT ![kind] = @ + 1]

\* Connect: the listens are not restored.
ConnectWithoutListens(c) ==
    /\ ~online[c]
    /\ online' = [online EXCEPT ![c] = TRUE]
    /\ applied' = [applied EXCEPT ![c] = 0]
    /\ UNCHANGED <<tree, puts, inbox, cache, synced, blocks, faults>>

\* Drop: the outstanding writes are cancelled.
DropCancelsPuts(c) ==
    /\ online[c]
    /\ Spend("drop")
    /\ online' = [online EXCEPT ![c] = FALSE]
    /\ applied' = [applied EXCEPT ![c] = 0]
    /\ inbox' = [inbox EXCEPT ![c] = <<>>]
    /\ puts' = [puts EXCEPT ![c] = <<>>]
    /\ UNCHANGED <<tree, cache, synced, blocks>>

\* Crash: the outstanding writes were not persisted.
CrashLosesPuts(c) ==
    /\ Spend("crash")
    /\ online' = [online EXCEPT ![c] = FALSE]
    /\ applied' = [applied EXCEPT ![c] = 0]
    /\ inbox' = [inbox EXCEPT ![c] = <<>>]
    /\ blocks' = [blocks EXCEPT ![c] = <<>>]
    /\ puts' = [puts EXCEPT ![c] = <<>>]
    /\ UNCHANGED <<tree, cache, synced>>

\* NextPut: the newest write is sent first.
NextPutNewestFirst(c) == puts[c][Len(puts[c]) - applied[c]]

-----------------------------------------------------------------------------
(* Calls of the app's callbacks *)

\* setValue and updateChildValues: persisted, overlaid and made outstanding.
Enqueue(c, w) == puts' = [puts EXCEPT ![c] = Append(@, w)]

\* observeSingleEvent: with the listener synced the library answers from what
\* it has, through a block on the main queue.
Observe(c, p, who) ==
    /\ synced[c]
    /\ blocks' = [blocks EXCEPT ![c] =
           Append(@, [caller |-> who, answer |-> "value", value |-> View(c, p)])]
    /\ UNCHANGED <<tree, puts, applied, inbox, cache, synced, online, faults>>

\* The main queue runs its oldest block, whose effect is the user's own.
RunBlock(c) ==
    /\ blocks[c] # <<>>
    /\ blocks' = [blocks EXCEPT ![c] = Tail(@)]
    /\ UNCHANGED <<tree, applied, inbox, cache, synced, online, faults>>

-----------------------------------------------------------------------------
(* The connection *)

\* The listens are restored before the outstanding writes are sent again.
Connect(c) ==
    /\ ~online[c]
    /\ online' = [online EXCEPT ![c] = TRUE]
    /\ applied' = [applied EXCEPT ![c] = 0]
    /\ inbox' = [inbox EXCEPT ![c] = <<Frame(tree, c, "none")>>]
    /\ UNCHANGED <<tree, puts, cache, synced, blocks, faults>>

\* The connection is lost, with every frame still on its way.
Drop(c) ==
    /\ online[c]
    /\ Spend("drop")
    /\ online' = [online EXCEPT ![c] = FALSE]
    /\ applied' = [applied EXCEPT ![c] = 0]
    /\ inbox' = [inbox EXCEPT ![c] = <<>>]
    /\ UNCHANGED <<tree, puts, cache, synced, blocks>>

\* The process dies.  Writes, cached data and synced listeners are on disk;
\* completion blocks are not, and a restored write has none.
Crash(c) ==
    /\ Spend("crash")
    /\ online' = [online EXCEPT ![c] = FALSE]
    /\ applied' = [applied EXCEPT ![c] = 0]
    /\ inbox' = [inbox EXCEPT ![c] = <<>>]
    /\ blocks' = [blocks EXCEPT ![c] = <<>>]
    /\ puts' = [puts EXCEPT ![c] = [i \in DOMAIN @ |-> [@[i] EXCEPT !.caller = Nobody]]]
    /\ UNCHANGED <<tree, cache, synced>>

\* An answer settles the oldest outstanding write and dispatches its
\* completion block, when it has one.
Settle(c, answer) ==
    LET oldest == Head(puts[c]) IN
    /\ puts[c] # <<>> /\ applied[c] > 0
    /\ puts' = [puts EXCEPT ![c] = Tail(@)]
    /\ applied' = [applied EXCEPT ![c] = @ - 1]
    /\ blocks' = IF oldest.caller = Nobody THEN blocks
                 ELSE [blocks EXCEPT ![c] = Append(@,
                         [caller |-> oldest.caller, answer |-> answer, value |-> Absent])]

\* Faulty Deliver: an answer is handled without the data that came before it.
DeliverAnswerOnly(c) ==
    /\ inbox[c] # <<>>
    /\ LET frame == Head(inbox[c])
       IN  IF frame.answer = "none"
           THEN cache' = [cache EXCEPT ![c] = frame.data] /\ UNCHANGED <<puts, applied, blocks>>
           ELSE Settle(c, frame.answer) /\ UNCHANGED cache
    /\ inbox' = [inbox EXCEPT ![c] = Tail(@)]
    /\ synced' = [synced EXCEPT ![c] = TRUE]
    /\ UNCHANGED <<tree, online, faults>>

\* The client handles a frame: the data replaces what its listeners knew.
Deliver(c) ==
    /\ inbox[c] # <<>>
    /\ LET frame == Head(inbox[c])
       IN  /\ cache' = [cache EXCEPT ![c] = frame.data]
           /\ IF frame.answer = "none"
              THEN UNCHANGED <<puts, applied, blocks>>
              ELSE Settle(c, frame.answer)
    /\ inbox' = [inbox EXCEPT ![c] = Tail(@)]
    /\ synced' = [synced EXCEPT ![c] = TRUE]
    /\ UNCHANGED <<tree, online, faults>>

-----------------------------------------------------------------------------
(* The server *)

NextPut(c) == puts[c][applied[c] + 1]

HasNextPut(c) == online[c] /\ applied[c] < Len(puts[c])

\* The server applies the next write of c, tells every listener of a change
\* and then answers c.
Apply(c) ==
    /\ HasNextPut(c)
    /\ LET put == NextPut(c)
           changed == tree[put.path] # put.value
       IN  /\ tree' = [tree EXCEPT ![put.path] = put.value]
           /\ inbox' = [d \in Clients |->
                  IF d = c
                  THEN Append(inbox[d], Frame(tree', d, "ok"))
                  ELSE IF online[d] /\ changed /\ put.path \in Watch[d]
                       THEN Append(inbox[d], Frame(tree', d, "none"))
                       ELSE inbox[d]]
    /\ applied' = [applied EXCEPT ![c] = @ + 1]
    /\ UNCHANGED <<puts, cache, synced, online, blocks, faults>>

\* The server rejects it (security rules, a malformed value).
Refuse(c) ==
    /\ HasNextPut(c)
    /\ Spend("refuse")
    /\ inbox' = [inbox EXCEPT ![c] = Append(@, Frame(tree, c, "refused"))]
    /\ applied' = [applied EXCEPT ![c] = @ + 1]
    /\ UNCHANGED <<tree, puts, cache, synced, online, blocks>>

-----------------------------------------------------------------------------
\* The steps the library and the server take by themselves.
Progress(c) == Connect(c) \/ Apply(c) \/ Deliver(c)
Fault(c) == Drop(c) \/ Refuse(c)

\* Nothing is under way anywhere.
Quiet ==
    \A c \in Clients :
        online[c] /\ puts[c] = <<>> /\ inbox[c] = <<>> /\ blocks[c] = <<>>

\* The newest data on its way to client c, or else what it has cached.
Newest(c) ==
    IF inbox[c] = <<>> THEN cache[c] ELSE inbox[c][Len(inbox[c])].data

\* No update is missed: on a live connection the newest frame on its way, or
\* the cache when there is none, is the tree as the listeners see it.  The
\* listen is restored with a snapshot and every later change is pushed
\* (FPersistentConnection restoreState, FRepo onDataUpdate).
CacheConverges ==
    \A c \in Clients : online[c] => Newest(c) = Watched(tree, c)

=============================================================================

----------------------------- MODULE ReadMarks ------------------------------
(***************************************************************************)
(* Read marks: markMessagesRead on every phone of one conversation, over   *)
(* the Realtime Database.                                                  *)
(*                                                                         *)
(* A message is written whole by its sender, with isRead false.  Its       *)
(* reader's phone sets the field isRead alone, when the chat is opened and *)
(* again when it is left.  Both are writes that are sent again until they  *)
(* are answered, so the older one may take effect after the newer.         *)
(*                                                                         *)
(* A path is a message of the conversation, and its value the state of     *)
(* isRead.  Both users' index entries already lead there, so the first of  *)
(* the two reads of markMessagesRead only delays the second.               *)
(***************************************************************************)
EXTENDS RealtimeDatabase, SequencesExt

CONSTANTS
    Author,         \* Author[p]: the user who sends the message p
    MaxVisits       \* MaxVisits[u]: how often u opens the chat

ASSUME ReadMarksAssumption ==
    /\ IsFiniteSet(Paths) /\ Author \in [Paths -> Clients]
    /\ Values = {"unread", "read"} /\ Absent \notin Values
    /\ Callers = [found : SUBSET Paths] /\ Nobody \notin Callers
    /\ MaxVisits \in [Clients -> Nat]

VARIABLES
    composed,       \* the messages that were handed to the library
    chatOpen,       \* chatOpen[u]: u's chat screen is on top
    visits,         \* visits[u]: how often u opened it
    wanted,         \* wanted[u]: reads of the conversation u's phone still has to make
    shown,          \* shown[u]: peers' messages on the screen when u last left it
    lost,           \* lost[u]: those of them whose marking ended with u's process
    sentAgain       \* messages whose write the server applied more than once

markVars == <<composed, chatOpen, visits, wanted, shown, lost, sentAgain>>
readMarksVars == <<dbVars, markVars>>

ReadMarksTypeOK ==
    /\ DbTypeOK
    /\ composed \subseteq Paths
    /\ chatOpen \in [Clients -> BOOLEAN]
    /\ visits \in [Clients -> Nat]
    /\ wanted \in [Clients -> Nat]
    /\ shown \in [Clients -> SUBSET Paths]
    /\ lost \in [Clients -> SUBSET Paths]
    /\ sentAgain \subseteq composed

ReadMarksInit ==
    /\ DbInit
    /\ composed = {}
    /\ chatOpen = [u \in Clients |-> FALSE]
    /\ visits = [u \in Clients |-> 0]
    /\ wanted = [u \in Clients |-> 0]
    /\ shown = [u \in Clients |-> {}]
    /\ lost = [u \in Clients |-> {}]
    /\ sentAgain = {}

-----------------------------------------------------------------------------
\* The messages u's phone knows of, and those the peer sent.
InView(u) == {m \in Paths : View(u, m) # Absent}
FromPeer(u, S) == {m \in S : Author[m] # u}

Ask(u) == wanted' = [wanted EXCEPT ![u] = @ + 1]

\* uploadMessage: the whole message is written, isRead false with it.
Compose(m) ==
    /\ m \notin composed
    /\ composed' = composed \union {m}
    /\ Enqueue(Author[m], [path |-> m, value |-> "unread", caller |-> Nobody])
    /\ UNCHANGED <<tree, applied, inbox, cache, synced, online, blocks, faults,
                   chatOpen, visits, wanted, shown, lost, sentAgain>>

\* fetchData: opening the chat marks what is there.
OpenChat(u) ==
    /\ ~chatOpen[u] /\ visits[u] < MaxVisits[u]
    /\ chatOpen' = [chatOpen EXCEPT ![u] = TRUE]
    /\ visits' = [visits EXCEPT ![u] = @ + 1]
    /\ Ask(u)
    /\ UNCHANGED <<dbVars, composed, shown, lost, sentAgain>>

\* Faulty LeaveChat: only opening marks.
LeaveWithoutMarking(u) ==
    /\ chatOpen[u]
    /\ chatOpen' = [chatOpen EXCEPT ![u] = FALSE]
    /\ shown' = [shown EXCEPT ![u] = FromPeer(u, InView(u))]
    /\ lost' = [lost EXCEPT ![u] = {}]
    /\ UNCHANGED <<dbVars, composed, visits, wanted, sentAgain>>

\* viewWillDisappear: leaving it marks what has come since.
LeaveChat(u) ==
    /\ chatOpen[u]
    /\ chatOpen' = [chatOpen EXCEPT ![u] = FALSE]
    /\ shown' = [shown EXCEPT ![u] = FromPeer(u, InView(u))]
    /\ lost' = [lost EXCEPT ![u] = {}]
    /\ Ask(u)
    /\ UNCHANGED <<dbVars, composed, visits, sentAgain>>

\* The library answers a read of the conversation from what it has, through
\* a block on the main queue that holds the messages it found.
AnswerRead(u) ==
    /\ wanted[u] > 0 /\ synced[u]
    /\ blocks' = [blocks EXCEPT ![u] =
           Append(@, [caller |-> [found |-> InView(u)], answer |-> "value", value |-> Absent])]
    /\ wanted' = [wanted EXCEPT ![u] = @ - 1]
    /\ UNCHANGED <<tree, puts, applied, inbox, cache, synced, online, faults,
                   composed, chatOpen, visits, shown, lost, sentAgain>>

Marks(S) == SetToSeq({[path |-> m, value |-> "read", caller |-> Nobody] : m \in S})

\* Faulty SetRead: whoever wrote it, a message is marked.
SetReadOnAll(u) ==
    /\ RunBlock(u)
    /\ puts' = [puts EXCEPT ![u] = @ \o Marks(Head(blocks[u]).caller.found)]
    /\ UNCHANGED markVars

\* The closure sets isRead on every message of the peer's, also where it is
\* set already.
SetRead(u) ==
    /\ RunBlock(u)
    /\ puts' = [puts EXCEPT ![u] = @ \o Marks(FromPeer(u, Head(blocks[u]).caller.found))]
    /\ UNCHANGED markVars

\* The server's step, which notes a message that is written over itself.
ApplyMark(u) ==
    /\ Apply(u)
    /\ LET put == NextPut(u)
       IN  sentAgain' = IF put.value = "unread" /\ tree[put.path] # Absent
                        THEN sentAgain \union {put.path} ELSE sentAgain
    /\ UNCHANGED <<composed, chatOpen, visits, wanted, shown, lost>>

\* The process dies, with the reads it asked for and the closures they were
\* for: where some were left, nothing will mark what it does not see as read.
RestartPhone(u) ==
    /\ Crash(u)
    /\ chatOpen' = [chatOpen EXCEPT ![u] = FALSE]
    /\ wanted' = [wanted EXCEPT ![u] = 0]
    /\ lost' = IF wanted[u] = 0 /\ blocks[u] = <<>> THEN lost
               ELSE [lost EXCEPT ![u] = {m \in shown[u] : View(u, m) # "read"}]
    /\ UNCHANGED <<composed, visits, shown, sentAgain>>

Marking(u) == AnswerRead(u) \/ SetRead(u)
Library(u) == (Connect(u) \/ Deliver(u)) /\ UNCHANGED markVars

ReadMarksNext ==
    \/ \E m \in Paths : Compose(m)
    \/ \E u \in Clients : OpenChat(u) \/ LeaveChat(u) \/ Marking(u) \/ ApplyMark(u)
    \/ \E u \in Clients : Library(u) \/ RestartPhone(u)
    \/ \E u \in Clients : Fault(u) /\ UNCHANGED markVars

ReadMarksSpec == ReadMarksInit /\ [][ReadMarksNext]_readMarksVars

-----------------------------------------------------------------------------
Settled(u) == wanted[u] = 0 /\ ~chatOpen[u]

\* After a chat was left and everything settled, what it showed is read, for
\* the sender too, through lost connections, restarts of both phones and writes
\* sent again (MessageRemoteRepository markMessagesRead against send).  Two
\* things undo that.  A message that itself was written again after a lost
\* answer is unread again, for it is written whole; and where the reader's
\* process ended before its closures ran (lines 60-76), what it did not yet
\* see as read waits for the next visit.
LeftMeansRead ==
    Quiet /\ faults["refuse"] = 0 =>
        \A u \in Clients : Settled(u) =>
            \A m \in shown[u] \ lost[u] : m \in sentAgain \/ tree[m] = "read"

\* A mark is only ever found on a message that arrived on a phone other than
\* its sender's: nobody marks his own messages, and no mark comes before its
\* message (the test of fromID in markMessagesRead).
ReadWasReceived ==
    \A m \in Paths : tree[m] = "read" =>
        \E u \in Clients \ {Author[m]} : cache[u][m] # Absent

=============================================================================

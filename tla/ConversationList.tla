-------------------------- MODULE ConversationList --------------------------
(***************************************************************************)
(* The list of conversations on one phone: showConversations, info and     *)
(* downloadLastMessage, and the table of ConversationsVC.                  *)
(*                                                                         *)
(* An index entry that is added leads, on the main queue, to a read of the *)
(* peer's profile; its picture arrives on URLSession's own queue, where    *)
(* the conversation is appended to an array and a listener is attached to  *)
(* its messages; every report of that listener, on the main queue again,   *)
(* hands the whole array to the screen, which sorts a copy and reloads.    *)
(***************************************************************************)
EXTENDS Naturals, Sequences, FiniteSets, SequencesExt

CONSTANTS
    Peers,          \* who the user may have a conversation with
    Nodes,          \* conversations that may come to be
    PeerOf,         \* PeerOf[n]: whose they are
    Texts,          \* messages: numbers in the order of their keys
    NodeOf,         \* NodeOf[m]: the conversation m is filed in
    SentAt,         \* SentAt[m]: its sender's clock, a positive number
    Malformed,      \* messages that lack a field or have it in another type
    NoNode

ASSUME ConversationListAssumption ==
    /\ PeerOf \in [Nodes -> Peers]
    /\ Texts \subseteq Nat \ {0}
    /\ NodeOf \in [Texts -> Nodes]
    /\ SentAt \in [Texts -> Nat \ {0}]
    /\ Malformed \subseteq Texts
    /\ NoNode \notin Nodes

VARIABLES
    entry,          \* entry[p]: the location in the user's index
    arrived,        \* the messages in the database
    moved,          \* peers whose entry was set to another conversation
    progress,       \* progress[p]: how far the conversation has come
    location,       \* location[p]: the location read when the entry was added
    conversations,  \* the array showConversations appends to
    lastMessage,    \* lastMessage[p]: 0 for the empty message
    items,          \* the sorted copy of ConversationsVC
    rows,           \* what the table shows: peers and their last messages
    queue           \* blocks on the main queue

listVars == <<entry, arrived, moved, progress, location, conversations,
              lastMessage, items, rows, queue>>

Steps == {"none", "added", "profile", "picture", "listed", "lost"}
Row == [peer : Peers, last : Texts \union {0}]
ListBlock ==
    [kind : {"added", "profile"}, peer : Peers]
        \union [kind : {"value"}, peer : Peers, found : SUBSET Texts]
        \union [kind : {"reload"}]

ListTypeOK ==
    /\ entry \in [Peers -> Nodes \union {NoNode}]
    /\ arrived \subseteq Texts
    /\ moved \subseteq Peers
    /\ progress \in [Peers -> Steps]
    /\ location \in [Peers -> Nodes \union {NoNode}]
    /\ conversations \in Seq(Peers) /\ IsInjective(conversations)
    /\ lastMessage \in [Peers -> Texts \union {0}]
    /\ items \in Seq(Peers) /\ ToSet(items) \subseteq ToSet(conversations)
    /\ rows \in Seq(Row)
    /\ queue \in Seq(ListBlock)

ListInit ==
    /\ entry = [p \in Peers |-> NoNode]
    /\ arrived = {}
    /\ moved = {}
    /\ progress = [p \in Peers |-> "none"]
    /\ location = [p \in Peers |-> NoNode]
    /\ conversations = <<>>
    /\ lastMessage = [p \in Peers |-> 0]
    /\ items = <<>>
    /\ rows = <<>>
    /\ queue = <<>>

-----------------------------------------------------------------------------
In(n, S) == {m \in S : NodeOf[m] = n}
Value(p, S) == [kind |-> "value", peer |-> p, found |-> In(location[p], S)]
Enter(p, s) == progress' = [progress EXCEPT ![p] = s]

\* The children of a snapshot the loop of downloadLastMessage comes to: it
\* returns at the first that does not parse.
Parsed(found) == {m \in found : \A k \in found \cap Malformed : m < k}
LastOf(S) == CHOOSE m \in S : \A k \in S : k <= m

Clock(last, p) == IF last[p] = 0 THEN 0 ELSE SentAt[last[p]]

\* Swift's sort of items, newest first; it is not stable.
Sorted(last) ==
    {s \in SetToSeqs(ToSet(conversations)) :
        \A i, j \in DOMAIN s : i < j => Clock(last, s[i]) >= Clock(last, s[j])}

RunHead(kind) ==
    /\ queue # <<>>
    /\ Head(queue).kind = kind

-----------------------------------------------------------------------------
(* What other phones do to the database *)

\* Somebody's first message sets the entry; the listener reports a new child.
AddEntry(n) ==
    LET p == PeerOf[n] IN
    /\ entry[p] = NoNode
    /\ entry' = [entry EXCEPT ![p] = n]
    /\ location' = [location EXCEPT ![p] = n]
    /\ Enter(p, "added")
    /\ queue' = Append(queue, [kind |-> "added", peer |-> p])
    /\ UNCHANGED <<arrived, moved, conversations, lastMessage, items, rows>>

\* Two first messages at once: the entry is set again.  It is the same child,
\* so .childAdded is not told.
MoveEntry(n) ==
    LET p == PeerOf[n] IN
    /\ entry[p] \notin {NoNode, n}
    /\ entry' = [entry EXCEPT ![p] = n]
    /\ moved' = moved \union {p}
    /\ UNCHANGED <<arrived, progress, location, conversations, lastMessage, items, rows, queue>>

\* Faulty Arrive: the listener was told once.
ArriveUnobserved(m) ==
    /\ m \notin arrived
    /\ arrived' = arrived \union {m}
    /\ UNCHANGED <<entry, moved, progress, location, conversations, lastMessage, items, rows, queue>>

\* A message is filed; the listener of its conversation is told of all of it.
Arrive(m) ==
    /\ m \notin arrived
    /\ arrived' = arrived \union {m}
    /\ LET p == PeerOf[NodeOf[m]]
       IN  queue' = IF progress[p] = "listed" /\ location[p] = NodeOf[m]
                    THEN Append(queue, Value(p, arrived')) ELSE queue
    /\ UNCHANGED <<entry, moved, progress, location, conversations, lastMessage, items, rows>>

-----------------------------------------------------------------------------
(* The app *)

\* .childAdded: the peer's profile is read.
Added ==
    /\ RunHead("added")
    /\ Enter(Head(queue).peer, "profile")
    /\ queue' = Append(Tail(queue), [kind |-> "profile", peer |-> Head(queue).peer])
    /\ UNCHANGED <<entry, arrived, moved, location, conversations, lastMessage, items, rows>>

\* info: the picture's download starts, unless the profile is incomplete.
ProfileRead ==
    /\ RunHead("profile")
    /\ \E s \in {"picture", "lost"} : Enter(Head(queue).peer, s)
    /\ queue' = Tail(queue)
    /\ UNCHANGED <<entry, arrived, moved, location, conversations, lastMessage, items, rows>>

\* URLSession: an error, or no image; nobody is told.
PictureLost(p) ==
    /\ progress[p] = "picture"
    /\ Enter(p, "lost")
    /\ UNCHANGED <<entry, arrived, moved, location, conversations, lastMessage, items, rows, queue>>

\* Faulty PictureArrived: the array starts anew with each conversation.
PictureArrivedInNewArray(p) ==
    /\ progress[p] = "picture"
    /\ Enter(p, "listed")
    /\ conversations' = <<p>>
    /\ queue' = IF In(location[p], arrived) = {} THEN queue
                ELSE Append(queue, Value(p, arrived))
    /\ UNCHANGED <<entry, arrived, moved, location, lastMessage, items, rows>>

\* The conversation is appended, and then its messages are listened to; a
\* node that is there is reported at once.
PictureArrived(p) ==
    /\ progress[p] = "picture"
    /\ Enter(p, "listed")
    /\ conversations' = Append(conversations, p)
    /\ queue' = IF In(location[p], arrived) = {} THEN queue
                ELSE Append(queue, Value(p, arrived))
    /\ UNCHANGED <<entry, arrived, moved, location, lastMessage, items, rows>>

\* The listener of a conversation: each child that parses becomes its last
\* message in turn, and each time the screen gets the whole array.
ValueReported ==
    /\ RunHead("value")
    /\ LET p == Head(queue).peer
           parsed == Parsed(Head(queue).found)
       IN  IF parsed = {}
           THEN queue' = Tail(queue) /\ UNCHANGED <<lastMessage, items>>
           ELSE /\ lastMessage' = [lastMessage EXCEPT ![p] = LastOf(parsed)]
                /\ items' \in Sorted(lastMessage')
                /\ queue' = Append(Tail(queue), [kind |-> "reload"])
    /\ UNCHANGED <<entry, arrived, moved, progress, location, conversations, rows>>

\* tableView.reloadData
ReloadList ==
    /\ RunHead("reload")
    /\ rows' = [i \in DOMAIN items |-> [peer |-> items[i], last |-> lastMessage[items[i]]]]
    /\ queue' = Tail(queue)
    /\ UNCHANGED <<entry, arrived, moved, progress, location, conversations, lastMessage, items>>

MainQueue == Added \/ ProfileRead \/ ValueReported \/ ReloadList
Download(p) == PictureArrived(p) \/ PictureLost(p)

ListNext ==
    \/ \E n \in Nodes : AddEntry(n) \/ MoveEntry(n)
    \/ \E m \in Texts : Arrive(m)
    \/ MainQueue
    \/ \E p \in Peers : Download(p)

\* The main queue runs and a download ends; nobody has to write.
ListFairness == WF_listVars(MainQueue) /\ \A p \in Peers : WF_listVars(Download(p))

ListSpec == ListInit /\ [][ListNext]_listVars /\ ListFairness

-----------------------------------------------------------------------------
\* Messages with no malformed one at or before them in their conversation.
Readable(n) ==
    {m \in In(n, arrived) : \A k \in Malformed \cap In(n, arrived) : k > m}
InList(p) == \E i \in DOMAIN rows : rows[i].peer = p

ListSettled == queue = <<>> /\ \A p \in Peers : progress[p] \in {"none", "listed", "lost"}

\* When nothing is under way the table shows the array, newest first; a row is
\* missing only where the picture or the profile was lost or the first message
\* does not parse, and it has the newest readable message of the conversation
\* that was listed, which only a later move of the entry makes the wrong one.
\* Where none is readable any more the row keeps what it had before a malformed
\* message with an older key came.  Downloads may end in any order and between
\* any two blocks.
SettledListIsCurrent ==
    ListSettled =>
        /\ [i \in DOMAIN rows |-> rows[i].peer] = items
        /\ \A i, j \in DOMAIN rows :
               i < j => Clock(lastMessage, rows[i].peer) >= Clock(lastMessage, rows[j].peer)
        /\ \A i \in DOMAIN rows :
               LET n == location[rows[i].peer]
               IN  IF Readable(n) # {} THEN rows[i].last = LastOf(Readable(n))
                   ELSE rows[i].last # 0 =>
                            \E k \in Malformed \cap In(n, arrived) : k < rows[i].last
        /\ \A p \in Peers :
               progress[p] = "listed" =>
                   /\ Readable(location[p]) # {} => InList(p)
                   /\ p \notin moved => location[p] = entry[p]

\* A conversation with a message gets a row, or has lost its picture.
ConversationsGetShown ==
    \A p \in Peers :
        (location[p] # NoNode /\ Readable(location[p]) # {}) ~>
            (InList(p) \/ progress[p] = "lost" \/ Readable(location[p]) = {})

=============================================================================

---------------------------- MODULE ChatService -----------------------------
(***************************************************************************)
(* What the message store promises, whatever the clients, the network and  *)
(* the caches do: a message is filed once, in a conversation of its own    *)
(* two users that some message of theirs opened, and a user's directory    *)
(* entry for a peer always leads to such a conversation.                   *)
(*                                                                         *)
(* A conversation is named by the message that opened it (its key is drawn *)
(* by childByAutoId for that message).                                     *)
(***************************************************************************)
CONSTANTS
    Messages,       \* every message a behaviour may contain
    From, To,       \* From[m], To[m]: its sender and its recipient
    Absent          \* no conversation

VARIABLES
    mail,           \* the pairs <<conversation, message>> that are stored
    directory       \* directory[<<u, v>>]: the conversation u's index has for v

serviceVars == <<mail, directory>>

Pair(m) == {From[m], To[m]}

Opened(l) == <<l, l>> \in mail

Filed(m) == \E l \in Messages : <<l, m>> \in mail

ServiceInit ==
    /\ mail = {}
    /\ directory = [e \in {<<From[m], To[m]>> : m \in Messages}
                           \union {<<To[m], From[m]>> : m \in Messages} |-> Absent]

\* A first message opens a conversation.
OpenConversation(m) ==
    /\ ~Filed(m)
    /\ mail' = mail \union {<<m, m>>}
    /\ UNCHANGED directory

\* A later one joins a conversation of the same two users.
AppendTo(m, l) ==
    /\ ~Filed(m) /\ Opened(l) /\ Pair(l) = Pair(m)
    /\ mail' = mail \union {<<l, m>>}
    /\ UNCHANGED directory

\* An index entry is set, or set again, to a conversation of its two users.
Index(e, l) ==
    /\ Opened(l) /\ {e[1], e[2]} = Pair(l)
    /\ directory' = [directory EXCEPT ![e] = l]
    /\ UNCHANGED mail

ServiceNext ==
    \/ \E m \in Messages : OpenConversation(m)
    \/ \E m, l \in Messages : AppendTo(m, l)
    \/ \E e \in DOMAIN directory, l \in Messages : Index(e, l)

ServiceSpec == ServiceInit /\ [][ServiceNext]_serviceVars

=============================================================================

-------------------------- MODULE RealtimeClients ---------------------------
(***************************************************************************)
(* The database under clients that write freely: what the vendored library *)
(* gives any user of setValue with a completion block, through lost        *)
(* connections, restarts and refusals.  A write is its own value, so that  *)
(* a value found in the tree tells which write put it there.               *)
(***************************************************************************)
EXTENDS RealtimeDatabase, SequencesExt

CONSTANTS
    Writes,         \* every write a behaviour may contain
    By, At          \* By[w], At[w]: the client that issues it, and where

ASSUME RealtimeClientsAssumption ==
    /\ By \in [Writes -> Clients]
    /\ At \in [Writes -> Paths]
    /\ Values = Writes /\ Callers = Writes
    /\ Absent \notin Writes /\ Nobody \notin Writes

VARIABLES
    issued,         \* issued[p]: the writes issued at p, in order
    outcome         \* outcome[w]: what its completion block was told

clientVars == <<issued, outcome>>
vars == <<dbVars, clientVars>>

Outcomes == {"none", "ok", "refused"}

TypeOK ==
    /\ DbTypeOK
    /\ issued \in [Paths -> Seq(Writes)]
    /\ outcome \in [Writes -> Outcomes]

Init ==
    /\ DbInit
    /\ issued = [p \in Paths |-> <<>>]
    /\ outcome = [w \in Writes |-> "none"]

-----------------------------------------------------------------------------
\* setValue(_, withCompletionBlock:) (FRepo set)
Issue(w) ==
    /\ w \notin ToSet(issued[At[w]])
    /\ Enqueue(By[w], [path |-> At[w], value |-> w, caller |-> w])
    /\ issued' = [issued EXCEPT ![At[w]] = Append(@, w)]
    /\ UNCHANGED <<tree, applied, inbox, cache, synced, online, blocks, faults, outcome>>

\* The completion block runs.
Complete(c) ==
    /\ RunBlock(c)
    /\ outcome' = [outcome EXCEPT ![Head(blocks[c]).caller] = Head(blocks[c]).answer]
    /\ UNCHANGED <<puts, issued>>

Next ==
    \/ \E w \in Writes : Issue(w)
    \/ \E c \in Clients : Complete(c)
    \/ \E c \in Clients : (Progress(c) \/ Fault(c) \/ Crash(c)) /\ UNCHANGED clientVars

Spec == Init /\ [][Next]_vars

\* The library reconnects, the server answers, the main queue runs.  Nobody
\* has to write and nothing has to fail.
Fairness ==
    \A c \in Clients :
        /\ WF_vars(Connect(c) /\ UNCHANGED clientVars)
        /\ WF_vars(Apply(c) /\ UNCHANGED clientVars)
        /\ WF_vars(Deliver(c) /\ UNCHANGED clientVars)
        /\ WF_vars(Complete(c))

FairSpec == Spec /\ Fairness

-----------------------------------------------------------------------------
\* The paths only c writes to.
Own(c) == {p \in Paths : \A w \in Writes : At[w] = p => By[w] = c}

\* How old a value is: its place among the writes in the order of issue.
Age(s, v) == Max({i \in DOMAIN s : s[i] = v} \union {0})

\* After everything has settled, a path of one writer holds what that client
\* wrote last, although earlier writes were sent again (restoreState sends the
\* outstanding puts in the order of their indexes).
LastWriteWins ==
    Quiet /\ faults["refuse"] = 0 =>
        \A c \in Clients : \A p \in Own(c) :
            issued[p] # <<>> => tree[p] = Last(issued[p])

\* A write that was reported as stored is never undone by an older one of the
\* same client: what is sent again is newer than all that was acknowledged.
AcknowledgedIsDurable ==
    \A w \in Writes :
        outcome[w] = "ok" /\ At[w] \in Own(By[w])
            => Age(issued[At[w]], tree[At[w]]) >= Age(issued[At[w]], w)

\* The writer's own view of its path never goes back in time, although the
\* server's value may while writes are sent again: the outstanding writes
\* cover what the listener reports (FWriteTree calculateCompleteEventCacheAtPath).
OwnViewMovesForward ==
    [][\A c \in Clients : \A p \in Own(c) \cap Watch[c] :
          faults'["refuse"] = 0 =>
              Age(issued[p], View(c, p))' >= Age(issued[p], View(c, p))]_vars

\* When the users stop writing, every write is settled, every block has run
\* and every client sees the server's data.
EventuallyAgrees ==
    <>[](Quiet /\ \A c \in Clients : \A p \in Watch[c] : View(c, p) = tree[p])

=============================================================================

----------------------------- MODULE ChatScreen -----------------------------
(***************************************************************************)
(* One open chat (ChatVC) on one phone: the listeners downloadAllMessages  *)
(* attaches, the array the table shows, the downloads of photos, and the   *)
(* table view, which knows as many rows as there were at its last reload.  *)
(*                                                                         *)
(* The main thread runs one block at a time; a photo is written into the   *)
(* array by a thread of URLSession, at the row it had when its download    *)
(* started.                                                                *)
(***************************************************************************)
EXTENDS Naturals, Sequences, FiniteSets, SequencesExt, TLC

CONSTANTS
    Messages,       \* every message a behaviour may contain
    Stamp,          \* Stamp[m]: its timestamp, in seconds of its sender's clock
    Photos,         \* messages with an image to download
    Pins,           \* locations this user sends from this screen
    Nodes,          \* the nodes a conversation of the two users may have; a node
                    \* that a location opens is named after the location
    Absent,         \* no node
    MaxFires        \* bounds how often others change the user's entry for the peer

ASSUME ChatScreenAssumption ==
    /\ Stamp \in [Messages -> Nat]
    /\ IsFiniteSet(Messages)
    /\ Photos \subseteq Messages /\ Pins \subseteq Messages \ Photos
    /\ Pins \subseteq Nodes /\ Absent \notin Nodes
    /\ MaxFires \in Nat

VARIABLES
    pointer,        \* the user's index entry for the peer, as the phone has it
    stored,         \* stored[m]: the node m is at, as the phone has it
    observers,      \* the node of each .childAdded listener, oldest first
    sending,        \* sending[p]: how far the send of a location has come
    main,           \* blocks on the main queue
    items,          \* ChatVC.items
    rows,           \* how many rows the table view knows
    images,         \* the message objects whose image is there
    downloads,      \* what URLSession is downloading, and for which row
    alive           \* no exception of UIKit has ended the app

data == <<pointer, stored, observers, sending>>
screen == <<items, rows, images, downloads>>
vars == <<data, main, screen, alive>>

\* A Message object: each listener makes its own.
Items == [msg : Messages, via : Nat \ {0}]
Downloads == [item : Items, row : Nat \ {0}]
Blocks ==
    [kind : {"pointer"}, node : Nodes]
        \union [kind : {"added"}, item : Items]
        \union [kind : {"reload"}]
        \union [kind : {"reloadRow"}, row : Nat \ {0}]
        \union [kind : {"write"}, msg : Pins, node : Nodes \union {Absent}]
        \union [kind : {"completed"}, msg : Pins]

TypeOK ==
    /\ pointer \in Nodes \union {Absent}
    /\ stored \in [Messages -> Nodes \union {Absent}]
    /\ observers \in Seq(Nodes)
    /\ sending \in [Pins -> {"idle", "reading", "asked", "appending", "creating", "done"}]
    /\ main \in Seq(Blocks)
    /\ items \in Seq(Items)
    /\ rows \in Nat
    /\ images \subseteq Items
    /\ downloads \subseteq Downloads
    /\ alive \in BOOLEAN

\* The screen has just been opened, on a peer with or without a conversation.
Init ==
    /\ pointer \in (Nodes \ Pins) \union {Absent}
    /\ main = IF pointer = Absent THEN <<>> ELSE <<[kind |-> "pointer", node |-> pointer]>>
    /\ stored \in [Messages -> {pointer, Absent}]
    /\ \A p \in Pins : stored[p] = Absent
    /\ sending = [p \in Pins |-> "idle"]
    /\ observers = <<>> /\ items = <<>> /\ rows = 0
    /\ images = {} /\ downloads = {}
    /\ alive = TRUE

-----------------------------------------------------------------------------
Added(m, i) == [kind |-> "added", item |-> [msg |-> m, via |-> i]]

\* Faulty Listening: every listener is told, whatever its node.
ListeningAnywhere(n) == DOMAIN observers

\* The listeners of node n; they are told one after the other, the oldest first.
Listening(n) == {i \in DOMAIN observers : observers[i] = n}
InOrder(S) == {s \in SetToSeqs(S) : \A j, k \in DOMAIN s : j < k => s[j] < s[k]}

\* The events of a message that comes to node n: one for each listener there.
EventsOf(m, n) == {[k \in DOMAIN s |-> Added(m, s[k])] : s \in InOrder(Listening(n))}

\* How often the entry has changed so far.
Fires == Len(observers) + Len(SelectSeq(main, LAMBDA b : b.kind = "pointer"))

\* Swift's sort is not stable: items of the same second may change places.
Earlier(a, b) == Stamp[a.msg] < Stamp[b.msg]
Arrangements(s) ==
    {r \in {[i \in DOMAIN s |-> s[p[i]]] : p \in SetToSeqs(DOMAIN s)} :
        \A i, j \in DOMAIN r : i < j => ~Earlier(r[j], r[i])}

\* tableView(_:cellForRowAt:): a photo without its image is downloaded.
CellForRow(row) ==
    downloads' = IF items[row].msg \in Photos /\ items[row] \notin images
                 THEN downloads \union {[item |-> items[row], row |-> row]}
                 ELSE downloads

\* The table raises an exception when it is to scroll to a row it does not
\* know; with no items the row is -1.
LastRowIsKnown == items # <<>> /\ Len(items) <= rows

\* The block the main thread runs next.
Runs(kind) == alive /\ main # <<>> /\ Head(main).kind = kind
Then(blocks) == main' = Tail(main) \o blocks

-----------------------------------------------------------------------------
(* What comes from the database *)

\* The node may be known to others: one that a location opens is once the entry
\* was set.
Public(n) == n \in Pins => sending[n] = "done" /\ stored[n] = n

\* Somebody set the entry, or set it again to something else.
SetPointer(n) ==
    /\ alive /\ pointer # n /\ Public(n) /\ Fires <= MaxFires
    /\ pointer' = n
    /\ main' = Append(main, [kind |-> "pointer", node |-> n])
    /\ UNCHANGED <<stored, observers, sending, screen, alive>>

\* A message of the peer, or one of the user's own texts and photos.
Arrive(m, n) ==
    /\ alive /\ m \notin Pins /\ stored[m] = Absent /\ Public(n)
    /\ stored' = [stored EXCEPT ![m] = n]
    /\ \E events \in EventsOf(m, n) : main' = main \o events
    /\ UNCHANGED <<pointer, observers, sending, screen, alive>>

\* The library answers the read of the entry that uploadMessage asked for: with
\* what the phone knows now, in a block behind those that are queued.
ReadEntry(p) ==
    /\ alive /\ sending[p] = "reading"
    /\ sending' = [sending EXCEPT ![p] = "asked"]
    /\ main' = Append(main, [kind |-> "write", msg |-> p, node |-> pointer])
    /\ UNCHANGED <<pointer, stored, observers, screen, alive>>

\* The server answered the write.
LocationAcked(p) ==
    /\ alive /\ sending[p] \in {"appending", "creating"}
    /\ ~ \E i \in DOMAIN main : main[i] = [kind |-> "completed", msg |-> p]
    /\ main' = Append(main, [kind |-> "completed", msg |-> p])
    /\ UNCHANGED <<data, screen, alive>>

-----------------------------------------------------------------------------
(* Blocks of the main queue *)

\* Faulty: the new listener hears only of what comes later.
AttachToLaterOnly ==
    /\ Runs("pointer")
    /\ observers' = Append(observers, Head(main).node)
    /\ Then(<<>>)
    /\ UNCHANGED <<pointer, stored, sending, screen, alive>>

\* The entry's .value listener: one more listener is attached, and it is told
\* of every message of the node.
Attach ==
    /\ Runs("pointer")
    /\ LET n == Head(main).node
           i == Len(observers) + 1
       IN  /\ observers' = Append(observers, n)
           /\ \E s \in SetToSeqs({m \in Messages : stored[m] = n}) :
                  Then([k \in DOMAIN s |-> Added(s[k], i)])
    /\ UNCHANGED <<pointer, stored, sending, screen, alive>>

\* Faulty: the item takes the place of the one of the same second.
AddItemBySecond ==
    /\ Runs("added")
    /\ LET new == Head(main).item
       IN  items' \in Arrangements(Append(
               SelectSeq(items, LAMBDA o : Stamp[o.msg] # Stamp[new.msg]), new))
    /\ Then(<<[kind |-> "reload"]>>)
    /\ UNCHANGED <<data, rows, images, downloads, alive>>

\* Faulty: the table is not told.
AddItemSilently ==
    /\ Runs("added")
    /\ items' \in Arrangements(Append(items, Head(main).item))
    /\ Then(<<>>)
    /\ UNCHANGED <<data, rows, images, downloads, alive>>

\* fetchData: append, sort, and a reload later.
AddItem ==
    /\ Runs("added")
    /\ items' \in Arrangements(Append(items, Head(main).item))
    /\ Then(<<[kind |-> "reload"]>>)
    /\ UNCHANGED <<data, rows, images, downloads, alive>>

\* reloadData and a scroll to the last row, which is laid out at once.
Reload ==
    /\ Runs("reload")
    /\ rows' = Len(items)
    /\ CellForRow(Len(items))
    /\ Then(<<>>)
    /\ UNCHANGED <<data, items, images, alive>>

\* reloadRows(at:): an exception when the number of rows has changed.
ReloadRow ==
    /\ Runs("reloadRow")
    /\ IF rows = Len(items)
       THEN CellForRow(Head(main).row) /\ UNCHANGED alive
       ELSE alive' = FALSE /\ UNCHANGED downloads
    /\ Then(<<>>)
    /\ UNCHANGED <<data, items, rows, images>>

\* The block of the read: the message goes to the node that was read, or opens
\* a new one, and the listeners there are told at once.
WriteLocation ==
    /\ Runs("write")
    /\ LET p == Head(main).msg
           opens == Head(main).node = Absent
           n == IF opens THEN p ELSE Head(main).node
       IN  /\ sending' = [sending EXCEPT ![p] = IF opens THEN "creating" ELSE "appending"]
           /\ stored' = [stored EXCEPT ![p] = n]
           /\ \E events \in EventsOf(p, n) : Then(events)
    /\ UNCHANGED <<pointer, observers, screen, alive>>

\* The completion of a location: the entry is set when the message opened the
\* conversation, and then the table scrolls to its last row.
LocationSent ==
    /\ Runs("completed")
    /\ LET p == Head(main).msg
           opens == sending[p] = "creating"
       IN  /\ sending' = [sending EXCEPT ![p] = "done"]
           /\ pointer' = IF opens THEN stored[p] ELSE pointer
           /\ Then(IF opens /\ pointer # stored[p]
                   THEN <<[kind |-> "pointer", node |-> stored[p]]>> ELSE <<>>)
    /\ alive' = LastRowIsKnown
    /\ UNCHANGED <<stored, observers, screen>>

-----------------------------------------------------------------------------
(* The user, between two blocks *)

\* MapPreviewDelegate.send(location:): uploadMessage asks for the entry.
SendLocation(p) ==
    /\ alive /\ sending[p] = "idle"
    /\ sending' = [sending EXCEPT ![p] = "reading"]
    /\ UNCHANGED <<pointer, stored, observers, main, screen, alive>>

\* A row comes into sight.
ShowRow(row) ==
    /\ alive /\ row \in 1..rows
    /\ CellForRow(row)
    /\ UNCHANGED <<data, main, items, rows, images, alive>>

\* showKeyboard and hideKeyboard scroll to the last row when there are items.
Keyboard ==
    /\ alive /\ items # <<>>
    /\ alive' = LastRowIsKnown
    /\ UNCHANGED <<data, main, screen>>

-----------------------------------------------------------------------------
(* A thread of URLSession *)

\* The image is there: the object is put into the row the download was started
\* for.  While the main thread is about to append, the two accesses to the
\* array race and this one may be lost.
ImageArrived(d) ==
    /\ alive
    /\ downloads' = downloads \ {d}
    /\ images' = images \union {d.item}
    /\ \/ items' = [items EXCEPT ![d.row] = d.item]
       \/ Runs("added") /\ items' = items
    /\ main' = Append(main, [kind |-> "reloadRow", row |-> d.row])
    /\ UNCHANGED <<data, rows, alive>>

\* The download failed: nothing is told to anybody.
ImageFailed(d) ==
    /\ alive
    /\ downloads' = downloads \ {d}
    /\ UNCHANGED <<data, main, items, rows, images, alive>>

MainThread == Attach \/ AddItem \/ Reload \/ ReloadRow \/ WriteLocation \/ LocationSent

Next ==
    \/ \E n \in Nodes : SetPointer(n)
    \/ \E m \in Messages, n \in Nodes : Arrive(m, n)
    \/ MainThread
    \/ \E p \in Pins : SendLocation(p) \/ ReadEntry(p) \/ LocationAcked(p)
    \/ \E row \in 1..rows : ShowRow(row)
    \/ Keyboard
    \/ \E d \in downloads : ImageArrived(d) \/ ImageFailed(d)

Spec == Init /\ [][Next]_vars

\* The main queue runs its blocks.
FairSpec == Spec /\ WF_vars(MainThread)

-----------------------------------------------------------------------------
\* The objects that the listeners have handed over and the main thread appended.
Handled ==
    {o \in [msg : Messages, via : DOMAIN observers] :
        /\ stored[o.msg] = observers[o.via]
        /\ ~ \E i \in DOMAIN main : main[i] = Added(o.msg, o.via)}

Shown(o) == \E i \in DOMAIN items : items[i] = o

\* A photo was written into a row that was no longer its own.
PhotoIsTwice ==
    \E i, j \in DOMAIN items : i # j /\ items[i] = items[j] /\ items[i].msg \in Photos

\* Every message that was handed over is on the screen.  It is not: the row a
\* download was started for (ChatVC.swift:363-364) may be another message's by
\* the time its image arrives, because a sort has moved the rows.
ScreenIsComplete == \A o \in Handled : Shown(o)

\* No message is lost but to a photo that is then on the screen twice: the
\* appends and the sorts of fetchData lose nothing.
OnlyAPhotoHidesAMessage == ~ScreenIsComplete => PhotoIsTwice

\* A message other than a photo is on the screen twice only when the entry came
\* back to a node it had led to before: downloadAllMessages attaches one more
\* listener whenever the entry changes, and removes none.
OncePerListener ==
    \A i, j \in DOMAIN items :
        i # j /\ items[i].msg = items[j].msg /\ items[i].msg \notin Photos
            => \E k, l \in DOMAIN observers : k # l /\ observers[k] = observers[l]

\* With nothing left to do the table knows every row: each append is followed
\* by a reload, also when other blocks come between the two.
SettledTableIsCurrent == alive /\ main = <<>> => rows = Len(items)

\* A message at a node that is listened to gets on the screen, unless the app
\* ends before or a photo hides it.
MessagesGetShown ==
    \A m \in Messages :
        (\E i \in DOMAIN observers : observers[i] = stored[m])
            ~> \/ \E i \in DOMAIN items : items[i].msg = m /\ i <= rows
               \/ ~alive
               \/ PhotoIsTwice

\* The app survives its own table updates.  It does not: a location that opens a
\* conversation completes before there is any item, and ChatVC.swift:280 scrolls
\* to row -1.
AppSurvives == alive

=============================================================================

--------------------------- MODULE AppPartsProofs ---------------------------
(***************************************************************************)
(* Theorems about Session, ConversationList and ReadMarks.                 *)
(*                                                                         *)
(* Session, for any accounts, any number of taps and restarts: the         *)
(* conversations are only shown to somebody who is signed in, and a log-   *)
(* out is final. The argument is about windows. Only a log-out ends a      *)
(* session, and before anything else runs on the main thread it makes a    *)
(* new window; so what a successful answer of the window that is up says,  *)
(* that somebody is signed in, is still true when it is read. The first    *)
(* screen goes on whatever window is up, and is safe because nothing else  *)
(* runs while it is shown. Whatever can still sign somebody in, a call or  *)
(* its answer, is of an account entered since the last log-out or under    *)
(* way when that ended.                                                    *)
(*                                                                         *)
(* ConversationList, for any peers, conversations and messages: the last   *)
(* report on its way to a conversation holds all that arrived there, and   *)
(* whatever changed the array or a last message is followed by a reload.   *)
(*                                                                         *)
(* ReadMarks, for any users, messages, visits and faults: no message is    *)
(* marked as read before it arrived on the phone of somebody who did not   *)
(* write it. ReadWasReceived speaks of the server's tree and the readers'  *)
(* caches; it holds because of what is under way between the two. Nothing  *)
(* that was stored disappears, so a phone goes on knowing a message it     *)
(* once knew, whatever frames are on their way; therefore a block that     *)
(* holds a peer's messages holds known ones, and an outstanding mark is of *)
(* a known one, however long ago it was written and however often it is    *)
(* sent again. A chat that was left is read (LeftMeansRead): what was on   *)
(* the screen is known to the phone and so found by the read it asked for; *)
(* therefore, once the phone's queue is empty, each of these messages is   *)
(* marked, or was, and then its own author's write was applied once more,  *)
(* or its mark was lost with the process that had yet to write it.         *)
(***************************************************************************)
EXTENDS Session, ConversationList, ReadMarks, RealtimeDatabaseProofs, FiniteSetTheorems

Waits(c) == c.kind \in {"picture", "link", "profile"}

\* Somebody is signed in, or logOutUser is about to change the window.
Signed == session # NoOne \/ Busy

\* A block that brings the answer to a call.
Carries(b) == b.do \in {"callback", "answer"}

\* What calls and blocks say, when the window is w and the screen v; s says
\* whether somebody is signed in.
GoodCall(w, s, v) ==
    {c \in Call : /\ c.window <= w
                  /\ Waits(c) /\ c.window = w => s
                  /\ c.kind = "start" => v = "initial"}
GoodBlock(w, s, v) ==
    {b \in SessionBlock : Carries(b) =>
        /\ b.call.window <= w
        /\ b.ok /\ b.call.window = w => s
        /\ b.call.kind = "start" => v = "initial"}

OfStart(c) == c.kind = "start" /\ c.window = window
StartPending == main = <<>> /\ \E c \in Call : calls = {c} /\ OfStart(c)
StartAnswering ==
    calls = {} /\ \E b \in SessionBlock : main = <<b>> /\ Carries(b) /\ OfStart(b.call)

CallsGood == calls \subseteq GoodCall(window, Signed, screen)
BlocksGood == main \in Seq(GoodBlock(window, Signed, screen))
OneStart == screen = "initial" => StartPending \/ StartAnswering

SessionInvariant ==
    /\ SessionTypeOK
    /\ CallsGood /\ BlocksGood /\ OneStart
    /\ ConversationsNeedASession

-----------------------------------------------------------------------------
\* A sequence over a set is one over a larger set.
LEMMA SeqSubset ==
    ASSUME NEW S, NEW T, S \subseteq T, NEW s \in Seq(S)
    PROVE  s \in Seq(T)
  OBVIOUS

\* What the queue's Append, Head and Tail give.
LEMMA SeqOps ==
    ASSUME NEW S, NEW s \in Seq(S)
    PROVE  /\ \A e \in S : Append(s, e) \in Seq(S)
           /\ s # <<>> => Head(s) \in S /\ Tail(s) \in Seq(S)
  OBVIOUS

\* The calls and blocks of an older window say nothing of the session, and a
\* new session makes what the others say true.
LEMMA Weaken ==
    ASSUME NEW w \in Nat, NEW x \in Nat, NEW s, NEW r, NEW v, NEW u,
           x > w \/ (x = w /\ (s => r)), v = "initial" => u = "initial"
    PROVE  /\ GoodCall(w, s, v) \subseteq GoodCall(x, r, u)
           /\ GoodBlock(w, s, v) \subseteq GoodBlock(x, r, u)
  <1>1. ASSUME NEW c \in GoodCall(w, s, v) PROVE c \in GoodCall(x, r, u)
    BY <1>1 DEF GoodCall, Call
  <1>2. ASSUME NEW b \in GoodBlock(w, s, v) PROVE b \in GoodBlock(x, r, u)
    <2>1. Carries(b) => b.call \in Call
      BY <1>2 DEF GoodBlock, SessionBlock, Carries
    <2>2. Carries(b) => b.call.window \in Nat
      BY <2>1 DEF Call
    <2> QED BY <1>2, <2>2 DEF GoodBlock
  <1> QED BY <1>1, <1>2

\* Somebody stays signed in, unless a block runs that ends the session.
LEMMA SignedStays ==
    ASSUME main \in Seq(SessionBlock), session' = session \/ session' # NoOne,
           \/ main' = main
           \/ \E b \in SessionBlock : main' = Append(main, b)
           \/ ~Busy
    PROVE  Signed => Signed'
  <1> SUFFICES ASSUME Busy, session = NoOne PROVE Busy'
    BY DEF Signed
  <1>1. CASE main' = main
    BY <1>1 DEF Busy, Runs
  <1>2. CASE \E b \in SessionBlock : main' = Append(main, b)
    BY <1>2 DEF Busy, Runs
  <1> QED BY <1>1, <1>2

\* What was good is good after a step that leaves the window and somebody
\* signed in, or makes a new window.
LEMMA GoodLater ==
    ASSUME SessionInvariant, window' \in Nat,
           window' > window \/ (window' = window /\ (Signed => Signed')),
           screen = "initial" => screen' = "initial"
    PROVE  /\ GoodCall(window, Signed, screen) \subseteq GoodCall(window', Signed', screen')
           /\ GoodBlock(window, Signed, screen) \subseteq GoodBlock(window', Signed', screen')
  BY Weaken DEF SessionInvariant, SessionTypeOK

\* While the first screen is shown nothing but its own call is under way.
LEMMA OnlyStart ==
    ASSUME SessionInvariant, screen = "initial"
    PROVE  /\ \A c \in calls : OfStart(c) /\ calls = {c} /\ main = <<>>
           /\ main # <<>> => /\ calls = {} /\ Tail(main) = <<>>
                             /\ Carries(Head(main)) /\ OfStart(Head(main).call)
  <1>1. CASE StartPending
    BY <1>1 DEF StartPending
  <1>2. CASE StartAnswering
    <2>1. PICK b \in SessionBlock : main = <<b>> /\ Carries(b) /\ OfStart(b.call)
      BY <1>2 DEF StartAnswering
    <2>2. Head(main) = b /\ Tail(main) = <<>>
      BY <2>1
    <2> QED BY <1>2, <2>1, <2>2 DEF StartAnswering
  <1> QED BY <1>1, <1>2 DEF SessionInvariant, OneStart

\* What the block at the head of the main queue says.
LEMMA AtHead ==
    ASSUME SessionInvariant, main # <<>>
    PROVE  /\ Head(main) \in GoodBlock(window, Signed, screen)
           /\ Head(main) \in SessionBlock
           /\ Tail(main) \in Seq(GoodBlock(window, Signed, screen))
           /\ Tail(main) \in Seq(SessionBlock)
           /\ Carries(Head(main)) => Current \in Call /\ Head(main).ok \in BOOLEAN
  <1>1. main \in Seq(GoodBlock(window, Signed, screen)) /\ main \in Seq(SessionBlock)
    BY DEF SessionInvariant, BlocksGood, SessionTypeOK
  <1>2. /\ Head(main) \in GoodBlock(window, Signed, screen)
        /\ Tail(main) \in Seq(GoodBlock(window, Signed, screen))
        /\ Head(main) \in SessionBlock
        /\ Tail(main) \in Seq(SessionBlock)
    BY <1>1, SeqOps
  <1> QED BY <1>2 DEF SessionBlock, Current, Carries

\* A block that brings an answer leaves the session as it is.
LEMMA GoodAfterCarrier ==
    ASSUME SessionInvariant, main # <<>>, Carries(Head(main)),
           session' = session, window' = window, screen = "initial" => screen' = "initial"
    PROVE  /\ ~Busy
           /\ calls \subseteq GoodCall(window', Signed', screen')
           /\ Tail(main) \in Seq(GoodBlock(window', Signed', screen'))
           /\ Tail(main) \in Seq(SessionBlock)
           /\ \A b \in GoodBlock(window, Signed, screen) :
                  b \in GoodBlock(window', Signed', screen')
           /\ \A c \in GoodCall(window, Signed, screen) :
                  c \in GoodCall(window', Signed', screen')
  <1>1. ~Busy
    BY DEF Busy, Runs, Carries
  <1>2. window' \in Nat /\ (Signed => Signed')
    BY <1>1, SignedStays DEF SessionInvariant, SessionTypeOK
  <1>3. /\ GoodCall(window, Signed, screen) \subseteq GoodCall(window', Signed', screen')
        /\ GoodBlock(window, Signed, screen) \subseteq GoodBlock(window', Signed', screen')
    BY <1>2, GoodLater
  <1> QED BY <1>1, <1>3, AtHead, SeqSubset DEF SessionInvariant, CallsGood

\* A block that joins the main queue.
LEMMA Posted ==
    ASSUME NEW S, NEW s \in Seq(S), NEW b \in S
    PROVE  Append(s, b) \in Seq(S)
  OBVIOUS

\* A block posted to an empty queue is alone in it.
LEMMA PostedAlone == ASSUME NEW b PROVE Append(<<>>, b) = <<b>>
  OBVIOUS

\* A block put at the front of a queue.
LEMMA Joined ==
    ASSUME NEW S, NEW s \in Seq(S), NEW b \in S
    PROVE  <<b>> \o s \in Seq(S) /\ Tail(<<b>> \o s) = s
  OBVIOUS

\* A block put at the front of an empty queue.
LEMMA JoinedToNothing == ASSUME NEW b PROVE <<b>> \o <<>> = <<b>>
  OBVIOUS

\* What is under way are accounts.
LEMMA UnderWayAccounts == SessionTypeOK => StillUnderWay \subseteq Accounts
  <1> SUFFICES ASSUME SessionTypeOK PROVE StillUnderWay \subseteq Accounts
    OBVIOUS
  <1>1. \A i \in 1..Len(main) : main[i] \in SessionBlock
    BY DEF SessionTypeOK
  <1>2. \A b \in SessionBlock : Carries(b) => b.call.account \in Accounts
    BY DEF SessionBlock, Carries, Call
  <1>3. \A c \in calls : c.account \in Accounts
    BY DEF SessionTypeOK, Call
  <1> QED BY <1>1, <1>2, <1>3 DEF StillUnderWay, Carries

\* An empty queue is one over any set.
LEMMA NothingPosted == ASSUME NEW S PROVE <<>> \in Seq(S)
  OBVIOUS

-----------------------------------------------------------------------------
\* One lemma for each action, or for actions alike.

\* Tapping login or register.
LEMMA StaysAfterTapButton ==
    ASSUME SessionInvariant, NEW a \in Accounts, NEW kind \in {"login", "create"},
           TapButton(kind, a)
    PROVE  SessionInvariant'
  <1> USE DEF SessionInvariant, TapButton, Tap
  <1>0. Signed' = Signed
    BY DEF Signed, Busy, Runs
  <1>1. Started(kind, a) \in GoodCall(window, Signed, screen) /\ Started(kind, a) \in Call
    BY DEF Started, GoodCall, Call, Kinds, Waits, SessionTypeOK
  <1>2. SessionTypeOK'
    <2>1. formEnabled' \in BOOLEAN /\ tangled' \in BOOLEAN /\ entered' \subseteq Accounts
      BY DEF SessionTypeOK
    <2> QED BY <1>1, <2>1 DEF SessionTypeOK
  <1>3. CallsGood' /\ BlocksGood'
    BY <1>0, <1>1 DEF CallsGood, BlocksGood
  <1>4. OneStart' /\ ConversationsNeedASession'
    BY DEF OneStart, ConversationsNeedASession
  <1> QED BY <1>2, <1>3, <1>4

\* Tapping log out.
LEMMA StaysAfterTapLogOut ==
    ASSUME SessionInvariant, TapLogOut
    PROVE  SessionInvariant'
  <1> USE DEF SessionInvariant, TapLogOut, Tap, Post
  <1> DEFINE b == [do |-> "logout"]
  <1>0. session # NoOne
    BY DEF ConversationsNeedASession
  <1>1. b \in GoodBlock(window, Signed, screen) /\ b \in SessionBlock
    BY DEF GoodBlock, SessionBlock, Carries
  <1>2. SessionTypeOK'
    BY <1>1, Posted DEF SessionTypeOK
  <1>3. Signed /\ Signed'
    BY <1>0 DEF Signed
  <1>4. CallsGood' /\ BlocksGood'
    <2>1. /\ GoodCall(window, Signed, screen) \subseteq GoodCall(window', Signed', screen')
          /\ GoodBlock(window, Signed, screen) \subseteq GoodBlock(window', Signed', screen')
      BY <1>3, GoodLater DEF SessionTypeOK
    <2> QED BY <1>1, <2>1, Posted, SeqSubset DEF CallsGood, BlocksGood
  <1>5. OneStart' /\ ConversationsNeedASession'
    BY <1>0 DEF OneStart, ConversationsNeedASession
  <1> QED BY <1>2, <1>4, <1>5

\* SignedIn and NotSignedIn: the callback of a call is posted.
LEMMA StaysAfterAnswer ==
    ASSUME SessionInvariant, NEW c \in calls, SignedIn(c) \/ NotSignedIn(c)
    PROVE  SessionInvariant'
  <1> USE DEF SessionInvariant
  <1>0. c \in Call /\ c \in GoodCall(window, Signed, screen) /\ c.account \in Accounts
    BY DEF CallsGood, GoodCall, Call
  <1>1. PICK ok \in BOOLEAN : /\ main' = Append(main, Callback(c, ok))
                              /\ ok => session' = c.account
                              /\ ~ok => session' = session
    BY DEF SignedIn, NotSignedIn, Post
  <1>2. /\ calls' = calls \ {c}
        /\ UNCHANGED <<stored, screen, window, formEnabled, taps, starts, entered, tangled, silent>>
    BY DEF SignedIn, NotSignedIn
  <1>3. session' \in Accounts \union {NoOne} /\ (session' # NoOne \/ session' = session)
    BY <1>0, <1>1, SessionAssumption DEF SessionTypeOK
  <1>5. Callback(c, ok) \in SessionBlock
    BY <1>0 DEF Callback, SessionBlock
  <1>4. /\ GoodCall(window, Signed, screen) \subseteq GoodCall(window, Signed', screen)
        /\ GoodBlock(window, Signed, screen) \subseteq GoodBlock(window, Signed', screen)
    <2>1. Signed => Signed'
      BY <1>1, <1>3, <1>5, SignedStays DEF SessionTypeOK
    <2> QED BY <1>2, <2>1, GoodLater DEF SessionTypeOK
  <1>6. ok => Signed'
    BY <1>0, <1>1, SessionAssumption DEF Signed
  <1>7. Callback(c, ok) \in GoodBlock(window, Signed', screen)
    BY <1>0, <1>5, <1>6 DEF Callback, GoodBlock, GoodCall
  <1>8. SessionTypeOK'
    BY <1>1, <1>2, <1>3, <1>5, Posted DEF SessionTypeOK
  <1>9. CallsGood'
    BY <1>2, <1>4 DEF CallsGood
  <1>10. BlocksGood'
    <2>1. main \in Seq(GoodBlock(window, Signed', screen))
      BY <1>4, SeqSubset DEF BlocksGood
    <2> QED BY <1>1, <1>2, <1>7, <2>1, Posted DEF BlocksGood
  <1>11. OneStart'
    <2> SUFFICES ASSUME screen = "initial" PROVE StartAnswering'
      BY <1>2 DEF OneStart
    <2>1. OfStart(c) /\ calls = {c} /\ main = <<>>
      BY OnlyStart
    <2>2. calls' = {} /\ main' = <<Callback(c, ok)>>
      BY <1>1, <1>2, <2>1, PostedAlone
    <2> QED BY <1>2, <1>5, <2>1, <2>2 DEF StartAnswering, OfStart, Callback, Carries
  <1>12. ConversationsNeedASession'
    <2>1. Busy => Busy'
      BY <1>1 DEF Busy, Runs, SessionTypeOK
    <2> QED BY <1>2, <1>3, <2>1 DEF ConversationsNeedASession
  <1> QED BY <1>8, <1>9, <1>10, <1>11, <1>12

\* StepDone, ProfileWritten and StepFails: a registration goes on or ends.
LEMMA StaysAfterStep ==
    ASSUME SessionInvariant, NEW c \in calls, StepDone(c) \/ StepFails(c) \/ ProfileWritten(c)
    PROVE  SessionInvariant'
  <1> USE DEF SessionInvariant
  <1>0. /\ c \in Call /\ c \in GoodCall(window, Signed, screen) /\ c.account \in Accounts
        /\ Waits(c) /\ ~Busy /\ UNCHANGED <<session, screen, window, entered>>
    BY DEF CallsGood, GoodCall, Call, StepDone, StepFails, ProfileWritten, Waits
  <1>1. screen # "initial"
    BY <1>0, OnlyStart DEF OfStart, Waits
  <1>2. OneStart' /\ ConversationsNeedASession'
    BY <1>0, <1>1 DEF OneStart, ConversationsNeedASession
  <1>3. /\ GoodCall(window, Signed, screen) \subseteq GoodCall(window', Signed', screen')
        /\ GoodBlock(window, Signed, screen) \subseteq GoodBlock(window', Signed', screen')
    <2>1. Signed => Signed'
      BY <1>0, SignedStays DEF SessionTypeOK
    <2> QED BY <1>0, <2>1, GoodLater DEF SessionTypeOK
  <1>4. CASE StepDone(c)
    <2> DEFINE d == [c EXCEPT !.kind = NextStep[c.kind]]
    <2>1. NextStep[c.kind] \in {"link", "profile"}
      BY <1>4 DEF StepDone, NextStep
    <2>2. d \in Call /\ d \in GoodCall(window, Signed, screen)
      BY <1>0, <2>1 DEF GoodCall, Call, Kinds, Waits
    <2>3. SessionTypeOK'
      BY <1>4, <2>2 DEF StepDone, SessionTypeOK
    <2>4. CallsGood' /\ BlocksGood'
      <3>1. calls' = (calls \ {c}) \union {d} /\ main' = main
        BY <1>4 DEF StepDone
      <3> QED BY <1>3, <2>2, <3>1, SeqSubset DEF CallsGood, BlocksGood
    <2> QED BY <1>2, <2>3, <2>4
  <1>5. CASE StepFails(c)
    <2>1. calls' = calls \ {c} /\ main' = main
      BY <1>5 DEF StepFails
    <2>2. CallsGood' /\ BlocksGood'
      BY <1>3, <2>1, SeqSubset DEF CallsGood, BlocksGood
    <2>3. SessionTypeOK'
      BY <1>5 DEF StepFails, SessionTypeOK
    <2> QED BY <1>2, <2>2, <2>3
  <1>6. CASE ProfileWritten(c)
    <2>1. Answer(c, TRUE) \in SessionBlock
      BY <1>0 DEF Answer, SessionBlock
    <2>2. Answer(c, TRUE) \in GoodBlock(window, Signed, screen)
      BY <1>0, <2>1 DEF Answer, GoodBlock, GoodCall
    <2>3. calls' = calls \ {c} /\ main' = Append(main, Answer(c, TRUE))
      BY <1>6 DEF ProfileWritten, Post
    <2>4. SessionTypeOK'
      BY <1>0, <1>6, <2>1, Posted DEF ProfileWritten, Post, SessionTypeOK
    <2>5. CallsGood' /\ BlocksGood'
      BY <1>3, <2>2, <2>3, Posted, SeqSubset DEF CallsGood, BlocksGood
    <2> QED BY <1>2, <2>4, <2>5
  <1> QED BY <1>4, <1>5, <1>6

\* The answer of Firebase Auth to a login.
LEMMA StaysAfterLoginCalledBack ==
    ASSUME SessionInvariant, LoginCalledBack
    PROVE  SessionInvariant'
  <1> USE DEF SessionInvariant
  <1> DEFINE b == Answer(Current, Head(main).ok)
  <1>0. /\ main # <<>> /\ Carries(Head(main))
        /\ main' = Append(Tail(main), b) /\ calls' = calls
        /\ UNCHANGED <<session, screen, window, formEnabled, taps, starts, entered, tangled, silent>>
    BY DEF LoginCalledBack, Runs, Carries
  <1>1. /\ Head(main) \in GoodBlock(window, Signed, screen)
        /\ Current \in Call /\ Head(main).ok \in BOOLEAN
    BY <1>0, AtHead
  <1>2. b \in SessionBlock /\ b \in GoodBlock(window, Signed, screen)
    BY <1>0, <1>1 DEF Answer, Current, SessionBlock, GoodBlock
  <1>3. stored' \in Accounts \union {NoOne}
    BY <1>1 DEF LoginCalledBack, SessionTypeOK, Call
  <1>4. SessionTypeOK' /\ CallsGood' /\ BlocksGood'
    BY <1>0, <1>2, <1>3, GoodAfterCarrier, Posted DEF SessionTypeOK, CallsGood, BlocksGood
  <1>5. OneStart'
    <2> SUFFICES ASSUME screen = "initial" PROVE StartAnswering'
      BY <1>0 DEF OneStart
    <2>1. calls = {} /\ Tail(main) = <<>> /\ OfStart(Current)
      BY <1>0, OnlyStart DEF Current
    <2>2. main' = <<b>>
      BY <1>0, <2>1, PostedAlone
    <2> QED BY <1>0, <1>2, <2>1, <2>2 DEF StartAnswering, OfStart, Answer, Carries
  <1>6. ConversationsNeedASession'
    BY <1>0, GoodAfterCarrier DEF ConversationsNeedASession
  <1> QED BY <1>4, <1>5, <1>6

\* The answer of Firebase Auth to the creation of an account.
LEMMA StaysAfterCreateCalledBack ==
    ASSUME SessionInvariant, CreateCalledBack
    PROVE  SessionInvariant'
  <1> USE DEF SessionInvariant
  <1>0. /\ main # <<>> /\ Carries(Head(main)) /\ Current.kind = "create"
        /\ UNCHANGED <<session, stored, screen, window, formEnabled, taps, starts, entered,
                       tangled, silent>>
    BY DEF CreateCalledBack, Runs, Carries
  <1>1. /\ Head(main) \in GoodBlock(window, Signed, screen)
        /\ Current \in Call /\ Head(main).ok \in BOOLEAN
    BY <1>0, AtHead
  <1>2. screen # "initial"
    BY <1>0, OnlyStart DEF OfStart, Current
  <1>3. OneStart' /\ ConversationsNeedASession'
    BY <1>0, <1>2, GoodAfterCarrier DEF OneStart, ConversationsNeedASession
  <1>4. CASE Head(main).ok
    <2> DEFINE c == [Current EXCEPT !.kind = "picture"]
    <2>1. calls' = calls \union {c} /\ main' = Tail(main)
      BY <1>4 DEF CreateCalledBack
    <2>2. c \in Call /\ c \in GoodCall(window, Signed, screen)
      BY <1>0, <1>1, <1>4 DEF Call, Kinds, GoodCall, GoodBlock, Waits, Current
    <2>3. SessionTypeOK' /\ CallsGood' /\ BlocksGood'
      BY <1>0, <2>1, <2>2, GoodAfterCarrier DEF SessionTypeOK, CallsGood, BlocksGood
    <2> QED BY <1>3, <2>3
  <1>5. CASE ~Head(main).ok
    <2> DEFINE b == Answer(Current, FALSE)
    <2>1. calls' = calls /\ main' = Append(Tail(main), b)
      BY <1>5 DEF CreateCalledBack
    <2>2. b \in SessionBlock /\ b \in GoodBlock(window, Signed, screen)
      BY <1>0, <1>1 DEF Answer, Current, SessionBlock, GoodBlock
    <2>3. SessionTypeOK' /\ CallsGood' /\ BlocksGood'
      BY <1>0, <2>1, <2>2, GoodAfterCarrier, Posted DEF SessionTypeOK, CallsGood, BlocksGood
    <2> QED BY <1>3, <2>3
  <1> QED BY <1>4, <1>5

\* The block that ends the login at start-up.
LEMMA StaysAfterStartAnswered ==
    ASSUME SessionInvariant, StartAnswered
    PROVE  SessionInvariant'
  <1> USE DEF SessionInvariant
  <1>0. /\ main # <<>> /\ Carries(Head(main)) /\ Current.kind = "start"
        /\ main' = Tail(main) /\ calls' = calls
        /\ screen' = IF Head(main).ok THEN "conversations" ELSE "welcome"
        /\ window' = window + 1 /\ formEnabled' = TRUE
        /\ UNCHANGED <<session, stored, taps, starts, entered, tangled, silent>>
    BY DEF StartAnswered, Runs, PushTo, Carries
  <1>1. Head(main) \in GoodBlock(window, Signed, screen)
    BY <1>0, AtHead
  <1>2. screen = "initial" /\ ~Busy
    BY <1>0, <1>1 DEF GoodBlock, Current, Carries, Busy, Runs
  <1>3. calls = {} /\ Tail(main) = <<>> /\ Current.window = window
    BY <1>0, <1>2, OnlyStart DEF OfStart, Current
  <1>4. ConversationsNeedASession'
    BY <1>0, <1>1, <1>2, <1>3 DEF GoodBlock, Current, ConversationsNeedASession, Signed
  <1>5. main' = <<>> /\ calls' = {}
    BY <1>0, <1>3
  <1>6. SessionTypeOK'
    BY <1>0, <1>5, NothingPosted DEF SessionTypeOK
  <1>7. CallsGood' /\ BlocksGood'
    BY <1>5, NothingPosted DEF CallsGood, BlocksGood
  <1>8. OneStart'
    BY <1>0 DEF OneStart
  <1> QED BY <1>4, <1>6, <1>7, <1>8

\* The block that ends what a form started.
LEMMA StaysAfterFormAnswered ==
    ASSUME SessionInvariant, FormAnswered
    PROVE  SessionInvariant'
  <1> USE DEF SessionInvariant
  <1>0. /\ main # <<>> /\ Carries(Head(main)) /\ Current.kind # "start"
        /\ main' = Tail(main) /\ calls' = calls
        /\ screen' = IF Current.window = window /\ Head(main).ok THEN "conversations" ELSE screen
        /\ formEnabled' \in BOOLEAN
        /\ UNCHANGED <<session, stored, window, taps, starts, entered, tangled, silent>>
    BY DEF FormAnswered, Runs, SessionTypeOK, Carries
  <1>1. Head(main) \in GoodBlock(window, Signed, screen)
    BY <1>0, AtHead
  <1>2. screen # "initial" /\ screen' # "initial"
    BY <1>0, OnlyStart DEF OfStart, Current
  <1>3. /\ ~Busy /\ calls \subseteq GoodCall(window', Signed', screen')
        /\ Tail(main) \in Seq(GoodBlock(window', Signed', screen'))
        /\ Tail(main) \in Seq(SessionBlock)
    BY <1>0, <1>2, GoodAfterCarrier
  <1>4. SessionTypeOK' /\ CallsGood' /\ BlocksGood'
    BY <1>0, <1>3 DEF SessionTypeOK, CallsGood, BlocksGood
  <1>5. OneStart' /\ ConversationsNeedASession'
    BY <1>0, <1>1, <1>2, <1>3
       DEF OneStart, ConversationsNeedASession, GoodBlock, Current, Signed
  <1> QED BY <1>4, <1>5

\* logOutUser begins: the session ends, and the window is about to change.
LEMMA StaysAfterSignOut ==
    ASSUME SessionInvariant, SignOut
    PROVE  SessionInvariant'
  <1> USE DEF SessionInvariant
  <1> DEFINE b == [do |-> "forget"]
  <1>0. /\ main # <<>> /\ Head(main).do = "logout" /\ main' = <<b>> \o Tail(main)
        /\ session' = NoOne /\ tangled' \in BOOLEAN
        /\ UNCHANGED <<stored, screen, window, formEnabled, calls, taps, starts, entered, silent>>
    BY DEF SignOut, Runs, SessionTypeOK
  <1>1. /\ Tail(main) \in Seq(GoodBlock(window, Signed, screen))
        /\ Tail(main) \in Seq(SessionBlock)
    BY <1>0, AtHead
  <1>2. screen # "initial"
    BY <1>0, OnlyStart DEF Carries
  <1>3. b \in SessionBlock /\ b \in GoodBlock(window', Signed', screen')
    BY DEF SessionBlock, GoodBlock, Carries
  <1>4. main' # <<>> /\ Head(main') = b
    BY <1>0, <1>1, <1>3
  <1>5. Busy' /\ Signed'
    BY <1>4 DEF Busy, Runs, Signed
  <1>6. /\ GoodCall(window, Signed, screen) \subseteq GoodCall(window', Signed', screen')
        /\ GoodBlock(window, Signed, screen) \subseteq GoodBlock(window', Signed', screen')
    BY <1>0, <1>5, GoodLater DEF SessionTypeOK
  <1>7. CallsGood' /\ BlocksGood'
    BY <1>0, <1>1, <1>3, <1>6, SeqSubset, Joined DEF CallsGood, BlocksGood
  <1>8. SessionTypeOK'
    BY <1>0, <1>1, <1>3, Joined DEF SessionTypeOK
  <1>9. OneStart' /\ ConversationsNeedASession'
    BY <1>0, <1>2, <1>5 DEF OneStart, ConversationsNeedASession
  <1> QED BY <1>7, <1>8, <1>9

\* logOutUser ends: its new window leaves behind what the calls and blocks of
\* the old one say.
LEMMA StaysAfterForget ==
    ASSUME SessionInvariant, Forget
    PROVE  SessionInvariant'
  <1> USE DEF SessionInvariant
  <1>0. /\ main # <<>> /\ Head(main).do = "forget" /\ main' = Tail(main) /\ calls' = calls
        /\ stored' = NoOne /\ entered' = StillUnderWay
        /\ screen' = "welcome" /\ window' = window + 1 /\ formEnabled' = TRUE
        /\ UNCHANGED <<session, taps, starts, tangled, silent>>
    BY DEF Forget, Busy, Runs, PushTo
  <1>1. /\ Tail(main) \in Seq(GoodBlock(window, Signed, screen))
        /\ Tail(main) \in Seq(SessionBlock)
    BY <1>0, AtHead
  <1>2. screen # "initial"
    BY <1>0, OnlyStart DEF Carries
  <1>3. /\ GoodCall(window, Signed, screen) \subseteq GoodCall(window', Signed', screen')
        /\ GoodBlock(window, Signed, screen) \subseteq GoodBlock(window', Signed', screen')
    BY <1>0, <1>2, GoodLater DEF SessionTypeOK
  <1>4. CallsGood' /\ BlocksGood'
    BY <1>0, <1>1, <1>3, SeqSubset DEF CallsGood, BlocksGood
  <1>5. SessionTypeOK'
    BY <1>0, <1>1, UnderWayAccounts DEF SessionTypeOK
  <1>6. OneStart' /\ ConversationsNeedASession'
    BY <1>0 DEF OneStart, ConversationsNeedASession
  <1> QED BY <1>4, <1>5, <1>6

\* The library cannot sign out.
LEMMA StaysAfterLogOutFails ==
    ASSUME SessionInvariant, LogOutFails
    PROVE  SessionInvariant'
  <1> USE DEF SessionInvariant
  <1>0. /\ main # <<>> /\ Head(main).do = "logout" /\ main' = Tail(main)
        /\ UNCHANGED <<session, stored, screen, window, formEnabled, calls, taps, starts,
                       entered, tangled, silent>>
    BY DEF LogOutFails, Runs
  <1>1. /\ Tail(main) \in Seq(GoodBlock(window, Signed, screen))
        /\ Tail(main) \in Seq(SessionBlock)
    BY <1>0, AtHead
  <1>2. screen # "initial" /\ ~Busy
    BY <1>0, OnlyStart DEF Carries, Busy, Runs
  <1>3. /\ GoodCall(window, Signed, screen) \subseteq GoodCall(window', Signed', screen')
        /\ GoodBlock(window, Signed, screen) \subseteq GoodBlock(window', Signed', screen')
    <2>1. Signed => Signed'
      BY <1>0, <1>2, SignedStays DEF SessionTypeOK
    <2> QED BY <1>0, <2>1, GoodLater DEF SessionTypeOK
  <1>4. SessionTypeOK' /\ CallsGood' /\ BlocksGood'
    BY <1>0, <1>1, <1>3, SeqSubset DEF SessionTypeOK, CallsGood, BlocksGood
  <1>5. OneStart' /\ ConversationsNeedASession'
    BY <1>0, <1>2 DEF OneStart, ConversationsNeedASession
  <1> QED BY <1>4, <1>5

\* The process starts again.
LEMMA StaysAfterStartAgain ==
    ASSUME SessionInvariant, StartAgain
    PROVE  SessionInvariant'
  <1> USE DEF SessionInvariant
  <1>0. /\ main' = <<>> /\ window' = window + 1 /\ formEnabled' = TRUE /\ starts' = starts + 1
        /\ UNCHANGED <<session, stored, taps, entered, tangled, silent>>
    BY DEF StartAgain
  <1>1. BlocksGood' /\ window' \in Nat
    BY <1>0 DEF BlocksGood, SessionTypeOK
  <1>2. CASE stored = NoOne
    <2>1. screen' = "welcome" /\ calls' = {}
      BY <1>2 DEF StartAgain
    <2>2. SessionTypeOK' /\ CallsGood'
      BY <1>0, <1>1, <2>1 DEF SessionTypeOK, CallsGood
    <2>3. OneStart' /\ ConversationsNeedASession'
      BY <1>0, <2>1 DEF OneStart, ConversationsNeedASession
    <2> QED BY <1>1, <2>2, <2>3
  <1>3. CASE stored # NoOne
    <2>0. [kind |-> "start", account |-> stored, window |-> window + 1, tap |-> taps] \in Call
      BY <1>1, <1>0, <1>3 DEF Call, Kinds, SessionTypeOK
    <2>2. PICK c \in Call :
             c = [kind |-> "start", account |-> stored, window |-> window + 1, tap |-> taps]
      BY <2>0
    <2>1. screen' = "initial" /\ calls' = {c}
      BY <1>3, <2>2 DEF StartAgain
    <2>3. c \in GoodCall(window', Signed', screen') /\ OfStart(c)'
      BY <1>0, <1>1, <2>1, <2>2 DEF GoodCall, Waits, OfStart
    <2>4. SessionTypeOK' /\ CallsGood'
      BY <1>0, <1>1, <2>1, <2>2, <2>3 DEF SessionTypeOK, CallsGood
    <2>5. OneStart'
      <3>1. StartPending'
        BY <1>0, <2>1, <2>3 DEF StartPending
      <3> QED BY <3>1 DEF OneStart
    <2>6. ConversationsNeedASession'
      BY <1>0, <1>3, <2>1 DEF ConversationsNeedASession
    <2> QED BY <1>1, <2>4, <2>5, <2>6
  <1> QED BY <1>2, <1>3

-----------------------------------------------------------------------------
\* The invariant holds at first.
LEMMA HoldsAtFirst == SessionInit => SessionInvariant
  <1> SUFFICES ASSUME SessionInit PROVE SessionInvariant
    OBVIOUS
  <1> USE DEF SessionInit
  <1>1. main \in Seq(SessionBlock) /\ main \in Seq(GoodBlock(window, Signed, screen))
    BY NothingPosted
  <1>2. SessionTypeOK
    BY <1>1 DEF SessionTypeOK
  <1>3. CallsGood /\ BlocksGood
    BY <1>1 DEF CallsGood, BlocksGood
  <1>4. OneStart /\ ConversationsNeedASession
    BY DEF OneStart, ConversationsNeedASession
  <1> QED BY <1>2, <1>3, <1>4 DEF SessionInvariant

\* Every step keeps the invariant.
LEMMA StaysInEveryStep == SessionInvariant /\ [SessionNext]_sessionVars => SessionInvariant'
  <1> SUFFICES ASSUME SessionInvariant, [SessionNext]_sessionVars
               PROVE  SessionInvariant'
    OBVIOUS
  <1>1. CASE \E a \in Accounts : TapButton("login", a) \/ TapButton("create", a)
    BY <1>1, StaysAfterTapButton
  <1>2. CASE TapLogOut
    BY <1>2, StaysAfterTapLogOut
  <1>3. CASE \E c \in calls : Answered(c)
    BY <1>3, StaysAfterAnswer, StaysAfterStep DEF Answered
  <1>4. CASE RunMain
    BY <1>4, StaysAfterLoginCalledBack, StaysAfterCreateCalledBack, StaysAfterStartAnswered,
       StaysAfterFormAnswered, StaysAfterSignOut, StaysAfterForget, StaysAfterLogOutFails
       DEF RunMain
  <1>5. CASE StartAgain
    BY <1>5, StaysAfterStartAgain
  <1>6. CASE UNCHANGED sessionVars
    BY <1>6 DEF sessionVars, SessionInvariant, SessionTypeOK, CallsGood, BlocksGood, OneStart,
                StartPending, StartAnswering, OfStart, Signed, Busy, Runs,
                ConversationsNeedASession
  <1> QED BY <1>1, <1>2, <1>3, <1>4, <1>5, <1>6 DEF SessionNext

\* The invariant holds in every behaviour, fair or not.
LEMMA SessionIsSafe == SessionSafety => []SessionInvariant
  BY HoldsAtFirst, StaysInEveryStep, PTL DEF SessionSafety

\* Session, credentials, screen, calls and blocks have their types (register,
\* login, logOutUser and the start of the app).
THEOREM SessionTypeCorrect == SessionSpec => []SessionTypeOK
  <1>1. SessionInvariant => SessionTypeOK
    BY DEF SessionInvariant
  <1> QED BY <1>1, SessionIsSafe, PTL DEF SessionSpec

\* The conversations are only shown to somebody who is signed in: for any
\* number of taps, restarts, overlapping calls and log-outs.
THEOREM ConversationsAreOfASession == SessionSpec => []ConversationsNeedASession
  <1>1. SessionInvariant => ConversationsNeedASession
    BY DEF SessionInvariant
  <1> QED BY <1>1, SessionIsSafe, PTL DEF SessionSpec

-----------------------------------------------------------------------------
(* A log-out is final.  Whatever may still sign somebody in, a call or the *)
(* block that answers it, is of an account that was entered since the last *)
(* log-out or was under way when that ended.  Within logOutUser the        *)
(* session can only be changed by a call that is under way.                *)

EnteredBlock(E) == {b \in SessionBlock : Carries(b) => b.call.account \in E}
NoForget == {b \in SessionBlock : b.do # "forget"}

CallsEntered == \A c \in calls : c.account \in entered
BlocksEntered == main \in Seq(EnteredBlock(entered))
OneForget == main # <<>> => Tail(main) \in Seq(NoForget)
LateSession == Busy => session \in StillUnderWay \union {NoOne}

EnteredInvariant ==
    /\ CallsEntered /\ BlocksEntered /\ OneForget /\ LateSession
    /\ LogOutIsFinal

\* The account of a block that brings an answer.
LEMMA EnteredAtHead ==
    ASSUME SessionInvariant, EnteredInvariant, main # <<>>
    PROVE  /\ Tail(main) \in Seq(EnteredBlock(entered))
           /\ Tail(main) \in Seq(NoForget)
           /\ Carries(Head(main)) => Current.account \in entered
  <1>1. Head(main) \in EnteredBlock(entered) /\ Tail(main) \in Seq(EnteredBlock(entered))
    BY SeqOps DEF EnteredInvariant, BlocksEntered
  <1> QED BY <1>1 DEF EnteredBlock, Current, EnteredInvariant, OneForget

\* Blocks that join the queue or leave it do not begin a second log-out.
LEMMA ForgetsOnce ==
    ASSUME SessionInvariant, OneForget
    PROVE  /\ main' = main => OneForget'
           /\ \A b \in NoForget : main' = Append(main, b) => OneForget' /\ (Busy' <=> Busy)
           /\ main # <<>> /\ main' = Tail(main) => OneForget' /\ ~Busy'
           /\ \A b \in NoForget :
                 main # <<>> /\ main' = Append(Tail(main), b) => OneForget' /\ ~Busy'
  <1> USE DEF OneForget
  <1>0. main \in Seq(SessionBlock) /\ \A b \in NoForget : b \in SessionBlock /\ b.do # "forget"
    BY DEF SessionInvariant, SessionTypeOK, NoForget
  <1>1. main' = main => OneForget'
    OBVIOUS
  <1>2. ASSUME NEW b \in NoForget, main' = Append(main, b)
        PROVE  OneForget' /\ (Busy' <=> Busy)
    <2>1. CASE main = <<>>
      <3>1. main' = <<b>>
        BY <1>2, <2>1, PostedAlone
      <3>2. main' # <<>> /\ Head(main') = b /\ Tail(main') = <<>>
        BY <3>1
      <3> QED BY <1>0, <2>1, <3>2, NothingPosted DEF Busy, Runs
    <2>2. CASE main # <<>>
      <3>1. main' # <<>> /\ Head(main') = Head(main) /\ Tail(main') = Append(Tail(main), b)
        BY <1>0, <1>2, <2>2
      <3> QED BY <2>2, <3>1, Posted DEF Busy, Runs
    <2> QED BY <2>1, <2>2
  <1>3. ASSUME NEW q \in Seq(NoForget), main' = q
        PROVE  OneForget' /\ ~Busy'
    <2>1. q # <<>> => Head(q) \in NoForget /\ Tail(q) \in Seq(NoForget)
      BY SeqOps
    <2> QED BY <1>0, <1>3, <2>1 DEF Busy, Runs
  <1>4. main # <<>> /\ main' = Tail(main) => OneForget' /\ ~Busy'
    BY <1>3
  <1>5. ASSUME NEW b \in NoForget, main # <<>>, main' = Append(Tail(main), b)
        PROVE  OneForget' /\ ~Busy'
    BY <1>3, <1>5, Posted
  <1> QED BY <1>1, <1>2, <1>4, <1>5

\* An account of a call that is answered is still under way then.
LEMMA UnderWayLater ==
    ASSUME SessionTypeOK, NEW c \in calls, NEW b \in SessionBlock,
           Carries(b), b.call = c, calls' = calls \ {c}, main' = Append(main, b)
    PROVE  /\ StillUnderWay \subseteq StillUnderWay'
           /\ c.account \in StillUnderWay'
  <1>1. /\ Len(main') = Len(main) + 1 /\ main'[Len(main')] = b
        /\ \A i \in 1..Len(main) : main'[i] = main[i]
        /\ Len(main) \in Nat
    BY DEF SessionTypeOK
  <1>2. c.account \in StillUnderWay'
    <2>1. Len(main') \in {j \in 1..Len(main') : main'[j].do \in {"callback", "answer"}}
      BY <1>1 DEF Carries
    <2>2. main'[Len(main')].call.account = c.account
      BY <1>1
    <2> QED BY <2>1, <2>2 DEF StillUnderWay
  <1>3. ASSUME NEW a \in StillUnderWay PROVE a \in StillUnderWay'
    <2>1. CASE \E d \in calls : a = d.account
      <3>1. PICK d \in calls : a = d.account
        BY <2>1
      <3> QED BY <1>2, <3>1 DEF StillUnderWay
    <2>2. CASE \E i \in {j \in 1..Len(main) : main[j].do \in {"callback", "answer"}} :
                  a = main[i].call.account
      <3>1. PICK i \in 1..Len(main) : main[i].do \in {"callback", "answer"}
                                      /\ a = main[i].call.account
        BY <2>2
      <3>2. i \in {j \in 1..Len(main') : main'[j].do \in {"callback", "answer"}}
        BY <1>1, <3>1
      <3>3. main'[i].call.account = a
        BY <1>1, <3>1
      <3> QED BY <3>2, <3>3 DEF StillUnderWay
    <2> QED BY <2>1, <2>2 DEF StillUnderWay
  <1> QED BY <1>2, <1>3

\* Tapping a button.
LEMMA EnteredAfterTaps ==
    ASSUME SessionInvariant, EnteredInvariant, NEW a \in Accounts,
           NEW kind \in {"login", "create"}, TapButton(kind, a) \/ TapLogOut
    PROVE  EnteredInvariant'
  <1> USE DEF EnteredInvariant
  <1>1. CASE TapButton(kind, a)
    <2>1. /\ entered' = entered \union {a} /\ calls' = calls \union {Started(kind, a)}
          /\ main' = main /\ ~Busy /\ UNCHANGED <<session, stored, screen>>
      BY <1>1 DEF TapButton
    <2>2. CallsEntered'
      BY <2>1 DEF CallsEntered, Started
    <2>3. BlocksEntered'
      <3>1. EnteredBlock(entered) \subseteq EnteredBlock(entered')
        BY <2>1 DEF EnteredBlock
      <3> QED BY <2>1, <3>1, SeqSubset DEF BlocksEntered
    <2>4. OneForget' /\ LateSession'
      BY <2>1 DEF OneForget, LateSession, Busy, Runs
    <2>5. LogOutIsFinal'
      BY <2>1 DEF LogOutIsFinal
    <2> QED BY <2>2, <2>3, <2>4, <2>5
  <1>2. CASE TapLogOut
    <2> DEFINE b == [do |-> "logout"]
    <2>1. /\ main' = Append(main, b) /\ ~Busy
          /\ UNCHANGED <<session, stored, screen, calls, entered>>
      BY <1>2 DEF TapLogOut, Post
    <2>2. b \in EnteredBlock(entered) /\ b \in NoForget
      BY DEF EnteredBlock, NoForget, SessionBlock, Carries
    <2>3. CallsEntered' /\ LogOutIsFinal'
      BY <2>1 DEF CallsEntered, LogOutIsFinal
    <2>4. BlocksEntered'
      BY <2>1, <2>2, Posted DEF BlocksEntered
    <2>5. OneForget' /\ ~Busy'
      BY <2>1, <2>2, ForgetsOnce
    <2> QED BY <2>3, <2>4, <2>5 DEF LateSession
  <1> QED BY <1>1, <1>2

\* An answer from the network signs in, or stores, an account that was entered.
LEMMA EnteredAfterAnswered ==
    ASSUME SessionInvariant, EnteredInvariant, NEW c \in calls, Answered(c)
    PROVE  EnteredInvariant'
  <1> USE DEF EnteredInvariant
  <1>0. /\ c \in Call /\ c.account \in entered
        /\ UNCHANGED <<screen, entered>>
    BY DEF SessionInvariant, SessionTypeOK, CallsEntered, Answered, SignedIn, NotSignedIn,
           StepDone, ProfileWritten, StepFails
  <1>1. CASE StepDone(c) \/ StepFails(c)
    <2>1. /\ main' = main /\ ~Busy /\ UNCHANGED <<session, stored>>
          /\ \A d \in calls' : d \in calls \/ d.account = c.account
      <3>1. CASE StepDone(c)
        <4>1. [c EXCEPT !.kind = NextStep[c.kind]].account = c.account
          BY <1>0 DEF Call
        <4> QED BY <3>1, <4>1 DEF StepDone
      <3> QED BY <1>1, <3>1 DEF StepFails
    <2>2. CallsEntered' /\ BlocksEntered' /\ LogOutIsFinal'
      BY <1>0, <2>1 DEF CallsEntered, BlocksEntered, LogOutIsFinal
    <2>3. OneForget' /\ LateSession'
      BY <2>1 DEF OneForget, LateSession, Busy, Runs
    <2> QED BY <2>2, <2>3
  <1>2. CASE SignedIn(c) \/ NotSignedIn(c) \/ ProfileWritten(c)
    <2>1. PICK b \in SessionBlock :
              /\ Carries(b) /\ b.call = c /\ main' = Append(main, b)
      <3>1. CASE SignedIn(c)
        <4>1. Callback(c, TRUE) \in SessionBlock
          BY <1>0 DEF Callback, SessionBlock
        <4> QED BY <3>1, <4>1 DEF SignedIn, Post, Callback, Carries
      <3>2. CASE NotSignedIn(c)
        <4>1. Callback(c, FALSE) \in SessionBlock
          BY <1>0 DEF Callback, SessionBlock
        <4> QED BY <3>2, <4>1 DEF NotSignedIn, Post, Callback, Carries
      <3>3. CASE ProfileWritten(c)
        <4>1. Answer(c, TRUE) \in SessionBlock
          BY <1>0 DEF Answer, SessionBlock
        <4> QED BY <3>3, <4>1 DEF ProfileWritten, Post, Answer, Carries
      <3> QED BY <1>2, <3>1, <3>2, <3>3
    <2>2. calls' = calls \ {c} /\ session' \in {session, c.account}
          /\ stored' \in {stored, c.account}
      BY <1>2 DEF SignedIn, NotSignedIn, ProfileWritten
    <2>3. b \in EnteredBlock(entered) /\ b \in NoForget
      BY <1>0, <2>1 DEF EnteredBlock, NoForget, Carries
    <2>4. CallsEntered' /\ LogOutIsFinal'
      BY <1>0, <2>2 DEF CallsEntered, LogOutIsFinal
    <2>5. BlocksEntered'
      BY <1>0, <2>1, <2>3, Posted DEF BlocksEntered
    <2>6. OneForget' /\ (Busy' <=> Busy)
      BY <2>1, <2>3, ForgetsOnce
    <2>7. LateSession'
      <3>1. StillUnderWay \subseteq StillUnderWay' /\ c.account \in StillUnderWay'
        BY <2>1, <2>2, UnderWayLater DEF SessionInvariant
      <3> QED BY <2>2, <2>6, <3>1 DEF LateSession
    <2> QED BY <2>4, <2>5, <2>6, <2>7
  <1> QED BY <1>1, <1>2 DEF Answered

\* A block that brings an answer concerns an account that was entered.
LEMMA EnteredAfterBlocks ==
    ASSUME SessionInvariant, EnteredInvariant,
           LoginCalledBack \/ CreateCalledBack \/ StartAnswered \/ FormAnswered
    PROVE  EnteredInvariant'
  <1> USE DEF EnteredInvariant
  <1>0. /\ main # <<>> /\ Carries(Head(main)) /\ UNCHANGED <<session, entered>>
    BY DEF LoginCalledBack, CreateCalledBack, StartAnswered, FormAnswered, Runs, Carries
  <1>1. /\ Current \in Call /\ Current.account \in entered /\ Head(main).ok \in BOOLEAN
        /\ Tail(main) \in Seq(EnteredBlock(entered)) /\ Tail(main) \in Seq(NoForget)
    BY <1>0, AtHead, EnteredAtHead
  <1>2. Answer(Current, Head(main).ok) \in EnteredBlock(entered)
        /\ Answer(Current, Head(main).ok) \in NoForget
    BY <1>1 DEF Answer, SessionBlock, EnteredBlock, NoForget
  <1>3. main' = Tail(main) \/ main' = Append(Tail(main), Answer(Current, Head(main).ok))
    BY <1>1 DEF LoginCalledBack, CreateCalledBack, StartAnswered, FormAnswered
  <1>4. BlocksEntered'
    BY <1>0, <1>1, <1>2, <1>3, Posted DEF BlocksEntered
  <1>5. OneForget' /\ LateSession'
    BY <1>0, <1>2, <1>3, ForgetsOnce DEF LateSession
  <1>6. CallsEntered'
    <2>1. \A d \in calls' : d \in calls \/ d = [Current EXCEPT !.kind = "picture"]
      BY DEF LoginCalledBack, CreateCalledBack, StartAnswered, FormAnswered
    <2>2. [Current EXCEPT !.kind = "picture"].account = Current.account
      BY <1>1 DEF Call
    <2> QED BY <1>0, <1>1, <2>1, <2>2 DEF CallsEntered
  <1>7. stored' \in {stored, Current.account}
    BY DEF LoginCalledBack, CreateCalledBack, StartAnswered, FormAnswered
  <1>8. LogOutIsFinal'
    BY <1>0, <1>1, <1>7 DEF LogOutIsFinal
  <1> QED BY <1>4, <1>5, <1>6, <1>8

\* The two steps of a log-out.
LEMMA EnteredAfterLogOut ==
    ASSUME SessionInvariant, EnteredInvariant, SignOut \/ Forget \/ LogOutFails
    PROVE  EnteredInvariant'
  <1> USE DEF EnteredInvariant
  <1>0. main # <<>> /\ calls' = calls
    BY DEF SignOut, Forget, LogOutFails, Busy, Runs
  <1>1. /\ Tail(main) \in Seq(EnteredBlock(entered))
        /\ Tail(main) \in Seq(NoForget)
    BY <1>0, EnteredAtHead
  <1>2. CASE SignOut
    <2> DEFINE b == [do |-> "forget"]
    <2>1. /\ main' = <<b>> \o Tail(main) /\ session' = NoOne
          /\ UNCHANGED <<stored, screen, entered>>
      BY <1>2 DEF SignOut
    <2>2. b \in EnteredBlock(entered)
      BY DEF EnteredBlock, SessionBlock, Carries
    <2>3. main' \in Seq(EnteredBlock(entered)) /\ Tail(main') = Tail(main)
      BY <1>1, <2>1, <2>2, Joined
    <2>4. CallsEntered' /\ BlocksEntered'
      BY <1>0, <2>1, <2>3 DEF CallsEntered, BlocksEntered
    <2>5. OneForget' /\ LateSession'
      BY <1>1, <2>1, <2>3 DEF OneForget, LateSession
    <2>6. LogOutIsFinal'
      BY <2>1 DEF LogOutIsFinal
    <2> QED BY <2>4, <2>5, <2>6
  <1>3. CASE Forget
    <2>1. /\ main' = Tail(main) /\ session' = session /\ stored' = NoOne
          /\ screen' = "welcome" /\ entered' = StillUnderWay /\ Busy
      BY <1>3 DEF Forget, PushTo
    <2>2. CallsEntered'
      BY <1>0, <2>1 DEF CallsEntered, StillUnderWay
    <2>3. BlocksEntered'
      <3>1. main \in Seq(SessionBlock) /\ main' \in Seq(SessionBlock)
        BY <1>0, <2>1, AtHead DEF SessionInvariant, SessionTypeOK
      <3>2. ASSUME NEW i \in 1..Len(main'), Carries(main'[i])
            PROVE  main'[i].call.account \in StillUnderWay
        <4>1. i + 1 \in 1..Len(main) /\ main'[i] = main[i + 1]
          BY <1>0, <2>1, <3>1
        <4>2. i + 1 \in {j \in 1..Len(main) : main[j].do \in {"callback", "answer"}}
          BY <3>2, <4>1 DEF Carries
        <4> QED BY <4>1, <4>2 DEF StillUnderWay
      <3>3. \A i \in 1..Len(main') : main'[i] \in EnteredBlock(entered')
        BY <2>1, <3>1, <3>2 DEF EnteredBlock
      <3> QED BY <3>1, <3>3 DEF BlocksEntered
    <2>4. OneForget' /\ LateSession'
      BY <1>0, <2>1, ForgetsOnce DEF LateSession
    <2>5. LogOutIsFinal'
      BY <2>1 DEF LogOutIsFinal, LateSession
    <2> QED BY <2>2, <2>3, <2>4, <2>5
  <1>4. CASE LogOutFails
    <2>1. main' = Tail(main) /\ UNCHANGED <<session, stored, screen, entered>>
      BY <1>4 DEF LogOutFails
    <2>2. CallsEntered' /\ BlocksEntered' /\ LogOutIsFinal'
      BY <1>0, <1>1, <2>1 DEF CallsEntered, BlocksEntered, LogOutIsFinal
    <2>3. OneForget' /\ LateSession'
      BY <1>0, <2>1, ForgetsOnce DEF LateSession
    <2> QED BY <2>2, <2>3
  <1> QED BY <1>2, <1>3, <1>4

\* A start signs in with the stored credentials only.
LEMMA EnteredAfterStartAgain ==
    ASSUME SessionInvariant, EnteredInvariant, StartAgain
    PROVE  EnteredInvariant'
  <1> USE DEF EnteredInvariant
  <1>1. /\ main' = <<>> /\ UNCHANGED <<session, stored, entered>>
        /\ IF stored = NoOne THEN screen' = "welcome" ELSE screen' = "initial"
        /\ \A c \in calls' : c.account = stored /\ stored # NoOne
    BY DEF StartAgain
  <1>2. CallsEntered' /\ LogOutIsFinal'
    BY <1>1 DEF CallsEntered, LogOutIsFinal
  <1>3. BlocksEntered' /\ OneForget' /\ LateSession'
    BY <1>1, NothingPosted DEF BlocksEntered, OneForget, LateSession, Busy, Runs
  <1> QED BY <1>2, <1>3

\* Every step keeps what is under way among the accounts entered.
LEMMA EnteredInEveryStep ==
    SessionInvariant /\ EnteredInvariant /\ [SessionNext]_sessionVars => EnteredInvariant'
  <1> SUFFICES ASSUME SessionInvariant, EnteredInvariant, [SessionNext]_sessionVars
               PROVE  EnteredInvariant'
    OBVIOUS
  <1>1. CASE \E a \in Accounts : TapButton("login", a) \/ TapButton("create", a)
    BY <1>1, EnteredAfterTaps
  <1>2. CASE TapLogOut
    <2>1. session \in Accounts
      BY <1>2 DEF TapLogOut, SessionInvariant, SessionTypeOK, ConversationsNeedASession
    <2> QED BY <1>2, <2>1, EnteredAfterTaps
  <1>3. CASE \E c \in calls : Answered(c)
    BY <1>3, EnteredAfterAnswered
  <1>4. CASE RunMain
    BY <1>4, EnteredAfterBlocks, EnteredAfterLogOut DEF RunMain
  <1>5. CASE StartAgain
    BY <1>5, EnteredAfterStartAgain
  <1>6. CASE UNCHANGED sessionVars
    BY <1>6 DEF sessionVars, EnteredInvariant, CallsEntered, BlocksEntered, OneForget,
                LateSession, LogOutIsFinal, Busy, Runs, StillUnderWay
  <1> QED BY <1>1, <1>2, <1>3, <1>4, <1>5, <1>6 DEF SessionNext

\* After a log-out that ran to its end nobody is signed in, by an answer that
\* comes late or by any number of restarts, but an account that was entered
\* since or whose call was under way even then; until one is, the welcome screen
\* stays.  A process that ends between signOut and the removal of the
\* credentials has not logged out.
THEOREM LoggedOutStaysOut == SessionSpec => []LogOutIsFinal
  <1>1. SessionInit => EnteredInvariant
    BY NothingPosted DEF SessionInit, EnteredInvariant, CallsEntered, BlocksEntered, OneForget,
       LateSession, LogOutIsFinal, Busy, Runs
  <1>2. EnteredInvariant => LogOutIsFinal
    BY DEF EnteredInvariant
  <1> QED BY <1>1, <1>2, SessionIsSafe, EnteredInEveryStep, PTL DEF SessionSpec, SessionSafety

-----------------------------------------------------------------------------
(* Credentials.  As long as nothing was tangled, one call or block at a    *)
(* time is under way, and it says whose the session is; the conversations  *)
(* are only reached by an answer that says whose the credentials are, too. *)

LogOuts == {[do |-> "logout"]}
OneCall ==
    main = <<>> /\ \E c \in Call : calls = {c} /\ (Waits(c) => session = c.account)
OneBlock ==
    calls = {} /\ \E b \in SessionBlock :
        /\ main = <<b>> /\ Carries(b)
        /\ b.ok => session = b.call.account
        /\ b.ok /\ b.do = "answer" => stored = session

Leaving == Busy /\ calls = {} /\ Tail(main) = <<>>

Alone ==
    ~tangled => \/ Leaving
                \/ /\ screen = "conversations"
                   /\ calls = {} /\ main \in Seq(LogOuts) /\ stored = session
                \/ screen # "conversations" /\ (Idle \/ OneCall \/ OneBlock)

\* What is under way when a call is.
LEMMA AloneWithCall ==
    ASSUME SessionInvariant, Alone, ~tangled, NEW c \in calls
    PROVE  /\ screen # "conversations" /\ calls = {c} /\ main = <<>>
           /\ Waits(c) => session = c.account
  BY DEF Alone, OneCall, OneBlock, Idle, Leaving

\* The blocks of a thread do not run within logOutUser.
LEMMA NotLeaving ==
    /\ main # <<>> /\ Head(main).do # "forget" => ~Busy
    /\ OneBlock \/ OneCall \/ Idle => ~Busy
    /\ main \in Seq(LogOuts) => ~Busy
  <1>1. OneBlock => ~Busy
    <2> SUFFICES ASSUME OneBlock PROVE ~Busy
      OBVIOUS
    <2>1. PICK b \in SessionBlock : main = <<b>> /\ Carries(b)
      BY DEF OneBlock
    <2>2. Head(main) = b
      BY <2>1
    <2> QED BY <2>1, <2>2 DEF Busy, Runs, Carries
  <1>2. OneCall \/ Idle => ~Busy
    BY DEF OneCall, Idle, Busy, Runs
  <1>3. main \in Seq(LogOuts) => ~Busy
    <2>1. main \in Seq(LogOuts) /\ main # <<>> => Head(main) \in LogOuts
      BY SeqOps
    <2> QED BY <2>1 DEF Busy, Runs, LogOuts
  <1> QED BY <1>1, <1>2, <1>3 DEF Busy, Runs

\* A thread that has a block on the queue is the only one.
LEMMA AloneWithBlock ==
    ASSUME SessionInvariant, Alone, ~tangled, main # <<>>, Carries(Head(main))
    PROVE  /\ screen # "conversations" /\ calls = {} /\ Tail(main) = <<>>
           /\ Head(main).ok => session = Current.account
           /\ Head(main).ok /\ Head(main).do = "answer" => stored = session
  <1>1. ~Busy
    BY NotLeaving DEF Carries
  <1>2. main \notin Seq(LogOuts)
    <2>1. main \in Seq(LogOuts) => Head(main) \in LogOuts
      BY SeqOps
    <2> QED BY <2>1 DEF LogOuts, Carries
  <1>3. OneBlock /\ screen # "conversations"
    BY <1>1, <1>2 DEF Alone, Idle, OneCall, Leaving
  <1>4. PICK b \in SessionBlock :
            /\ main = <<b>> /\ Carries(b)
            /\ b.ok => session = b.call.account
            /\ b.ok /\ b.do = "answer" => stored = session
    BY <1>3 DEF OneBlock
  <1>5. Head(main) = b /\ Tail(main) = <<>>
    BY <1>4
  <1> QED BY <1>3, <1>4, <1>5 DEF OneBlock, Current

\* At first nothing is under way.
LEMMA AloneAtFirst == SessionInit => Alone
  BY DEF SessionInit, Alone, Idle

\* A tap begins a thread only where none is under way, unless it tangles.
LEMMA AloneAfterTaps ==
    ASSUME SessionInvariant, Alone, NEW a \in Accounts, NEW kind \in {"login", "create"},
           TapButton(kind, a) \/ TapLogOut
    PROVE  Alone'
  <1> SUFFICES ASSUME ~tangled' PROVE Alone'
    BY DEF Alone
  <1>1. CASE TapButton(kind, a)
    <2>1. /\ Idle /\ screen' = "welcome" /\ main' = <<>>
          /\ calls' = {Started(kind, a)}
      BY <1>1 DEF TapButton, Idle
    <2>2. Started(kind, a) \in Call /\ ~Waits(Started(kind, a))
      BY <1>1 DEF TapButton, Started, Call, Kinds, Waits, SessionInvariant, SessionTypeOK
    <2>3. PICK c \in Call : calls' = {c} /\ ~Waits(c)
      BY <2>1, <2>2
    <2>4. OneCall'
      BY <2>1, <2>3 DEF OneCall
    <2> QED BY <2>1, <2>4 DEF Alone
  <1>2. CASE TapLogOut
    <2>1. ~tangled /\ screen = "conversations" /\ ~Busy
      BY <1>2 DEF TapLogOut
    <2>2. main \in Seq(LogOuts) /\ calls = {} /\ stored = session
      BY <2>1 DEF Alone, Leaving
    <2>3. main' \in Seq(LogOuts)
      BY <1>2, <2>2, Posted DEF TapLogOut, Post, LogOuts
    <2> QED BY <1>2, <2>2, <2>3 DEF TapLogOut, Alone
  <1> QED BY <1>1, <1>2

\* An answer goes on with the thread that called.
LEMMA AloneAfterAnswered ==
    ASSUME SessionInvariant, Alone, NEW c \in calls, Answered(c)
    PROVE  Alone'
  <1> SUFFICES ASSUME ~tangled' PROVE Alone'
    BY DEF Alone
  <1>0. c \in Call /\ c.account \in Accounts
    BY DEF SessionInvariant, SessionTypeOK, Call
  <1>1. ~tangled /\ screen' = screen
    <2>1. tangled' = tangled /\ screen' = screen
      BY DEF Answered, SignedIn, NotSignedIn, StepDone, ProfileWritten, StepFails
    <2> QED BY <2>1
  <1>2. /\ screen' # "conversations" /\ calls = {c} /\ main = <<>>
        /\ Waits(c) => session = c.account
    BY <1>1, AloneWithCall
  <1>3. CASE StepDone(c)
    <2>1. NextStep[c.kind] \in {"link", "profile"} /\ Waits(c)
      BY <1>3 DEF StepDone, NextStep, Waits
    <2>2. [c EXCEPT !.kind = NextStep[c.kind]] \in Call
      BY <1>0, <2>1 DEF Call, Kinds
    <2>3. PICK d \in Call : d = [c EXCEPT !.kind = NextStep[c.kind]]
      BY <2>2
    <2>4. calls' = {d} /\ main' = <<>> /\ session' = session
      BY <1>2, <1>3, <2>3 DEF StepDone
    <2>5. d.account = c.account
      BY <1>0, <2>3 DEF Call
    <2>6. OneCall'
      BY <1>2, <2>1, <2>4, <2>5 DEF OneCall
    <2> QED BY <1>2, <2>6 DEF Alone
  <1>4. CASE StepFails(c)
    BY <1>2, <1>4 DEF StepFails, Alone, Idle
  <1>5. CASE SignedIn(c) \/ NotSignedIn(c) \/ ProfileWritten(c)
    <2>1. PICK b \in SessionBlock :
              /\ Carries(b) /\ b.call = c /\ main' = Append(main, b)
              /\ b.ok => session' = c.account
              /\ b.ok /\ b.do = "answer" => stored' = session'
      <3>1. CASE SignedIn(c)
        <4>1. Callback(c, TRUE) \in SessionBlock
          BY <1>0 DEF Callback, SessionBlock
        <4> QED BY <3>1, <4>1 DEF SignedIn, Post, Callback, Carries
      <3>2. CASE NotSignedIn(c)
        <4>1. Callback(c, FALSE) \in SessionBlock
          BY <1>0 DEF Callback, SessionBlock
        <4> QED BY <3>2, <4>1 DEF NotSignedIn, Post, Callback, Carries
      <3>3. CASE ProfileWritten(c)
        <4>1. Answer(c, TRUE) \in SessionBlock
          BY <1>0 DEF Answer, SessionBlock
        <4>2. Waits(c)
          BY <3>3 DEF ProfileWritten, Waits
        <4> QED BY <1>2, <3>3, <4>1, <4>2 DEF ProfileWritten, Post, Answer, Carries
      <3> QED BY <1>5, <3>1, <3>2, <3>3
    <2>2. main' = <<b>> /\ calls' = {}
      BY <1>2, <1>5, <2>1, PostedAlone DEF SignedIn, NotSignedIn, ProfileWritten
    <2>3. OneBlock'
      BY <2>1, <2>2 DEF OneBlock
    <2> QED BY <1>2, <2>3 DEF Alone
  <1> QED BY <1>3, <1>4, <1>5 DEF Answered

\* A callback goes on with its thread or ends it.
LEMMA AloneAfterCallbacks ==
    ASSUME SessionInvariant, Alone, LoginCalledBack \/ CreateCalledBack
    PROVE  Alone'
  <1> SUFFICES ASSUME ~tangled' PROVE Alone'
    BY DEF Alone
  <1>0. /\ ~tangled /\ main # <<>> /\ Carries(Head(main))
        /\ session' = session /\ screen' = screen
    <2>1. /\ tangled' = tangled /\ main # <<>> /\ Head(main).do = "callback"
          /\ session' = session /\ screen' = screen
      BY DEF LoginCalledBack, CreateCalledBack, Runs
    <2> QED BY <2>1 DEF Carries
  <1>1. /\ screen # "conversations" /\ calls = {} /\ Tail(main) = <<>>
        /\ Head(main).ok => session = Current.account
    BY <1>0, AloneWithBlock
  <1>2. Current \in Call /\ Head(main).ok \in BOOLEAN
    BY <1>0, AtHead
  <1>3. CASE LoginCalledBack \/ ~Head(main).ok
    <2>1. Answer(Current, Head(main).ok) \in SessionBlock
      BY <1>2 DEF Answer, SessionBlock
    <2>2. PICK b \in SessionBlock : b = Answer(Current, Head(main).ok)
      BY <2>1
    <2>3. calls' = {} /\ main' = <<b>>
      BY <1>1, <1>2, <1>3, <2>2, PostedAlone DEF LoginCalledBack, CreateCalledBack
    <2>4. b.ok => session' = b.call.account /\ stored' = session'
      BY <1>0, <1>1, <1>3, <2>2 DEF Answer, LoginCalledBack, CreateCalledBack
    <2>5. OneBlock'
      BY <2>2, <2>3, <2>4 DEF OneBlock, Answer, Carries
    <2> QED BY <1>0, <1>1, <2>5 DEF Alone
  <1>4. CASE CreateCalledBack /\ Head(main).ok
    <2>1. [Current EXCEPT !.kind = "picture"] \in Call
      BY <1>2 DEF Call, Kinds
    <2>2. PICK c \in Call : c = [Current EXCEPT !.kind = "picture"]
      BY <2>1
    <2>3. calls' = {c} /\ main' = <<>>
      BY <1>1, <1>4, <2>2 DEF CreateCalledBack
    <2>4. c.account = Current.account
      BY <1>2, <2>2 DEF Call
    <2>5. OneCall'
      BY <1>0, <1>1, <1>4, <2>3, <2>4 DEF OneCall
    <2> QED BY <1>0, <1>1, <2>5 DEF Alone
  <1> QED BY <1>3, <1>4

\* The last block of a thread ends it.
LEMMA AloneAfterAnswers ==
    ASSUME SessionInvariant, Alone, StartAnswered \/ FormAnswered
    PROVE  Alone'
  <1> SUFFICES ASSUME ~tangled' PROVE Alone'
    BY DEF Alone
  <1>0. /\ ~tangled /\ main # <<>> /\ Head(main).do = "answer"
        /\ session' = session /\ stored' = stored /\ calls' = calls /\ main' = Tail(main)
    BY DEF StartAnswered, FormAnswered, Runs
  <1>1. /\ screen # "conversations" /\ calls = {} /\ Tail(main) = <<>>
        /\ Head(main).ok => stored = session
    BY <1>0, AloneWithBlock DEF Carries
  <1>2. screen' = "conversations" => Head(main).ok
    BY <1>1 DEF StartAnswered, FormAnswered, PushTo
  <1> QED BY <1>0, <1>1, <1>2, NothingPosted DEF Alone, Idle

\* The two steps of a log-out.
LEMMA AloneAfterLogOut ==
    ASSUME SessionInvariant, Alone, SignOut \/ Forget \/ LogOutFails
    PROVE  Alone'
  <1> SUFFICES ASSUME ~tangled' PROVE Alone'
    BY DEF Alone
  <1>1. CASE SignOut
    <2>1. calls' = {} /\ Tail(main) = <<>> /\ main' = <<[do |-> "forget"]>> \o Tail(main)
      BY <1>1 DEF SignOut
    <2>2. main' = <<[do |-> "forget"]>>
      <3>1. <<[do |-> "forget"]>> \o <<>> = <<[do |-> "forget"]>>
        BY JoinedToNothing
      <3> QED BY <2>1, <3>1
    <2>3. Busy' /\ Tail(main') = <<>>
      BY <2>2 DEF Busy, Runs
    <2> QED BY <2>1, <2>3 DEF Alone, Leaving
  <1>2. CASE Forget
    <2>1. /\ ~tangled /\ Busy /\ screen' = "welcome" /\ calls' = calls /\ main' = Tail(main)
      BY <1>2 DEF Forget, PushTo
    <2>2. Leaving
      BY <2>1, NotLeaving DEF Alone
    <2> QED BY <2>1, <2>2 DEF Alone, Idle, Leaving
  <1>3. CASE LogOutFails
    <2>0. /\ ~tangled /\ main # <<>> /\ Head(main).do = "logout" /\ main' = Tail(main)
          /\ UNCHANGED <<session, stored, screen, calls>>
      BY <1>3 DEF LogOutFails, Runs
    <2>1. screen = "conversations" /\ calls = {} /\ main \in Seq(LogOuts) /\ stored = session
      <3>1. ~Idle /\ ~OneCall /\ ~Leaving
        BY <2>0 DEF Idle, OneCall, Leaving, Busy, Runs
      <3>2. ASSUME OneBlock PROVE FALSE
        <4>1. PICK b \in SessionBlock : main = <<b>> /\ Carries(b)
          BY <3>2 DEF OneBlock
        <4>2. Head(main) = b
          BY <4>1
        <4> QED BY <2>0, <4>1, <4>2 DEF Carries
      <3> QED BY <2>0, <3>1, <3>2 DEF Alone
    <2>3. main' \in Seq(LogOuts)
      BY <2>0, <2>1, SeqOps
    <2> QED BY <2>0, <2>1, <2>3 DEF Alone
  <1> QED BY <1>1, <1>2, <1>3

\* A restart ends all threads and begins one at most.
LEMMA AloneAfterStartAgain ==
    ASSUME SessionInvariant, Alone, StartAgain
    PROVE  Alone'
  <1>1. main' = <<>> /\ screen' # "conversations"
    BY DEF StartAgain
  <1>2. CASE stored = NoOne
    BY <1>1, <1>2 DEF StartAgain, Alone, Idle
  <1>3. CASE stored # NoOne
    <2>1. [kind |-> "start", account |-> stored, window |-> window + 1, tap |-> taps] \in Call
      BY <1>3 DEF Call, Kinds, SessionInvariant, SessionTypeOK
    <2>2. PICK c \in Call :
             c = [kind |-> "start", account |-> stored, window |-> window + 1, tap |-> taps]
      BY <2>1
    <2>3. calls' = {c} /\ ~Waits(c)
      BY <1>3, <2>2 DEF StartAgain, Waits
    <2>4. OneCall'
      BY <1>1, <2>3 DEF OneCall
    <2> QED BY <1>1, <2>4 DEF Alone
  <1> QED BY <1>2, <1>3

\* Every step keeps one thread at a time, unless it tangles.
LEMMA AloneInEveryStep ==
    SessionInvariant /\ Alone /\ [SessionNext]_sessionVars => Alone'
  <1> SUFFICES ASSUME SessionInvariant, Alone, [SessionNext]_sessionVars
               PROVE  Alone'
    OBVIOUS
  <1>1. CASE \E a \in Accounts : TapButton("login", a) \/ TapButton("create", a)
    BY <1>1, AloneAfterTaps
  <1>2. CASE TapLogOut
    <2>1. session \in Accounts
      BY <1>2 DEF TapLogOut, SessionInvariant, SessionTypeOK, ConversationsNeedASession
    <2> QED BY <1>2, <2>1, AloneAfterTaps
  <1>3. CASE \E c \in calls : Answered(c)
    BY <1>3, AloneAfterAnswered
  <1>4. CASE RunMain
    BY <1>4, AloneAfterCallbacks, AloneAfterAnswers, AloneAfterLogOut DEF RunMain
  <1>5. CASE StartAgain
    BY <1>5, AloneAfterStartAgain
  <1>6. CASE UNCHANGED sessionVars
    BY <1>6 DEF sessionVars, Alone, OneCall, OneBlock, Idle, Leaving, Busy, Runs
  <1> QED BY <1>1, <1>2, <1>3, <1>4, <1>5, <1>6 DEF SessionNext

\* Whoever sees his conversations is the one the next start signs in, for any
\* number of taps and restarts, unless calls overlapped (login and register
\* store the credentials before they answer the screen).
THEOREM CredentialsFollowTheSession == SessionSpec => []CredentialsAreTheSession
  <1>1. SessionInvariant /\ Alone => CredentialsAreTheSession
    BY NotLeaving DEF Alone, CredentialsAreTheSession, Leaving
  <1>2. SessionSafety => []Alone
    BY SessionIsSafe, AloneAtFirst, AloneInEveryStep, PTL DEF SessionSafety
  <1> QED BY <1>1, <1>2, SessionIsSafe, PTL DEF SessionSpec
-----------------------------------------------------------------------------
(* ConversationList: the invariant *)

Reports(q, p) == {i \in DOMAIN q : q[i].kind = "value" /\ q[i].peer = p}

\* The last report to p's conversation in a queue says S.
LastReport(q, p, S) ==
    \E i \in Reports(q, p) : q[i].found = S /\ \A j \in Reports(q, p) : j <= i

OneLookUp(q) ==
    \A i, j \in DOMAIN q :
        /\ q[i].kind \in {"added", "profile"} /\ q[j].kind \in {"added", "profile"}
        /\ q[i].peer = q[j].peer
        => i = j

NoLookUp(q, p) ==
    \A i \in DOMAIN q : q[i].kind \in {"added", "profile"} => q[i].peer # p

HasReload(q) == \E i \in DOMAIN q : q[i].kind = "reload"

\* What a block of the main queue takes for granted.
FitsStep(b, step, loc, S) ==
    /\ b.kind \in {"added", "profile"} => step[b.peer] = b.kind
    /\ b.kind = "value" => step[b.peer] = "listed" /\ b.found \subseteq In(loc[b.peer], S)

QueueFits ==
    /\ OneLookUp(queue)
    /\ \A i \in DOMAIN queue : FitsStep(queue[i], progress, location, arrived)

KeysAreBounded == \E b \in Nat : \A m \in arrived : m <= b

EntriesFollowed ==
    \A p \in Peers :
        /\ progress[p] = "none" <=> entry[p] = NoNode
        /\ progress[p] # "none" => location[p] \in Nodes /\ PeerOf[location[p]] = p
        /\ progress[p] # "none" /\ p \notin moved => location[p] = entry[p]

ArrayIsListed ==
    \A p \in Peers : (\E i \in DOMAIN conversations : conversations[i] = p) <=> progress[p] = "listed"

LastIsShown ==
    \A p \in Peers : lastMessage[p] # 0 =>
        /\ \E i \in DOMAIN items : items[i] = p
        /\ lastMessage[p] \in In(location[p], arrived) \ Malformed

\* With S in the conversation, a last message the listener would leave.
RightLast(m, S) ==
    IF Parsed(S) # {} THEN m = LastOf(Parsed(S))
    ELSE m # 0 => \E k \in Malformed \cap S : k < m

ReportsArePending ==
    \A p \in Peers : progress[p] = "listed" =>
        \/ LastReport(queue, p, In(location[p], arrived))
        \/ Reports(queue, p) = {} /\ RightLast(lastMessage[p], In(location[p], arrived))

ItemsSorted ==
    \A i, j \in DOMAIN items :
        i < j => Clock(lastMessage, items[i]) >= Clock(lastMessage, items[j])

ReloadPending ==
    \/ HasReload(queue)
    \/ rows = [i \in DOMAIN items |-> [peer |-> items[i], last |-> lastMessage[items[i]]]]

ListInvariant ==
    /\ ListTypeOK /\ QueueFits /\ KeysAreBounded /\ EntriesFollowed /\ ArrayIsListed
    /\ LastIsShown /\ ReportsArePending /\ ItemsSorted /\ ReloadPending

\* A block has come to the end of a queue.
LEMMA ListBlockComes ==
  ASSUME NEW S, NEW q \in Seq(S), NEW b \in S
  PROVE  /\ \A i \in DOMAIN Append(q, b) :
                Append(q, b)[i] = b \/ \E j \in DOMAIN q : Append(q, b)[i] = q[j]
         /\ OneLookUp(q) /\ (b.kind \in {"added", "profile"} => NoLookUp(q, b.peer))
                => OneLookUp(Append(q, b))
         /\ \A p, T : LastReport(q, p, T) /\ ~(b.kind = "value" /\ b.peer = p)
                => LastReport(Append(q, b), p, T)
         /\ \A p, T : b.kind = "value" /\ b.peer = p /\ b.found = T
                => LastReport(Append(q, b), p, T)
         /\ \A p : Reports(q, p) = {} /\ ~(b.kind = "value" /\ b.peer = p)
                => Reports(Append(q, b), p) = {}
         /\ HasReload(q) \/ b.kind = "reload" => HasReload(Append(q, b))
<1>1. PICK r : r = Append(q, b)
  OBVIOUS
<1>0. PICK n \in Nat : n = Len(q)
  BY LenProperties
<1>2. /\ DOMAIN q = 1..n /\ DOMAIN r = 1..(n + 1) /\ r[n + 1] = b
      /\ \A i \in 1..n : r[i] = q[i]
  BY <1>0, <1>1, LenProperties, AppendProperties
<1>3. /\ \A i \in DOMAIN q : i \in DOMAIN r /\ r[i] = q[i] /\ i \in Nat /\ i <= n
      /\ \A i \in DOMAIN r : i \in Nat /\ i <= n + 1 /\ (i = n + 1 \/ i \in DOMAIN q)
      /\ n + 1 \in DOMAIN r /\ n + 1 \notin DOMAIN q
  BY <1>2
<1>4. \A i \in DOMAIN r : r[i] = b \/ \E j \in DOMAIN q : r[i] = q[j]
  BY <1>2, <1>3
<1>5. ASSUME OneLookUp(q), b.kind \in {"added", "profile"} => NoLookUp(q, b.peer)
      PROVE  OneLookUp(r)
  BY <1>2, <1>3, <1>5 DEF OneLookUp, NoLookUp
<1>6. ASSUME NEW p, NEW T, LastReport(q, p, T), ~(b.kind = "value" /\ b.peer = p)
      PROVE  LastReport(r, p, T)
  <2>1. Reports(r, p) = Reports(q, p)
    BY <1>2, <1>3, <1>6 DEF Reports
  <2>2. QED
    BY <1>3, <1>6, <2>1 DEF LastReport, Reports
<1>7. ASSUME NEW p, NEW T, b.kind = "value" /\ b.peer = p /\ b.found = T
      PROVE  LastReport(r, p, T)
  <2>1. n + 1 \in Reports(r, p) /\ r[n + 1].found = T
    BY <1>2, <1>3, <1>7 DEF Reports
  <2>2. \A j \in Reports(r, p) : j <= n + 1
    BY <1>3 DEF Reports
  <2>3. QED
    BY <2>1, <2>2 DEF LastReport
<1>8. ASSUME NEW p, Reports(q, p) = {}, ~(b.kind = "value" /\ b.peer = p)
      PROVE  Reports(r, p) = {}
  BY <1>2, <1>3, <1>8 DEF Reports
<1>9. HasReload(q) \/ b.kind = "reload" => HasReload(r)
  BY <1>2, <1>3 DEF HasReload
<1>10. QED
  BY <1>1, <1>4, <1>5, <1>6, <1>7, <1>8, <1>9

\* The first block of a queue has been taken.
LEMMA ListBlockGoes ==
  ASSUME NEW S, NEW q \in Seq(S), q # <<>>
  PROVE  /\ \A i \in DOMAIN Tail(q) : \E j \in DOMAIN q : Tail(q)[i] = q[j]
         /\ \E j \in DOMAIN q : Head(q) = q[j]
         /\ OneLookUp(q) => OneLookUp(Tail(q))
         /\ OneLookUp(q) /\ Head(q).kind \in {"added", "profile"}
                => NoLookUp(Tail(q), Head(q).peer)
         /\ \A p, T : LastReport(q, p, T) =>
                \/ LastReport(Tail(q), p, T)
                \/ /\ Reports(Tail(q), p) = {}
                   /\ Head(q).kind = "value" /\ Head(q).peer = p /\ Head(q).found = T
         /\ \A p : Reports(q, p) = {} =>
                /\ Reports(Tail(q), p) = {}
                /\ ~(Head(q).kind = "value" /\ Head(q).peer = p)
         /\ HasReload(q) /\ Head(q).kind # "reload" => HasReload(Tail(q))
<1>1. PICK t, h : t = Tail(q) /\ h = Head(q)
  OBVIOUS
<1>2. /\ Len(q) \in Nat /\ DOMAIN q = 1..Len(q) /\ Len(q) # 0
      /\ t \in Seq(S) /\ Len(t) = Len(q) - 1
      /\ \A i \in 1..Len(t) : t[i] = q[i + 1]
      /\ DOMAIN t = 1..Len(t)
  <2>1. /\ Len(q) \in Nat /\ DOMAIN q = 1..Len(q) /\ Len(q) # 0
    BY LenProperties, EmptySeq
  <2>2. /\ t \in Seq(S) /\ Len(t) = Len(q) - 1
        /\ \A i \in 1..Len(t) : t[i] = q[i + 1]
    BY <1>1, HeadTailProperties
  <2>3. DOMAIN t = 1..Len(t)
    BY <2>2, LenProperties
  <2>4. QED
    BY <2>1, <2>2, <2>3
<1>3. /\ \A i \in DOMAIN t : /\ i \in Nat /\ i + 1 \in DOMAIN q /\ i + 1 # 1 /\ t[i] = q[i + 1]
      /\ \A i \in DOMAIN q : /\ i \in Nat
                             /\ i # 1 => i - 1 \in DOMAIN t /\ t[i - 1] = q[i]
      /\ 1 \in DOMAIN q
  BY <1>2
<1>4. q[1] = h
  BY <1>1, HeadTailProperties
<1>5. /\ \A i \in DOMAIN t : \E j \in DOMAIN q : t[i] = q[j]
      /\ \E j \in DOMAIN q : h = q[j]
  BY <1>3, <1>4
<1>6. ASSUME OneLookUp(q) PROVE OneLookUp(t)
  <2> SUFFICES ASSUME NEW i \in DOMAIN t, NEW j \in DOMAIN t,
                      t[i].kind \in {"added", "profile"}, t[j].kind \in {"added", "profile"},
                      t[i].peer = t[j].peer
               PROVE  i = j
    BY DEF OneLookUp
  <2>1. PICK k, l : k = i + 1 /\ l = j + 1
    OBVIOUS
  <2>2. /\ k \in DOMAIN q /\ l \in DOMAIN q /\ q[k] = t[i] /\ q[l] = t[j]
        /\ i \in Nat /\ j \in Nat
    BY <1>3, <2>1
  <2>3. k = l
    BY <1>6, <2>2 DEF OneLookUp
  <2>4. QED
    BY <2>1, <2>2, <2>3
<1>7. ASSUME OneLookUp(q), h.kind \in {"added", "profile"} PROVE NoLookUp(t, h.peer)
  BY <1>3, <1>4, <1>7 DEF OneLookUp, NoLookUp
<1>8. ASSUME NEW p, NEW T, LastReport(q, p, T)
      PROVE  \/ LastReport(t, p, T)
             \/ Reports(t, p) = {} /\ h.kind = "value" /\ h.peer = p /\ h.found = T
  <2>1. PICK i \in Reports(q, p) : q[i].found = T /\ \A j \in Reports(q, p) : j <= i
    BY <1>8 DEF LastReport
  <2>2. i \in DOMAIN q /\ i \in Nat /\ q[i].kind = "value" /\ q[i].peer = p
    BY <1>3, <2>1 DEF Reports
  <2>3. \A j \in Reports(t, p) : j + 1 \in Reports(q, p) /\ j \in Nat
    BY <1>3 DEF Reports
  <2>4. CASE i = 1
    <3>1. ASSUME NEW j \in Reports(t, p) PROVE FALSE
      <4>1. j + 1 <= 1 /\ j \in Nat /\ j + 1 # 1
        BY <1>3, <2>1, <2>3, <2>4 DEF Reports
      <4>2. QED
        BY <4>1
    <3>2. QED
      BY <1>4, <2>1, <2>2, <2>4, <3>1
  <2>5. CASE i # 1
    <3>1. i - 1 \in Reports(t, p) /\ t[i - 1].found = T
      BY <1>3, <2>1, <2>2, <2>5 DEF Reports
    <3>2. \A j \in Reports(t, p) : j <= i - 1
      BY <2>1, <2>2, <2>3
    <3>3. QED
      BY <3>1, <3>2 DEF LastReport
  <2>6. QED
    BY <2>4, <2>5
<1>9. ASSUME NEW p, Reports(q, p) = {}
      PROVE  Reports(t, p) = {} /\ ~(h.kind = "value" /\ h.peer = p)
  BY <1>3, <1>4, <1>9 DEF Reports
<1>10. ASSUME HasReload(q), h.kind # "reload" PROVE HasReload(t)
  <2>1. PICK i \in DOMAIN q : q[i].kind = "reload"
    BY <1>10 DEF HasReload
  <2>2. i # 1
    BY <1>4, <1>10, <2>1
  <2>3. i - 1 \in DOMAIN t /\ t[i - 1].kind = "reload"
    BY <1>3, <2>1, <2>2
  <2>4. QED
    BY <2>3 DEF HasReload
<1>11. QED
  BY <1>1, <1>5, <1>6, <1>7, <1>8, <1>9, <1>10

LEMMA ListBlockTypes ==
  /\ \A p \in Peers : /\ [kind |-> "added", peer |-> p] \in ListBlock
                      /\ [kind |-> "profile", peer |-> p] \in ListBlock
  /\ \A p \in Peers, S \in SUBSET Texts :
         [kind |-> "value", peer |-> p, found |-> S] \in ListBlock
  /\ [kind |-> "reload"] \in ListBlock
  BY DEF ListBlock

LEMMA ListBlockFields ==
  ASSUME NEW b \in ListBlock
  PROVE  /\ b.kind \in {"added", "profile", "value"} => b.peer \in Peers
         /\ b.kind = "value" => b.found \subseteq Texts
  BY DEF ListBlock

\* The head of the main queue, and what is left of it.
LEMMA MainHead ==
  ASSUME ListTypeOK, QueueFits, queue # <<>>
  PROVE  /\ Head(queue) \in ListBlock /\ Tail(queue) \in Seq(ListBlock)
         /\ FitsStep(Head(queue), progress, location, arrived)
         /\ \A i \in DOMAIN Tail(queue) :
                FitsStep(Tail(queue)[i], progress, location, arrived)
         /\ OneLookUp(Tail(queue))
<1>1. queue \in Seq(ListBlock)
  BY DEF ListTypeOK
<1>2. Head(queue) \in ListBlock /\ Tail(queue) \in Seq(ListBlock)
  BY <1>1, HeadTailProperties
<1>3. /\ OneLookUp(queue)
      /\ \A i \in DOMAIN queue : FitsStep(queue[i], progress, location, arrived)
  BY DEF QueueFits
<1>4. /\ \A i \in DOMAIN Tail(queue) : \E j \in DOMAIN queue : Tail(queue)[i] = queue[j]
      /\ \E j \in DOMAIN queue : Head(queue) = queue[j]
      /\ OneLookUp(queue) => OneLookUp(Tail(queue))
  BY <1>1, ListBlockGoes
<1>5. QED
  BY <1>2, <1>3, <1>4

\* A conversation comes a step nearer to the list, or is lost, while nothing
\* else changes but the queue, which keeps its reports and reloads.
LEMMA StepNearerKeeps ==
  ASSUME ListInvariant, NEW p \in Peers, NEW s \in Steps, Enter(p, s),
         progress[p] \notin {"none", "listed"}, s \notin {"none", "listed"},
         UNCHANGED <<entry, arrived, moved, location, conversations, lastMessage, items, rows>>,
         queue' \in Seq(ListBlock), OneLookUp(queue'),
         \A i \in DOMAIN queue' : FitsStep(queue'[i], progress', location, arrived),
         \A q, T : LastReport(queue, q, T) => LastReport(queue', q, T),
         \A q : Reports(queue, q) = {} => Reports(queue', q) = {},
         HasReload(queue) => HasReload(queue')
  PROVE  ListInvariant'
<1> USE DEF ListInvariant
<1>1. /\ progress' \in [Peers -> Steps] /\ progress'[p] = s
      /\ \A q \in Peers : q # p => progress'[q] = progress[q]
  BY DEF ListTypeOK, Enter
<1>2. ListTypeOK'
  BY <1>1 DEF ListTypeOK
<1>3. QueueFits'
  BY DEF QueueFits
<1>4. KeysAreBounded' /\ LastIsShown' /\ ItemsSorted'
  BY DEF KeysAreBounded, LastIsShown, ItemsSorted
<1>5. EntriesFollowed'
  BY <1>1 DEF EntriesFollowed
<1>6. ArrayIsListed'
  BY <1>1 DEF ArrayIsListed
<1>7. ReportsArePending'
  BY <1>1 DEF ReportsArePending
<1>8. ReloadPending'
  BY DEF ReloadPending
<1>9. QED
  BY <1>2, <1>3, <1>4, <1>5, <1>6, <1>7, <1>8

\* The blocks of a queue without a look-up of p fit when p's progress changes.
LEMMA OthersFit ==
  ASSUME ListTypeOK, NEW p \in Peers, NEW s \in Steps, Enter(p, s), progress[p] # "listed",
         NEW b \in ListBlock, FitsStep(b, progress, location, arrived),
         b.kind \in {"added", "profile"} => b.peer # p
  PROVE  FitsStep(b, progress', location, arrived)
<1>1. \A q \in Peers : q # p => progress'[q] = progress[q]
  BY DEF ListTypeOK, Enter
<1>2. QED
  BY <1>1, ListBlockFields DEF FitsStep

LEMMA AddedKeeps ==
  ASSUME ListInvariant, Added
  PROVE  ListInvariant'
<1>0. /\ ListTypeOK /\ QueueFits /\ queue # <<>> /\ Head(queue).kind = "added"
      /\ queue \in Seq(ListBlock) /\ OneLookUp(queue)
  BY DEF ListInvariant, Added, RunHead, ListTypeOK, QueueFits
<1>1. /\ Head(queue) \in ListBlock /\ Tail(queue) \in Seq(ListBlock)
      /\ FitsStep(Head(queue), progress, location, arrived)
      /\ \A i \in DOMAIN Tail(queue) : FitsStep(Tail(queue)[i], progress, location, arrived)
      /\ OneLookUp(Tail(queue))
  BY <1>0, MainHead
<1>2. PICK p \in Peers : p = Head(queue).peer
  BY <1>0, <1>1, ListBlockFields
<1>3. PICK b \in ListBlock : b = [kind |-> "profile", peer |-> p]
  BY ListBlockTypes
<1>4. PICK t \in Seq(ListBlock) : t = Tail(queue)
  BY <1>1
<1>5. /\ queue' = Append(t, b) /\ Enter(p, "profile") /\ progress[p] = "added"
      /\ UNCHANGED <<entry, arrived, moved, location, conversations, lastMessage, items, rows>>
  <2>1. queue' = Append(t, b) /\ Enter(p, "profile")
    BY <1>2, <1>3, <1>4 DEF Added
  <2>2. progress[p] = "added"
    BY <1>0, <1>1, <1>2 DEF FitsStep
  <2>3. QED
    BY <2>1, <2>2 DEF Added
<1>6. NoLookUp(t, p) /\ OneLookUp(t)
  BY <1>0, <1>1, <1>2, <1>4, ListBlockGoes
<1>7. b.kind = "profile" /\ b.peer = p
  BY <1>3
<1>8. /\ queue' \in Seq(ListBlock) /\ OneLookUp(queue')
      /\ \A i \in DOMAIN queue' : queue'[i] = b \/ \E j \in DOMAIN t : queue'[i] = t[j]
  <2>1. queue' \in Seq(ListBlock)
    BY <1>4, <1>5, AppendProperties
  <2>2. OneLookUp(queue')
    BY <1>5, <1>6, <1>7, ListBlockComes
  <2>3. \A i \in DOMAIN queue' : queue'[i] = b \/ \E j \in DOMAIN t : queue'[i] = t[j]
    BY <1>5, ListBlockComes
  <2>4. QED
    BY <2>1, <2>2, <2>3
<1>9. ASSUME NEW i \in DOMAIN queue' PROVE FitsStep(queue'[i], progress', location, arrived)
  <2>1. CASE queue'[i] = b
    <3>1. progress'[p] = "profile"
      BY <1>0, <1>5 DEF ListTypeOK, Enter, Steps
    <3>2. QED
      BY <1>7, <2>1, <3>1 DEF FitsStep
  <2>2. ASSUME NEW j \in DOMAIN t, queue'[i] = t[j]
        PROVE  FitsStep(queue'[i], progress', location, arrived)
    <3>1. t[j] \in ListBlock /\ FitsStep(t[j], progress, location, arrived)
      BY <1>1, <1>4, ElementOfSeq, LenProperties
    <3>2. t[j].kind \in {"added", "profile"} => t[j].peer # p
      BY <1>6 DEF NoLookUp
    <3>3. FitsStep(t[j], progress', location, arrived)
      BY <1>0, <1>5, <3>1, <3>2, OthersFit DEF Steps
    <3>4. QED
      BY <2>2, <3>3
  <2>3. QED
    BY <1>8, <2>1, <2>2
<1>10. \A q, T : LastReport(queue, q, T) => LastReport(t, q, T)
  BY <1>0, <1>4, ListBlockGoes
<1>11. \A q, T : LastReport(t, q, T) => LastReport(queue', q, T)
  BY <1>5, <1>7, ListBlockComes
<1>12. \A q : Reports(queue, q) = {} => Reports(t, q) = {}
  BY <1>0, <1>4, ListBlockGoes
<1>13. \A q : Reports(t, q) = {} => Reports(queue', q) = {}
  BY <1>5, <1>7, ListBlockComes
<1>14. HasReload(queue) => HasReload(t)
  BY <1>0, <1>4, ListBlockGoes
<1>15. HasReload(t) => HasReload(queue')
  BY <1>5, ListBlockComes
<1>16. QED
  BY <1>5, <1>8, <1>9, <1>10, <1>11, <1>12, <1>13, <1>14, <1>15, StepNearerKeeps DEF Steps

LEMMA ProfileReadKeeps ==
  ASSUME ListInvariant, ProfileRead
  PROVE  ListInvariant'
<1>0. /\ ListTypeOK /\ QueueFits /\ queue # <<>> /\ Head(queue).kind = "profile"
      /\ queue \in Seq(ListBlock) /\ OneLookUp(queue)
  BY DEF ListInvariant, ProfileRead, RunHead, ListTypeOK, QueueFits
<1>1. /\ Head(queue) \in ListBlock /\ Tail(queue) \in Seq(ListBlock)
      /\ FitsStep(Head(queue), progress, location, arrived)
      /\ \A i \in DOMAIN Tail(queue) : FitsStep(Tail(queue)[i], progress, location, arrived)
      /\ OneLookUp(Tail(queue))
  BY <1>0, MainHead
<1>2. PICK p \in Peers : p = Head(queue).peer
  BY <1>0, <1>1, ListBlockFields
<1>3. PICK s \in {"picture", "lost"} : Enter(p, s)
  BY <1>2 DEF ProfileRead
<1>4. /\ queue' = Tail(queue)
      /\ UNCHANGED <<entry, arrived, moved, location, conversations, lastMessage, items, rows>>
  BY DEF ProfileRead
<1>5. s \in Steps /\ s \notin {"none", "listed"}
  BY DEF Steps
<1>6. progress[p] = "profile"
  BY <1>0, <1>1, <1>2 DEF FitsStep
<1>7. NoLookUp(queue', p) /\ OneLookUp(queue') /\ queue' \in Seq(ListBlock)
  BY <1>0, <1>1, <1>2, <1>4, ListBlockGoes
<1>8. ASSUME NEW i \in DOMAIN queue' PROVE FitsStep(queue'[i], progress', location, arrived)
  <2>1. queue'[i] \in ListBlock /\ FitsStep(queue'[i], progress, location, arrived)
    BY <1>1, <1>4, ElementOfSeq, LenProperties
  <2>2. queue'[i].kind \in {"added", "profile"} => queue'[i].peer # p
    BY <1>7 DEF NoLookUp
  <2>3. QED
    BY <1>0, <1>3, <1>5, <1>6, <2>1, <2>2, OthersFit
<1>9. \A q, T : LastReport(queue, q, T) => LastReport(queue', q, T)
  BY <1>0, <1>4, ListBlockGoes
<1>10. \A q : Reports(queue, q) = {} => Reports(queue', q) = {}
  BY <1>0, <1>4, ListBlockGoes
<1>11. HasReload(queue) => HasReload(queue')
  BY <1>0, <1>4, ListBlockGoes
<1>12. QED
  BY <1>3, <1>4, <1>5, <1>6, <1>7, <1>8, <1>9, <1>10, <1>11, StepNearerKeeps

LEMMA PictureLostKeeps ==
  ASSUME ListInvariant, NEW p \in Peers, PictureLost(p)
  PROVE  ListInvariant'
<1>0. /\ ListTypeOK /\ QueueFits /\ queue \in Seq(ListBlock) /\ OneLookUp(queue)
      /\ progress[p] = "picture" /\ Enter(p, "lost") /\ queue' = queue
      /\ UNCHANGED <<entry, arrived, moved, location, conversations, lastMessage, items, rows>>
  BY DEF ListInvariant, PictureLost, ListTypeOK, QueueFits
<1>1. ASSUME NEW i \in DOMAIN queue' PROVE FitsStep(queue'[i], progress', location, arrived)
  <2>1. queue'[i] \in ListBlock /\ FitsStep(queue'[i], progress, location, arrived)
    BY <1>0, ElementOfSeq, LenProperties DEF QueueFits
  <2>2. queue'[i].kind \in {"added", "profile"} => queue'[i].peer # p
    BY <1>0, <2>1 DEF FitsStep
  <2>3. QED
    BY <1>0, <2>1, <2>2, OthersFit DEF Steps
<1>2. QED
  BY <1>0, <1>1, StepNearerKeeps DEF Steps


LEMMA AddEntryKeeps ==
  ASSUME ListInvariant, NEW n \in Nodes, AddEntry(n)
  PROVE  ListInvariant'
<1> USE DEF ListInvariant
<1>0. PICK p \in Peers : p = PeerOf[n]
  BY ConversationListAssumption
<1>1. PICK b \in ListBlock : b = [kind |-> "added", peer |-> p]
  BY ListBlockTypes
<1>2. /\ ListTypeOK /\ queue \in Seq(ListBlock) /\ OneLookUp(queue)
      /\ entry[p] = NoNode /\ progress[p] = "none" /\ n # NoNode
  BY <1>0, ConversationListAssumption DEF AddEntry, ListTypeOK, QueueFits, EntriesFollowed
<1>3. /\ Enter(p, "added") /\ queue' = Append(queue, b)
      /\ UNCHANGED <<arrived, moved, conversations, lastMessage, items, rows>>
  BY <1>0, <1>1 DEF AddEntry
<1>4. /\ entry' \in [Peers -> Nodes \union {NoNode}] /\ entry'[p] = n
      /\ \A q \in Peers : q # p => entry'[q] = entry[q]
  BY <1>0, <1>2 DEF AddEntry, ListTypeOK
<1>5. /\ location' \in [Peers -> Nodes \union {NoNode}] /\ location'[p] = n
      /\ \A q \in Peers : q # p => location'[q] = location[q]
  BY <1>0, <1>2 DEF AddEntry, ListTypeOK
<1>6. /\ progress' \in [Peers -> Steps] /\ progress'[p] = "added"
      /\ \A q \in Peers : q # p => progress'[q] = progress[q]
  BY <1>2, <1>3 DEF Enter, ListTypeOK, Steps
<1>7. \A i \in DOMAIN queue :
          /\ queue[i] \in ListBlock /\ FitsStep(queue[i], progress, location, arrived)
          /\ queue[i].kind \in {"added", "profile", "value"} => queue[i].peer # p
  <2>1. \A i \in DOMAIN queue :
            queue[i] \in ListBlock /\ FitsStep(queue[i], progress, location, arrived)
    BY <1>2, ElementOfSeq, LenProperties DEF QueueFits
  <2>2. QED
    BY <1>2, <2>1 DEF FitsStep
<1>8. NoLookUp(queue, p) /\ b.kind = "added" /\ b.peer = p
  BY <1>1, <1>7 DEF NoLookUp
<1>9. queue' \in Seq(ListBlock)
  BY <1>2, <1>3, AppendProperties
<1>10. ListTypeOK'
  BY <1>3, <1>4, <1>5, <1>6, <1>9 DEF ListTypeOK
<1>11. QueueFits'
  <2>1. OneLookUp(queue')
    BY <1>2, <1>3, <1>8, ListBlockComes
  <2>2. \A i \in DOMAIN queue' : queue'[i] = b \/ \E j \in DOMAIN queue : queue'[i] = queue[j]
    BY <1>2, <1>3, ListBlockComes
  <2>3. FitsStep(b, progress', location', arrived')
    BY <1>6, <1>8 DEF FitsStep
  <2>4. ASSUME NEW j \in DOMAIN queue PROVE FitsStep(queue[j], progress', location', arrived')
    BY <1>3, <1>5, <1>6, <1>7, ListBlockFields DEF FitsStep
  <2>5. QED
    BY <2>1, <2>2, <2>3, <2>4 DEF QueueFits
<1>12. KeysAreBounded'
  BY <1>3 DEF KeysAreBounded
<1>13. EntriesFollowed'
  <2>1. ASSUME NEW q \in Peers, q # p
        PROVE  /\ progress'[q] = "none" <=> entry'[q] = NoNode
               /\ progress'[q] # "none" => location'[q] \in Nodes /\ PeerOf[location'[q]] = q
               /\ progress'[q] # "none" /\ q \notin moved' => location'[q] = entry'[q]
    BY <1>3, <1>4, <1>5, <1>6, <2>1 DEF EntriesFollowed
  <2>2. QED
    BY <1>0, <1>2, <1>4, <1>5, <1>6, <2>1 DEF EntriesFollowed
<1>14. ArrayIsListed'
  BY <1>2, <1>3, <1>6 DEF ArrayIsListed
<1>15. LastIsShown'
  <2>1. lastMessage[p] = 0
    <3>1. \A i \in DOMAIN items : items[i] # p
      <4>1. \A i \in DOMAIN conversations : conversations[i] # p
        BY <1>2 DEF ArrayIsListed
      <4>2. QED
        BY <1>2, <4>1 DEF ListTypeOK, ToSet
    <3>2. QED
      BY <3>1 DEF LastIsShown
  <2>2. QED
    BY <1>3, <1>5, <2>1 DEF LastIsShown
<1>16. ReportsArePending'
  <2>1. \A q, T : LastReport(queue, q, T) => LastReport(queue', q, T)
    BY <1>2, <1>3, <1>8, ListBlockComes
  <2>2. \A q : Reports(queue, q) = {} => Reports(queue', q) = {}
    BY <1>2, <1>3, <1>8, ListBlockComes
  <2>3. QED
    BY <1>3, <1>5, <1>6, <2>1, <2>2 DEF ReportsArePending
<1>17. ItemsSorted'
  BY <1>3 DEF ItemsSorted
<1>18. ReloadPending'
  <2>1. HasReload(queue) => HasReload(queue')
    BY <1>2, <1>3, ListBlockComes
  <2>2. QED
    BY <1>3, <2>1 DEF ReloadPending
<1>19. QED
  BY <1>10, <1>11, <1>12, <1>13, <1>14, <1>15, <1>16, <1>17, <1>18

LEMMA MoveEntryKeeps ==
  ASSUME ListInvariant, NEW n \in Nodes, MoveEntry(n)
  PROVE  ListInvariant'
<1> USE DEF ListInvariant
<1>0. PICK p \in Peers : p = PeerOf[n]
  BY ConversationListAssumption
<1>1. /\ UNCHANGED <<arrived, progress, location, conversations, lastMessage, items, rows, queue>>
      /\ moved' = moved \union {p} /\ entry[p] # NoNode /\ n # NoNode
  BY <1>0, ConversationListAssumption DEF MoveEntry
<1>2. /\ entry' \in [Peers -> Nodes \union {NoNode}] /\ entry'[p] = n
      /\ \A q \in Peers : q # p => entry'[q] = entry[q]
  BY <1>0 DEF MoveEntry, ListTypeOK
<1>3. ListTypeOK'
  BY <1>1, <1>2 DEF ListTypeOK
<1>4. EntriesFollowed'
  BY <1>1, <1>2 DEF EntriesFollowed
<1>5. QueueFits' /\ KeysAreBounded' /\ ArrayIsListed' /\ LastIsShown' /\ ReportsArePending'
      /\ ItemsSorted' /\ ReloadPending'
  BY <1>1 DEF QueueFits, KeysAreBounded, ArrayIsListed, LastIsShown, ReportsArePending,
              ItemsSorted, ReloadPending
<1>6. QED
  BY <1>3, <1>4, <1>5

LEMMA ReloadListKeeps ==
  ASSUME ListInvariant, ReloadList
  PROVE  ListInvariant'
<1> USE DEF ListInvariant
<1>0. /\ ListTypeOK /\ QueueFits /\ queue # <<>> /\ Head(queue).kind = "reload"
      /\ queue \in Seq(ListBlock) /\ queue' = Tail(queue)
      /\ UNCHANGED <<entry, arrived, moved, progress, location, conversations, lastMessage, items>>
  BY DEF ReloadList, RunHead, ListTypeOK
<1>1. rows' = [i \in DOMAIN items |-> [peer |-> items[i], last |-> lastMessage[items[i]]]]
  BY DEF ReloadList
<1>2. /\ queue' \in Seq(ListBlock) /\ OneLookUp(queue')
      /\ \A i \in DOMAIN queue' : FitsStep(queue'[i], progress, location, arrived)
  BY <1>0, MainHead
<1>3. rows' \in Seq(Row)
  <2>1. /\ items \in Seq(Peers) /\ DOMAIN items = 1..Len(items) /\ Len(items) \in Nat
        /\ \A i \in DOMAIN items : items[i] \in Peers
    BY <1>0, LenProperties, ElementOfSeq DEF ListTypeOK
  <2>2. \A i \in DOMAIN items : lastMessage[items[i]] \in Texts \union {0}
    BY <1>0, <2>1 DEF ListTypeOK
  <2>3. rows' \in [1..Len(items) -> Row]
    BY <1>1, <2>1, <2>2 DEF Row
  <2>4. QED
    BY <2>1, <2>3, SeqDef
<1>4. ListTypeOK'
  BY <1>0, <1>2, <1>3 DEF ListTypeOK
<1>5. QueueFits'
  BY <1>0, <1>2 DEF QueueFits
<1>6. KeysAreBounded' /\ EntriesFollowed' /\ ArrayIsListed' /\ LastIsShown' /\ ItemsSorted'
  BY <1>0 DEF KeysAreBounded, EntriesFollowed, ArrayIsListed, LastIsShown, ItemsSorted
<1>7. ReportsArePending'
  <2>1. \A q, T : LastReport(queue, q, T) => LastReport(queue', q, T)
    BY <1>0, ListBlockGoes
  <2>2. \A q : Reports(queue, q) = {} => Reports(queue', q) = {}
    BY <1>0, ListBlockGoes
  <2>3. QED
    BY <1>0, <2>1, <2>2 DEF ReportsArePending
<1>8. ReloadPending'
  BY <1>0, <1>1 DEF ReloadPending
<1>9. QED
  BY <1>4, <1>5, <1>6, <1>7, <1>8


\* A non-empty set of numbers with a bound has a greatest one.
LEMMA GreatestKey ==
  ASSUME NEW b \in Nat, NEW S, S \subseteq 0..b, S # {}
  PROVE  LastOf(S) \in S /\ \A k \in S : k <= LastOf(S)
<1> DEFINE Less == {ss \in Nat \X Nat : ss[1] < ss[2]}
           T == {b - i : i \in S}
<1>1. IsWellFoundedOn(Less, Nat)
  BY NatLessThanWellFounded DEF OpToRel
<1>2. T \subseteq Nat /\ T # {}
  <2>1. \A i \in S : b - i \in Nat
    OBVIOUS
  <2>2. PICK i \in S : TRUE
    OBVIOUS
  <2>3. b - i \in T
    OBVIOUS
  <2>4. QED
    BY <2>1, <2>3
<1>3. PICK x \in T : \A y \in T : ~(<<y, x>> \in Less)
  BY <1>1, <1>2, WFMin
<1>4. \A y \in T : ~(y < x)
  BY <1>2, <1>3
<1>5. PICK i \in S : x = b - i
  OBVIOUS
<1>6. \A j \in S : j <= i
  <2> SUFFICES ASSUME NEW j \in S PROVE j <= i
    OBVIOUS
  <2>1. b - j \in T
    OBVIOUS
  <2>2. ~(b - j < b - i)
    BY <1>4, <1>5, <2>1
  <2>3. i \in Nat /\ j \in Nat
    OBVIOUS
  <2>4. QED
    BY <2>2, <2>3
<1>7. QED
  BY <1>6 DEF LastOf

\* The last message of messages that arrived is one of them.
LEMMA LastIsOne ==
  ASSUME ListTypeOK, KeysAreBounded, NEW S, S \subseteq arrived, S # {}
  PROVE  LastOf(S) \in S
<1>1. PICK b \in Nat : \A m \in arrived : m <= b
  BY DEF KeysAreBounded
<1>2. S \subseteq 0..b
  BY <1>1, ConversationListAssumption DEF ListTypeOK
<1>3. QED
  BY <1>2, GreatestKey

LEMMA ArriveInListKeeps ==
  ASSUME ListInvariant, NEW m \in Texts, Arrive(m)
  PROVE  ListInvariant'
<1> USE DEF ListInvariant
<1>0. PICK p \in Peers : p = PeerOf[NodeOf[m]]
  BY ConversationListAssumption
<1>1. /\ ListTypeOK /\ queue \in Seq(ListBlock) /\ OneLookUp(queue)
      /\ UNCHANGED <<entry, moved, progress, location, conversations, lastMessage, items, rows>>
      /\ arrived' = arrived \union {m} /\ arrived' \subseteq Texts /\ arrived \subseteq Texts
  BY DEF Arrive, ListTypeOK, QueueFits
<1>2. \A n : /\ In(n, arrived) \subseteq In(n, arrived')
             /\ n # NodeOf[m] => In(n, arrived') = In(n, arrived)
  BY <1>1 DEF In
<1>3. \A q \in Peers : progress[q] = "listed" /\ location[q] = NodeOf[m] => q = p
  BY <1>0 DEF EntriesFollowed
<1>4. \A i \in DOMAIN queue :
          /\ queue[i] \in ListBlock /\ FitsStep(queue[i], progress, location, arrived)
          /\ FitsStep(queue[i], progress', location', arrived')
  <2>1. \A i \in DOMAIN queue :
            queue[i] \in ListBlock /\ FitsStep(queue[i], progress, location, arrived)
    BY <1>1, ElementOfSeq, LenProperties DEF QueueFits
  <2>2. QED
    BY <1>1, <1>2, <2>1 DEF FitsStep
<1>5. KeysAreBounded'
  <2>1. PICK b \in Nat : \A k \in arrived : k <= b
    BY DEF KeysAreBounded
  <2>2. m \in Nat
    BY ConversationListAssumption
  <2>3. PICK c \in Nat : c = IF m <= b THEN b ELSE m
    BY <2>1, <2>2
  <2>4. \A k \in arrived : k \in Nat
    BY <1>1, ConversationListAssumption
  <2>5. \A k \in arrived' : k <= c
    BY <1>1, <2>1, <2>2, <2>3, <2>4
  <2>6. QED
    BY <2>5 DEF KeysAreBounded
<1>6. EntriesFollowed' /\ ArrayIsListed' /\ ItemsSorted'
  BY <1>1 DEF EntriesFollowed, ArrayIsListed, ItemsSorted
<1>7. LastIsShown'
  BY <1>1, <1>2 DEF LastIsShown
<1>8. CASE progress[p] = "listed" /\ location[p] = NodeOf[m]
  <2>1. PICK b \in ListBlock : b = Value(p, arrived')
    <3>1. In(location[p], arrived') \in SUBSET Texts
      BY <1>1 DEF In
    <3>2. QED
      BY <3>1, ListBlockTypes DEF Value
  <2>2. b.kind = "value" /\ b.peer = p /\ b.found = In(location[p], arrived')
    BY <2>1 DEF Value
  <2>3. queue' = Append(queue, b)
    BY <1>0, <1>8, <2>1 DEF Arrive
  <2>4. queue' \in Seq(ListBlock)
    BY <1>1, <2>3, AppendProperties
  <2>5. ListTypeOK'
    BY <1>1, <2>4 DEF ListTypeOK
  <2>6. OneLookUp(queue')
    BY <1>1, <2>2, <2>3, ListBlockComes
  <2>7. \A i \in DOMAIN queue' : queue'[i] = b \/ \E j \in DOMAIN queue : queue'[i] = queue[j]
    BY <1>1, <2>3, ListBlockComes
  <2>8. FitsStep(b, progress', location', arrived')
    BY <1>1, <1>8, <2>2 DEF FitsStep
  <2>9. QueueFits'
    BY <1>4, <2>6, <2>7, <2>8 DEF QueueFits
  <2>10. LastReport(queue', p, In(location[p], arrived'))
    BY <1>1, <2>2, <2>3, ListBlockComes
  <2>11. \A q, T : q # p /\ LastReport(queue, q, T) => LastReport(queue', q, T)
    BY <1>1, <2>2, <2>3, ListBlockComes
  <2>12. \A q : q # p /\ Reports(queue, q) = {} => Reports(queue', q) = {}
    BY <1>1, <2>2, <2>3, ListBlockComes
  <2>13. ReportsArePending'
    BY <1>1, <1>2, <1>3, <2>10, <2>11, <2>12 DEF ReportsArePending
  <2>14. HasReload(queue) => HasReload(queue')
    BY <1>1, <2>3, ListBlockComes
  <2>15. ReloadPending'
    BY <1>1, <2>14 DEF ReloadPending
  <2>16. QED
    BY <1>5, <1>6, <1>7, <2>5, <2>9, <2>13, <2>15
<1>9. CASE ~(progress[p] = "listed" /\ location[p] = NodeOf[m])
  <2>1. queue' = queue
    BY <1>0, <1>9 DEF Arrive
  <2>2. ListTypeOK'
    BY <1>1, <2>1 DEF ListTypeOK
  <2>3. QueueFits'
    BY <1>1, <1>4, <2>1 DEF QueueFits
  <2>4. \A q \in Peers : progress[q] = "listed" => In(location[q], arrived') = In(location[q], arrived)
    BY <1>2, <1>3, <1>9
  <2>5. ReportsArePending'
    BY <1>1, <2>1, <2>4 DEF ReportsArePending
  <2>6. ReloadPending'
    BY <1>1, <2>1 DEF ReloadPending
  <2>7. QED
    BY <1>5, <1>6, <1>7, <2>2, <2>3, <2>5, <2>6
<1>10. QED
  BY <1>8, <1>9

LEMMA PictureArrivedKeeps ==
  ASSUME ListInvariant, NEW p \in Peers, PictureArrived(p)
  PROVE  ListInvariant'
<1> USE DEF ListInvariant
<1>0. PICK S \in SUBSET Texts : S = In(location[p], arrived)
  BY DEF ListTypeOK, In
<1>1. PICK b \in ListBlock : b = [kind |-> "value", peer |-> p, found |-> S]
  BY ListBlockTypes
<1>2. b.kind = "value" /\ b.peer = p /\ b.found = S
  BY <1>1
<1>3. /\ ListTypeOK /\ queue \in Seq(ListBlock) /\ OneLookUp(queue)
      /\ progress[p] = "picture" /\ Enter(p, "listed")
      /\ conversations' = Append(conversations, p) /\ conversations \in Seq(Peers)
      /\ UNCHANGED <<entry, arrived, moved, location, lastMessage, items, rows>>
  BY DEF PictureArrived, ListTypeOK, QueueFits
<1>4. queue' = IF S = {} THEN queue ELSE Append(queue, b)
  BY <1>0, <1>1 DEF PictureArrived, Value
<1>5. /\ progress' \in [Peers -> Steps] /\ progress'[p] = "listed"
      /\ \A q \in Peers : q # p => progress'[q] = progress[q]
  BY <1>3 DEF Enter, ListTypeOK, Steps
<1>6. \A i \in DOMAIN queue :
          /\ queue[i] \in ListBlock /\ FitsStep(queue[i], progress, location, arrived)
          /\ queue[i].kind \in {"added", "profile", "value"} => queue[i].peer # p
  <2>1. \A i \in DOMAIN queue :
            queue[i] \in ListBlock /\ FitsStep(queue[i], progress, location, arrived)
    BY <1>3, ElementOfSeq, LenProperties DEF QueueFits
  <2>2. QED
    BY <1>3, <2>1 DEF FitsStep
<1>7. ASSUME NEW i \in DOMAIN queue PROVE FitsStep(queue[i], progress', location', arrived')
  BY <1>3, <1>5, <1>6, ListBlockFields DEF FitsStep
<1>8. Reports(queue, p) = {}
  BY <1>6 DEF Reports
<1>9. /\ conversations' \in Seq(Peers)
      /\ \A i \in DOMAIN conversations : /\ i \in DOMAIN conversations'
                                         /\ conversations'[i] = conversations[i]
      /\ \E i \in DOMAIN conversations' : conversations'[i] = p
      /\ \A i \in DOMAIN conversations' :
             \/ i \in DOMAIN conversations /\ conversations'[i] = conversations[i]
             \/ conversations'[i] = p /\ i = Len(conversations) + 1
  <2>0. PICK c : c = conversations'
    OBVIOUS
  <2>1. PICK n \in Nat : n = Len(conversations)
    BY <1>3, LenProperties
  <2>2. /\ DOMAIN conversations = 1..n /\ c \in Seq(Peers) /\ DOMAIN c = 1..(n + 1)
        /\ c[n + 1] = p /\ \A i \in 1..n : c[i] = conversations[i]
    BY <1>3, <2>0, <2>1, LenProperties, AppendProperties
  <2>3. QED
    BY <2>0, <2>1, <2>2
<1>10. \A i \in DOMAIN conversations : conversations[i] # p
  BY <1>3 DEF ArrayIsListed
<1>11. IsInjective(conversations') /\ ToSet(items') \subseteq ToSet(conversations')
  <2>1. IsInjective(conversations')
    BY <1>3, <1>9, <1>10 DEF ListTypeOK, IsInjective
  <2>2. ToSet(items) \subseteq ToSet(conversations)
    BY <1>3 DEF ListTypeOK
  <2>3. \A i \in DOMAIN items : \E j \in DOMAIN conversations : items[i] = conversations[j]
    BY <2>2 DEF ToSet
  <2>4. \A i \in DOMAIN items : \E j \in DOMAIN conversations' : items[i] = conversations'[j]
    BY <1>9, <2>3
  <2>5. items' = items
    BY <1>3
  <2>6. QED
    BY <2>1, <2>4, <2>5 DEF ToSet
<1>12. /\ queue' \in Seq(ListBlock) /\ OneLookUp(queue')
       /\ \A i \in DOMAIN queue' : queue'[i] = b \/ \E j \in DOMAIN queue : queue'[i] = queue[j]
  <2>1. CASE S = {}
    BY <1>3, <1>4, <2>1
  <2>2. CASE S # {}
    <3>1. queue' \in Seq(ListBlock)
      BY <1>3, <1>4, <2>2, AppendProperties
    <3>2. OneLookUp(queue')
      BY <1>2, <1>3, <1>4, <2>2, ListBlockComes
    <3>3. \A i \in DOMAIN queue' : queue'[i] = b \/ \E j \in DOMAIN queue : queue'[i] = queue[j]
      BY <1>3, <1>4, <2>2, ListBlockComes
    <3>4. QED
      BY <3>1, <3>2, <3>3
  <2>3. QED
    BY <2>1, <2>2
<1>13. ListTypeOK'
  BY <1>3, <1>5, <1>9, <1>11, <1>12 DEF ListTypeOK
<1>14. QueueFits'
  <2>1. FitsStep(b, progress', location', arrived')
    BY <1>0, <1>2, <1>3, <1>5 DEF FitsStep
  <2>2. QED
    BY <1>7, <1>12, <2>1 DEF QueueFits
<1>15. KeysAreBounded' /\ LastIsShown' /\ ItemsSorted'
  BY <1>3 DEF KeysAreBounded, LastIsShown, ItemsSorted
<1>16. EntriesFollowed'
  <2>1. progress[p] # "none"
    BY <1>3
  <2>2. QED
    BY <1>3, <1>5, <2>1 DEF EntriesFollowed
<1>17. ArrayIsListed'
  BY <1>5, <1>9, <1>10 DEF ArrayIsListed
<1>18. ReportsArePending'
  <2>1. ASSUME NEW q \in Peers, q # p
        PROVE  /\ \A T : LastReport(queue, q, T) => LastReport(queue', q, T)
               /\ Reports(queue, q) = {} => Reports(queue', q) = {}
    <3>1. CASE S = {}
      BY <1>4, <3>1
    <3>2. CASE S # {}
      <4>1. queue' = Append(queue, b)
        BY <1>4, <3>2
      <4>2. \A T : LastReport(queue, q, T) => LastReport(queue', q, T)
        BY <1>2, <1>3, <2>1, <4>1, ListBlockComes
      <4>3. Reports(queue, q) = {} => Reports(queue', q) = {}
        BY <1>2, <1>3, <2>1, <4>1, ListBlockComes
      <4>4. QED
        BY <4>2, <4>3
    <3>3. QED
      BY <3>1, <3>2
  <2>2. \/ LastReport(queue', p, S)
        \/ Reports(queue', p) = {} /\ RightLast(lastMessage[p], S)
    <3>1. CASE S = {}
      <4>1. lastMessage[p] = 0
        <5>1. \A i \in DOMAIN items : items[i] # p
          BY <1>3, <1>10 DEF ListTypeOK, ToSet
        <5>2. QED
          BY <5>1 DEF LastIsShown
      <4>2. Parsed(S) = {}
        BY <3>1 DEF Parsed
      <4>3. QED
        BY <1>4, <1>8, <3>1, <4>1, <4>2 DEF RightLast
    <3>2. CASE S # {}
      <4>1. queue' = Append(queue, b)
        BY <1>4, <3>2
      <4>2. QED
        BY <1>2, <1>3, <4>1, ListBlockComes
    <3>3. QED
      BY <3>1, <3>2
  <2>3. QED
    BY <1>0, <1>3, <1>5, <2>1, <2>2 DEF ReportsArePending
<1>19. ReloadPending'
  <2>1. HasReload(queue) => HasReload(queue')
    <3>1. CASE S = {}
      BY <1>4, <3>1
    <3>2. CASE S # {}
      <4>1. queue' = Append(queue, b)
        BY <1>4, <3>2
      <4>2. QED
        BY <1>3, <4>1, ListBlockComes
    <3>3. QED
      BY <3>1, <3>2
  <2>2. QED
    BY <1>3, <2>1 DEF ReloadPending
<1>20. QED
  BY <1>13, <1>14, <1>15, <1>16, <1>17, <1>18, <1>19


\* A sequence of SetToSeqs has every element of the set.
LEMMA EveryPeer ==
  ASSUME NEW S, IsFiniteSet(S), NEW s \in SetToSeqs(S)
  PROVE  /\ s \in Seq(S)
         /\ \A x \in S : \E i \in DOMAIN s : s[i] = x
<1>1. Cardinality(S) \in Nat
  BY FS_CardinalityType
<1>2. PICK D : D = 1..Cardinality(S)
  OBVIOUS
<1>3. s \in [D -> S] /\ \A i, j \in D : i # j => s[i] # s[j]
  BY <1>2 DEF SetToSeqs
<1>4. s \in Seq(S)
  BY <1>1, <1>2, <1>3, SeqDef
<1>5. ASSUME NEW x \in S, \A i \in D : s[i] # x PROVE FALSE
  <2>1. PICK T : T = S \ {x}
    OBVIOUS
  <2>2. IsFiniteSet(T) /\ Cardinality(T) = Cardinality(S) - 1
    BY <2>1, FS_RemoveElement
  <2>3. IsFiniteSet(D) /\ Cardinality(D) = IF 1 > Cardinality(S) THEN 0 ELSE Cardinality(S) - 1 + 1
    BY <1>1, <1>2, FS_Interval
  <2>4. Cardinality(S) # 0
    BY <1>5, FS_EmptySet
  <2>5. Cardinality(T) < Cardinality(D)
    BY <1>1, <2>2, <2>3, <2>4
  <2>6. s \in [D -> T]
    BY <1>3, <1>5, <2>1
  <2>7. \E i, j \in D : i # j /\ s[i] = s[j]
    BY <2>2, <2>3, <2>5, <2>6, FS_PigeonHole
  <2>8. QED
    BY <1>3, <2>7
<1>6. QED
  BY <1>3, <1>4, <1>5

\* The peers of a sequence are finitely many.
LEMMA ArrayIsFinite ==
  ASSUME NEW c \in Seq(Peers)
  PROVE  IsFiniteSet(ToSet(c))
<1>1. PICK n \in Nat : n = Len(c)
  BY LenProperties
<1>2. DOMAIN c = 1..n /\ c \in [1..n -> Peers]
  BY <1>1, LenProperties
<1>3. IsFiniteSet(1..n)
  BY <1>1, FS_Interval
<1>4. c \in Surjection(1..n, ToSet(c))
  BY <1>2 DEF Surjection, ToSet
<1>5. QED
  BY <1>3, <1>4, FS_Surjection

\* What a report does to the conversation's last message.
LEMMA ReportIsRight ==
  ASSUME NEW S, S \subseteq Texts, NEW m, NEW mm,
         m # 0 => m \in S \ Malformed,
         mm = IF Parsed(S) = {} THEN m ELSE LastOf(Parsed(S))
  PROVE  RightLast(mm, S)
<1>1. CASE Parsed(S) # {}
  BY <1>1 DEF RightLast
<1>2. CASE Parsed(S) = {}
  <2> SUFFICES ASSUME m # 0 PROVE \E k \in Malformed \cap S : k < m
    BY <1>2 DEF RightLast
  <2>1. m \in S /\ m \notin Malformed /\ m \notin Parsed(S)
    BY <1>2
  <2>2. PICK k \in S \cap Malformed : ~(m < k)
    BY <2>1 DEF Parsed
  <2>3. k \in Nat /\ m \in Nat /\ k # m
    BY <2>1, <2>2, ConversationListAssumption
  <2>4. QED
    BY <2>2, <2>3
<1>3. QED
  BY <1>1, <1>2

LEMMA ValueReportedKeeps ==
  ASSUME ListInvariant, ValueReported
  PROVE  ListInvariant'
<1> USE DEF ListInvariant
<1>0. /\ ListTypeOK /\ QueueFits /\ KeysAreBounded /\ queue # <<>> /\ Head(queue).kind = "value"
      /\ queue \in Seq(ListBlock) /\ OneLookUp(queue)
  BY DEF ValueReported, RunHead, ListTypeOK, QueueFits
<1>1. /\ Head(queue) \in ListBlock /\ Tail(queue) \in Seq(ListBlock)
      /\ FitsStep(Head(queue), progress, location, arrived)
      /\ \A i \in DOMAIN Tail(queue) : FitsStep(Tail(queue)[i], progress, location, arrived)
      /\ OneLookUp(Tail(queue))
  BY <1>0, MainHead
<1>2. PICK p \in Peers : p = Head(queue).peer
  BY <1>0, <1>1, ListBlockFields
<1>3. PICK S : S = Head(queue).found
  OBVIOUS
<1>4. PICK t \in Seq(ListBlock) : t = Tail(queue)
  BY <1>1
<1>5. PICK b \in ListBlock : b = [kind |-> "reload"]
  BY ListBlockTypes
<1>6. /\ progress[p] = "listed" /\ S \subseteq In(location[p], arrived) /\ S \subseteq Texts
      /\ S \subseteq arrived
  <2>1. progress[p] = "listed" /\ S \subseteq In(location[p], arrived)
    BY <1>0, <1>1, <1>2, <1>3 DEF FitsStep
  <2>2. arrived \subseteq Texts
    BY <1>0 DEF ListTypeOK
  <2>3. QED
    BY <2>1, <2>2 DEF In
<1>7. UNCHANGED <<entry, arrived, moved, progress, location, conversations, rows>>
  BY DEF ValueReported
<1>8. /\ Parsed(S) = {} => queue' = t /\ UNCHANGED <<lastMessage, items>>
      /\ Parsed(S) # {} => /\ lastMessage' = [lastMessage EXCEPT ![p] = LastOf(Parsed(S))]
                           /\ items' \in Sorted(lastMessage')
                           /\ queue' = Append(t, b)
  BY <1>2, <1>3, <1>4, <1>5 DEF ValueReported
<1>9. Parsed(S) # {} => LastOf(Parsed(S)) \in Parsed(S)
  BY <1>0, <1>6, LastIsOne DEF Parsed
<1>10. Parsed(S) \subseteq In(location[p], arrived) \ Malformed
  <2>1. \A m \in Parsed(S) : m \in Nat
    BY <1>6, ConversationListAssumption DEF Parsed
  <2>2. \A m \in Parsed(S) : m \notin Malformed
    BY <2>1 DEF Parsed
  <2>3. QED
    BY <1>6, <2>2 DEF Parsed
<1>11. /\ lastMessage' \in [Peers -> Texts \union {0}]
       /\ lastMessage'[p] = IF Parsed(S) = {} THEN lastMessage[p] ELSE LastOf(Parsed(S))
       /\ \A q \in Peers : q # p => lastMessage'[q] = lastMessage[q]
  <2>1. lastMessage \in [Peers -> Texts \union {0}]
    BY <1>0 DEF ListTypeOK
  <2>2. CASE Parsed(S) = {}
    BY <1>8, <2>1, <2>2
  <2>3. CASE Parsed(S) # {}
    <3>1. LastOf(Parsed(S)) \in Texts
      BY <1>6, <1>9, <2>3 DEF Parsed
    <3>2. lastMessage' = [lastMessage EXCEPT ![p] = LastOf(Parsed(S))]
      BY <1>8, <2>3
    <3>3. QED
      BY <2>1, <2>3, <3>1, <3>2
  <2>4. QED
    BY <2>2, <2>3
<1>12. ASSUME Parsed(S) # {}
       PROVE  /\ items' \in Seq(Peers) /\ ToSet(items') \subseteq ToSet(conversations)
              /\ \A q \in ToSet(conversations) : \E i \in DOMAIN items' : items'[i] = q
              /\ ItemsSorted'
  <2>1. items' \in Sorted(lastMessage')
    BY <1>8, <1>12
  <2>2. conversations \in Seq(Peers)
    BY <1>0 DEF ListTypeOK
  <2>3. PICK C : C = ToSet(conversations)
    OBVIOUS
  <2>4. IsFiniteSet(C) /\ C \subseteq Peers
    <3>1. \A i \in DOMAIN conversations : conversations[i] \in Peers
      BY <2>2, LenProperties, ElementOfSeq
    <3>2. QED
      BY <2>2, <2>3, <3>1, ArrayIsFinite DEF ToSet
  <2>5. /\ items' \in SetToSeqs(C)
        /\ \A i, j \in DOMAIN items' :
               i < j => Clock(lastMessage', items'[i]) >= Clock(lastMessage', items'[j])
    BY <2>1, <2>3 DEF Sorted
  <2>6. items' \in Seq(C) /\ \A q \in C : \E i \in DOMAIN items' : items'[i] = q
    BY <2>4, <2>5, EveryPeer
  <2>7. items' \in Seq(Peers)
    BY <2>4, <2>6, SeqSubset
  <2>8. \A i \in DOMAIN items' : items'[i] \in C
    BY <2>6, LenProperties, ElementOfSeq
  <2>9. ToSet(items') \subseteq C
    BY <2>8 DEF ToSet
  <2>10. ItemsSorted'
    BY <2>5 DEF ItemsSorted
  <2>11. QED
    BY <2>3, <2>6, <2>7, <2>9, <2>10
<1>13. /\ items' \in Seq(Peers) /\ ToSet(items') \subseteq ToSet(conversations) /\ ItemsSorted'
  <2>1. CASE Parsed(S) = {}
    BY <1>0, <1>8, <2>1 DEF ListTypeOK, ItemsSorted
  <2>2. CASE Parsed(S) # {}
    BY <1>12, <2>2
  <2>3. QED
    BY <2>1, <2>2
<1>14. /\ queue' \in Seq(ListBlock) /\ OneLookUp(queue')
       /\ \A i \in DOMAIN queue' : queue'[i] = b \/ \E j \in DOMAIN t : queue'[i] = t[j]
  <2>1. OneLookUp(t)
    BY <1>1, <1>4
  <2>2. CASE Parsed(S) = {}
    BY <1>4, <1>8, <2>1, <2>2
  <2>3. CASE Parsed(S) # {}
    <3>1. queue' = Append(t, b)
      BY <1>8, <2>3
    <3>2. queue' \in Seq(ListBlock)
      BY <3>1, AppendProperties
    <3>3. OneLookUp(queue')
      BY <1>5, <2>1, <3>1, ListBlockComes
    <3>4. \A i \in DOMAIN queue' : queue'[i] = b \/ \E j \in DOMAIN t : queue'[i] = t[j]
      BY <3>1, ListBlockComes
    <3>5. QED
      BY <3>2, <3>3, <3>4
  <2>4. QED
    BY <2>2, <2>3
<1>15. ListTypeOK'
  BY <1>0, <1>7, <1>11, <1>13, <1>14 DEF ListTypeOK
<1>16. QueueFits'
  <2>1. FitsStep(b, progress', location', arrived')
    BY <1>5 DEF FitsStep
  <2>2. \A j \in DOMAIN t : FitsStep(t[j], progress', location', arrived')
    BY <1>1, <1>4, <1>7
  <2>3. QED
    BY <1>14, <2>1, <2>2 DEF QueueFits
<1>17. KeysAreBounded' /\ EntriesFollowed' /\ ArrayIsListed'
  BY <1>7 DEF KeysAreBounded, EntriesFollowed, ArrayIsListed
<1>18. LastIsShown'
  <2>1. CASE Parsed(S) = {}
    BY <1>7, <1>8, <2>1 DEF LastIsShown
  <2>2. CASE Parsed(S) # {}
    <3>1. \A q \in Peers : lastMessage'[q] # 0 => lastMessage'[q] \in In(location[q], arrived) \ Malformed
      BY <1>9, <1>10, <1>11, <2>2 DEF LastIsShown
    <3>2. \A q \in Peers : lastMessage'[q] # 0 => q \in ToSet(conversations)
      <4>1. p \in ToSet(conversations)
        BY <1>6 DEF ArrayIsListed, ToSet
      <4>2. \A q \in Peers : lastMessage[q] # 0 => q \in ToSet(items)
        BY DEF LastIsShown, ToSet
      <4>3. ToSet(items) \subseteq ToSet(conversations)
        BY <1>0 DEF ListTypeOK
      <4>4. QED
        BY <1>11, <4>1, <4>2, <4>3
    <3>3. QED
      BY <1>7, <1>12, <2>2, <3>1, <3>2 DEF LastIsShown
  <2>3. QED
    BY <2>1, <2>2
<1>19. ReportsArePending'
  <2>1. \A q, T : LastReport(t, q, T) => LastReport(queue', q, T)
    <3>1. CASE Parsed(S) = {}
      BY <1>8, <3>1
    <3>2. CASE Parsed(S) # {}
      <4>1. queue' = Append(t, b) /\ b.kind # "value"
        BY <1>5, <1>8, <3>2
      <4>2. QED
        BY <4>1, ListBlockComes
    <3>3. QED
      BY <3>1, <3>2
  <2>2. \A q : Reports(t, q) = {} => Reports(queue', q) = {}
    <3>1. CASE Parsed(S) = {}
      BY <1>8, <3>1
    <3>2. CASE Parsed(S) # {}
      <4>1. queue' = Append(t, b) /\ b.kind # "value"
        BY <1>5, <1>8, <3>2
      <4>2. QED
        BY <4>1, ListBlockComes
    <3>3. QED
      BY <3>1, <3>2
  <2>3. \A q, T : LastReport(queue, q, T) =>
            \/ LastReport(t, q, T)
            \/ Reports(t, q) = {} /\ p = q /\ S = T
    BY <1>0, <1>2, <1>3, <1>4, ListBlockGoes
  <2>4. \A q : Reports(queue, q) = {} => Reports(t, q) = {} /\ p # q
    BY <1>0, <1>2, <1>4, ListBlockGoes
  <2>5. S = In(location[p], arrived) => RightLast(lastMessage'[p], S)
    <3>1. lastMessage[p] # 0 => lastMessage[p] \in In(location[p], arrived) \ Malformed
      BY DEF LastIsShown
    <3>2. QED
      BY <1>6, <1>11, <3>1, ReportIsRight
  <2>6. ASSUME NEW q \in Peers, progress[q] = "listed"
        PROVE  \/ LastReport(queue', q, In(location[q], arrived))
               \/ /\ Reports(queue', q) = {}
                  /\ RightLast(lastMessage'[q], In(location[q], arrived))
    <3>1. CASE LastReport(queue, q, In(location[q], arrived))
      BY <2>1, <2>2, <2>3, <2>5, <3>1
    <3>2. CASE /\ Reports(queue, q) = {}
               /\ RightLast(lastMessage[q], In(location[q], arrived))
      BY <1>11, <2>2, <2>4, <3>2
    <3>3. QED
      BY <2>6, <3>1, <3>2 DEF ReportsArePending
  <2>7. QED
    BY <1>7, <2>6 DEF ReportsArePending
<1>20. ReloadPending'
  <2>1. CASE Parsed(S) = {}
    <3>0. HasReload(queue) => HasReload(t)
      BY <1>0, <1>4, ListBlockGoes
    <3>1. HasReload(queue) => HasReload(queue')
      BY <1>8, <2>1, <3>0
    <3>2. QED
      BY <1>7, <1>8, <2>1, <3>1 DEF ReloadPending
  <2>2. CASE Parsed(S) # {}
    <3>1. queue' = Append(t, b) /\ b.kind = "reload"
      BY <1>5, <1>8, <2>2
    <3>2. HasReload(queue')
      BY <3>1, ListBlockComes
    <3>3. QED
      BY <3>2 DEF ReloadPending
  <2>3. QED
    BY <2>1, <2>2
<1>21. QED
  BY <1>13, <1>15, <1>16, <1>17, <1>18, <1>19, <1>20

LEMMA ListInvariantInit == ListInit => ListInvariant
<1> SUFFICES ASSUME ListInit PROVE ListInvariant
  OBVIOUS
<1>1. ListTypeOK
  BY DEF ListInit, ListTypeOK, IsInjective, ToSet, Steps
<1>2. QueueFits
  BY DEF ListInit, QueueFits, OneLookUp
<1>3. KeysAreBounded /\ LastIsShown /\ ItemsSorted
  BY DEF ListInit, KeysAreBounded, LastIsShown, ItemsSorted
<1>4. EntriesFollowed /\ ArrayIsListed /\ ReportsArePending
  BY DEF ListInit, EntriesFollowed, ArrayIsListed, ReportsArePending
<1>5. ReloadPending
  <2>1. rows = <<>> /\ DOMAIN items = {}
    BY DEF ListInit
  <2>2. <<>> = [i \in {} |-> [peer |-> items[i], last |-> lastMessage[items[i]]]]
    OBVIOUS
  <2>3. QED
    BY <2>1, <2>2 DEF ReloadPending
<1>6. QED
  BY <1>1, <1>2, <1>3, <1>4, <1>5 DEF ListInvariant

LEMMA ListInvariantStep == ListInvariant /\ [ListNext]_listVars => ListInvariant'
<1> SUFFICES ASSUME ListInvariant, [ListNext]_listVars PROVE ListInvariant'
  OBVIOUS
<1>1. CASE \E n \in Nodes : AddEntry(n) \/ MoveEntry(n)
  BY <1>1, AddEntryKeeps, MoveEntryKeeps
<1>2. CASE \E m \in Texts : Arrive(m)
  BY <1>2, ArriveInListKeeps
<1>3. CASE MainQueue
  BY <1>3, AddedKeeps, ProfileReadKeeps, ValueReportedKeeps, ReloadListKeeps DEF MainQueue
<1>4. CASE \E p \in Peers : Download(p)
  BY <1>4, PictureArrivedKeeps, PictureLostKeeps DEF Download
<1>5. CASE UNCHANGED listVars
  BY <1>5 DEF listVars, ListInvariant, ListTypeOK, QueueFits, KeysAreBounded, EntriesFollowed,
              ArrayIsListed, LastIsShown, ReportsArePending, ItemsSorted, ReloadPending
<1>6. QED
  BY <1>1, <1>2, <1>3, <1>4, <1>5 DEF ListNext

LEMMA ListInvariantHolds == ListSpec => []ListInvariant
<1>1. QED
  BY ListInvariantInit, ListInvariantStep, PTL DEF ListSpec


\* Every variable of ConversationList keeps its type: the array of
\* showConversations holds nobody twice, and the sorted copy nobody else.
THEOREM ListTypeCorrect == ListSpec => []ListTypeOK
<1>1. ListInvariant => ListTypeOK
  BY DEF ListInvariant
<1>2. QED
  BY <1>1, ListInvariantHolds, PTL

\* The messages of a settled conversation, with their last one.
LEMMA SettledConversation ==
  ASSUME ListInvariant, ListSettled, NEW p \in Peers, progress[p] = "listed"
  PROVE  /\ Readable(location[p]) # {} => lastMessage[p] = LastOf(Readable(location[p]))
         /\ Readable(location[p]) = {} /\ lastMessage[p] # 0 =>
                \E k \in Malformed \cap In(location[p], arrived) : k < lastMessage[p]
<1>1. Reports(queue, p) = {} /\ ~LastReport(queue, p, In(location[p], arrived))
  BY DEF ListSettled, Reports, LastReport
<1>2. RightLast(lastMessage[p], In(location[p], arrived))
  BY <1>1 DEF ListInvariant, ReportsArePending
<1>3. \A m \in In(location[p], arrived) : m \in Nat
  BY ConversationListAssumption DEF ListInvariant, ListTypeOK, In
<1>4. Parsed(In(location[p], arrived)) = Readable(location[p])
  BY <1>3 DEF Parsed, Readable
<1>5. QED
  BY <1>2, <1>4 DEF RightLast

\* Downloads that end in any order and reports that overtake each other leave
\* the right list: when nothing is under way, the table of ConversationsVC
\* shows every conversation of the array that has a readable message, newest
\* first, with the message downloadLastMessage should have left there.
THEOREM ListIsCurrent == ListSpec => []SettledListIsCurrent
<1>1. ASSUME ListInvariant PROVE SettledListIsCurrent
  <2> SUFFICES ASSUME ListSettled
      PROVE  /\ [i \in DOMAIN rows |-> rows[i].peer] = items
             /\ \A i, j \in DOMAIN rows :
                    i < j => Clock(lastMessage, rows[i].peer) >= Clock(lastMessage, rows[j].peer)
             /\ \A i \in DOMAIN rows :
                    LET n == location[rows[i].peer]
                    IN  IF Readable(n) # {} THEN rows[i].last = LastOf(Readable(n))
                        ELSE rows[i].last # 0 =>
                                 \E k \in Malformed \cap In(n, arrived) : k < rows[i].last
             /\ \A p \in Peers :
                    progress[p] = "listed" =>
                        /\ Readable(location[p]) # {} => InList(p)
                        /\ p \notin moved => location[p] = entry[p]
    BY DEF SettledListIsCurrent
  <2>1. ListTypeOK /\ KeysAreBounded /\ LastIsShown
    BY <1>1 DEF ListInvariant
  <2>2. rows = [i \in DOMAIN items |-> [peer |-> items[i], last |-> lastMessage[items[i]]]]
    BY <1>1 DEF ListInvariant, ReloadPending, HasReload, ListSettled
  <2>3. /\ items \in Seq(Peers) /\ items = [i \in DOMAIN items |-> items[i]]
        /\ \A i \in DOMAIN items : items[i] \in Peers
    <3>1. items \in Seq(Peers)
      BY <2>1 DEF ListTypeOK
    <3>2. items \in [1..Len(items) -> Peers]
      BY <3>1, LenProperties
    <3>3. QED
      BY <3>1, <3>2
  <2>4. /\ DOMAIN rows = DOMAIN items
        /\ \A i \in DOMAIN rows : rows[i].peer = items[i] /\ rows[i].last = lastMessage[items[i]]
    BY <2>2
  <2>5. [i \in DOMAIN rows |-> rows[i].peer] = items
    BY <2>3, <2>4
  <2>6. \A i, j \in DOMAIN rows :
            i < j => Clock(lastMessage, rows[i].peer) >= Clock(lastMessage, rows[j].peer)
    <3>1. ItemsSorted
      BY <1>1 DEF ListInvariant
    <3>2. QED
      BY <2>4, <3>1 DEF ItemsSorted
  <2>7. \A i \in DOMAIN items : progress[items[i]] = "listed"
    <3>1. ASSUME NEW i \in DOMAIN items PROVE progress[items[i]] = "listed"
      <4>1. items[i] \in ToSet(conversations)
        BY <2>1 DEF ListTypeOK, ToSet
      <4>2. \E j \in DOMAIN conversations : conversations[j] = items[i]
        BY <4>1 DEF ToSet
      <4>3. QED
        BY <1>1, <2>3, <4>2 DEF ListInvariant, ArrayIsListed
    <3>2. QED
      BY <3>1
  <2>8. ASSUME NEW i \in DOMAIN rows
        PROVE  LET n == location[rows[i].peer]
               IN  IF Readable(n) # {} THEN rows[i].last = LastOf(Readable(n))
                   ELSE rows[i].last # 0 =>
                            \E k \in Malformed \cap In(n, arrived) : k < rows[i].last
    <3>1. PICK p \in Peers : p = items[i]
      BY <2>3, <2>4
    <3>2. rows[i].peer = p /\ rows[i].last = lastMessage[p] /\ progress[p] = "listed"
      BY <2>4, <2>7, <3>1
    <3>3. QED
      BY <1>1, <3>2, SettledConversation
  <2>9. ASSUME NEW p \in Peers, progress[p] = "listed"
        PROVE  /\ Readable(location[p]) # {} => InList(p)
               /\ p \notin moved => location[p] = entry[p]
    <3>1. p \notin moved => location[p] = entry[p]
      BY <1>1, <2>9 DEF ListInvariant, EntriesFollowed
    <3>2. ASSUME Readable(location[p]) # {} PROVE InList(p)
      <4>1. lastMessage[p] = LastOf(Readable(location[p]))
        BY <1>1, <2>9, <3>2, SettledConversation
      <4>2. LastOf(Readable(location[p])) \in Readable(location[p])
        BY <2>1, <3>2, LastIsOne DEF Readable, In
      <4>3. lastMessage[p] \in Texts
        BY <2>1, <4>1, <4>2 DEF Readable, In, ListTypeOK
      <4>4. lastMessage[p] # 0
        BY <4>3, ConversationListAssumption
      <4>5. QED
        BY <2>1, <2>4, <4>4 DEF LastIsShown, InList
    <3>3. QED
      BY <3>1, <3>2
  <2>10. QED
    BY <2>5, <2>6, <2>8, <2>9
<1>2. ListInvariant => SettledListIsCurrent
  BY <1>1
<1>3. QED
  BY <1>2, ListInvariantHolds, PTL

-----------------------------------------------------------------------------
(* Read marks *)

\* The messages of a tree.
Present(t) == {m \in Paths : t[m] # Absent}
Known(u) == Present(cache[u])

\* A write of u's phone is of a message of its own, or marks a known one.
Founded(u, w, known) ==
    /\ w.caller = Nobody
    /\ \/ w.value = "unread" /\ Author[w.path] = u
       \/ w.value = "read" /\ Author[w.path] # u /\ w.path \in known

\* Frames with more and more messages, between those of low and of high.
Grows(s, low, high) ==
    /\ \A i \in 1..Len(s) : low \subseteq Present(s[i].data) /\ Present(s[i].data) \subseteq high
    /\ \A i, j \in 1..Len(s) : i <= j => Present(s[i].data) \subseteq Present(s[j].data)

WritesAreFounded == \A u \in Clients : \A i \in 1..Len(puts[u]) : Founded(u, puts[u][i], Known(u))
BlocksAreFounded ==
    \A u \in Clients : \A i \in 1..Len(blocks[u]) :
        FromPeer(u, blocks[u][i].caller.found) \subseteq Known(u)
NothingDisappears ==
    \A u \in Clients : /\ Known(u) \subseteq Present(Watched(tree, u))
                       /\ Grows(inbox[u], Known(u), Present(Watched(tree, u)))

MarksInvariant ==
    DbTypeOK /\ WritesAreFounded /\ BlocksAreFounded /\ NothingDisappears /\ ReadWasReceived

-----------------------------------------------------------------------------
(* Frames *)

\* A newer frame is added, and perhaps the tree has grown by then.
LEMMA GrowsByAppend ==
    ASSUME NEW s \in Seq(Frames), NEW f \in Frames, NEW low, NEW high,
           Grows(s, low, high), low \subseteq high, high \subseteq Present(f.data)
    PROVE  Grows(Append(s, f), low, Present(f.data))
<1> DEFINE t == Append(s, f)
<1>1. /\ Len(s) \in Nat /\ Len(t) = Len(s) + 1 /\ t[Len(s) + 1] = f
      /\ \A i \in 1..Len(s) : t[i] = s[i]
  BY AppendProperties, LenProperties
<1>2. \A i \in 1..Len(t) : i \in 1..Len(s) \/ i = Len(s) + 1
  BY <1>1
<1>3. \A i \in 1..Len(t) : low \subseteq Present(t[i].data) /\ Present(t[i].data) \subseteq Present(f.data)
  BY <1>1, <1>2 DEF Grows
<1>4. ASSUME NEW i \in 1..Len(t), NEW j \in 1..Len(t), i <= j
      PROVE  Present(t[i].data) \subseteq Present(t[j].data)
  <2>1. CASE j = Len(s) + 1
    BY <1>1, <1>3, <2>1
  <2>2. CASE j \in 1..Len(s)
    <3>1. i \in 1..Len(s)
      BY <1>1, <1>4, <2>2
    <3> QED BY <1>1, <1>4, <2>2, <3>1 DEF Grows
  <2> QED BY <1>2, <2>1, <2>2
<1> QED BY <1>3, <1>4 DEF Grows

\* The oldest frame replaces what was known.
LEMMA GrowsByDelivery ==
    ASSUME NEW s \in Seq(Frames), s # <<>>, NEW low, NEW high, Grows(s, low, high)
    PROVE  /\ low \subseteq Present(Head(s).data) /\ Present(Head(s).data) \subseteq high
           /\ Grows(Tail(s), Present(Head(s).data), high)
<1>1. /\ Len(s) \in Nat /\ 1 \in 1..Len(s) /\ Head(s) = s[1]
      /\ Len(Tail(s)) = Len(s) - 1 /\ \A i \in 1..Len(Tail(s)) : Tail(s)[i] = s[i + 1]
  BY HeadTailProperties, LenProperties, EmptySeq
<1>2. \A i \in 1..Len(Tail(s)) : i + 1 \in 1..Len(s) /\ 1 <= i + 1
  BY <1>1
<1>3. \A i, j \in 1..Len(Tail(s)) : i <= j => i + 1 <= j + 1
  BY <1>1
<1>4. PICK t, first : t = Tail(s) /\ first = Present(Head(s).data)
  OBVIOUS
<1>5. first = Present(s[1].data) /\ \A i \in 1..Len(t) : t[i] = s[i + 1]
  BY <1>1, <1>4
<1>6. low \subseteq first /\ first \subseteq high
  BY <1>1, <1>5 DEF Grows
<1>7. ASSUME NEW i \in 1..Len(t)
      PROVE  first \subseteq Present(t[i].data) /\ Present(t[i].data) \subseteq high
  <2>1. i + 1 \in 1..Len(s) /\ 1 <= i + 1 /\ t[i] = s[i + 1]
    BY <1>2, <1>4, <1>5
  <2> QED BY <1>1, <1>5, <2>1 DEF Grows
<1>8. ASSUME NEW i \in 1..Len(t), NEW j \in 1..Len(t), i <= j
      PROVE  Present(t[i].data) \subseteq Present(t[j].data)
  <2>1. /\ i + 1 \in 1..Len(s) /\ j + 1 \in 1..Len(s) /\ i + 1 <= j + 1
        /\ t[i] = s[i + 1] /\ t[j] = s[j + 1]
    BY <1>2, <1>3, <1>4, <1>5, <1>8
  <2> QED BY <2>1 DEF Grows
<1>9. Grows(t, first, high)
  BY <1>7, <1>8 DEF Grows
<1> QED BY <1>4, <1>6, <1>9

\* A tree that only gains messages gains them for every listener.
LEMMA WatchedGrows ==
    ASSUME NEW u \in Clients, NEW s, NEW t, Present(s) \subseteq Present(t)
    PROVE  Present(Watched(s, u)) \subseteq Present(Watched(t, u))
BY DEF Present, Watched

\* The frames stay as they are while the tree gains messages.
LEMMA GrowsWithTree ==
    ASSUME NEW s, NEW low, NEW high, NEW more, Grows(s, low, high), high \subseteq more
    PROVE  Grows(s, low, more)
BY DEF Grows

\* What was founded stays so as long as the phone forgets nothing.
LEMMA FoundedLater ==
    ASSUME NEW u, NEW w, NEW known, NEW more, Founded(u, w, known), known \subseteq more
    PROVE  Founded(u, w, more)
BY DEF Founded

-----------------------------------------------------------------------------
(* The app *)

\* The messages of a peer in a phone's view are known: a write of its own that
\* is overlaid is of its own message or marks a known one.
LEMMA PeersAreKnown ==
    ASSUME MarksInvariant, NEW u \in Clients
    PROVE  FromPeer(u, InView(u)) \subseteq Known(u)
<1> SUFFICES ASSUME NEW m \in Paths, View(u, m) # Absent, Author[m] # u
             PROVE  m \in Known(u)
  BY DEF FromPeer, InView
<1>1. CASE Pending(u, m) = {}
  BY <1>1 DEF View, Known, Present
<1>2. CASE Pending(u, m) # {}
  <2> DEFINE i == Latest(Pending(u, m))
  <2>1. i \in Pending(u, m)
    BY <1>2, LatestIsPending DEF MarksInvariant
  <2>2. puts[u] \in Seq(Put)
    BY DEF MarksInvariant, DbTypeOK
  <2>3. i \in 1..Len(puts[u]) /\ puts[u][i].path = m
    BY <2>1, <2>2 DEF Pending
  <2>4. Founded(u, puts[u][i], Known(u))
    BY <2>3 DEF MarksInvariant, WritesAreFounded
  <2> QED BY <2>3, <2>4 DEF Founded
<1> QED BY <1>1, <1>2

\* Marks makes a sequence of one write for every message.
LEMMA MarksType ==
    ASSUME NEW S \in SUBSET Paths
    PROVE  /\ Marks(S) \in Seq(Put)
           /\ \A i \in 1..Len(Marks(S)) : \E m \in S :
                  Marks(S)[i] = [path |-> m, value |-> "read", caller |-> Nobody]
           /\ \A m \in S : \E i \in 1..Len(Marks(S)) :
                  Marks(S)[i] = [path |-> m, value |-> "read", caller |-> Nobody]
<1> DEFINE mark(m) == [path |-> m, value |-> "read", caller |-> Nobody]
           W == {mark(m) : m \in S}
           f == [m \in S |-> mark(m)]
           n == Cardinality(W)
<1>1. IsFiniteSet(S)
  BY ReadMarksAssumption, FS_Subset
<1>2. f \in Surjection(S, W)
  BY DEF Surjection
<1>3. IsFiniteSet(W)
  <2> HIDE DEF f, W
  <2> QED BY <1>1, <1>2, FS_Surjection
<1>4. n \in Nat /\ ExistsBijection(1..n, W)
  <2> HIDE DEF W
  <2> QED BY <1>3, FS_CardinalityType
<1>5. \E g \in [1..n -> W] : IsInjective(g)
  <2> HIDE DEF W, n
  <2> QED BY <1>4 DEF ExistsBijection, Bijection, Injection
<1>6. Marks(S) \in [1..n -> W] /\ IsInjective(Marks(S))
  <2>1. Marks(S) = CHOOSE g \in [1..n -> W] : IsInjective(g)
    BY DEF Marks, SetToSeq
  <2> HIDE DEF W, n
  <2> QED BY <1>5, <2>1
<1>7. W \subseteq Put
  BY ReadMarksAssumption DEF Put, Stored
<1>8. Marks(S) \in Seq(Put) /\ Len(Marks(S)) = n
  <2> HIDE DEF W, n
  <2> QED BY <1>4, <1>6, <1>7
<1>9. ASSUME NEW i \in 1..Len(Marks(S)) PROVE \E m \in S : Marks(S)[i] = mark(m)
  <2>1. Marks(S)[i] \in W
    BY <1>6, <1>8, <1>9
  <2> QED BY <2>1
<1>10. ASSUME NEW m \in S PROVE \E i \in 1..Len(Marks(S)) : Marks(S)[i] = mark(m)
  <2>1. mark(m) \in W
    OBVIOUS
  <2> HIDE DEF W, n, mark
  <2>2. Marks(S) \in Injection(1..n, W)
    BY <1>6 DEF Injection, IsInjective
  <2>3. IsFiniteSet(1..n) /\ Cardinality(1..n) = n
    BY <1>4, FS_Interval
  <2>4. Marks(S) \in Surjection(1..n, W)
    BY <1>3, <2>2, <2>3, FS_Injection DEF n
  <2>5. \E i \in 1..n : Marks(S)[i] = mark(m)
    BY <2>1, <2>4 DEF Surjection
  <2> QED BY <1>8, <2>5
<1> QED BY <1>8, <1>9, <1>10

\* A step of the app: the tree, the caches and the frames stay as they are.
LEMMA AppKeeps ==
    ASSUME MarksInvariant, UNCHANGED <<tree, cache, inbox>>
    PROVE  NothingDisappears' /\ ReadWasReceived'
BY DEF MarksInvariant, NothingDisappears, ReadWasReceived, Known, Present, Grows, Watched

\* uploadMessage: a message is written by its author.
LEMMA ComposeKeeps ==
    ASSUME MarksInvariant, NEW m \in Paths, Compose(m)
    PROVE  MarksInvariant'
<1> DEFINE a == Author[m]
           w == [path |-> m, value |-> "unread", caller |-> Nobody]
<1>1. a \in Clients /\ w \in Put
  BY ReadMarksAssumption DEF Put, Stored
<1>2. /\ puts' = [puts EXCEPT ![a] = Append(@, w)]
      /\ UNCHANGED <<tree, applied, inbox, cache, synced, online, blocks, faults>>
  BY DEF Compose, Enqueue
<1>3. puts \in [Clients -> Seq(Put)]
  BY DEF MarksInvariant, DbTypeOK
<1>4. puts' \in [Clients -> Seq(Put)]
  BY <1>1, <1>2, <1>3, AppendProperties
<1>5. DbTypeOK'
  BY <1>2, <1>4 DEF MarksInvariant, DbTypeOK
<1>6. WritesAreFounded'
  <2> SUFFICES ASSUME NEW u \in Clients, NEW i \in 1..Len(puts'[u])
               PROVE  Founded(u, puts'[u][i], Known(u))
    BY <1>2 DEF WritesAreFounded, Known
  <2>1. CASE u = a
    <3>1. /\ Len(puts[u]) \in Nat /\ puts'[u] = Append(puts[u], w)
          /\ Len(puts'[u]) = Len(puts[u]) + 1 /\ puts'[u][Len(puts[u]) + 1] = w
          /\ \A j \in 1..Len(puts[u]) : puts'[u][j] = puts[u][j]
      BY <1>1, <1>2, <1>3, <2>1, AppendProperties, LenProperties
    <3>2. CASE i \in 1..Len(puts[u])
      BY <3>1, <3>2 DEF MarksInvariant, WritesAreFounded
    <3>3. CASE i = Len(puts[u]) + 1
      BY <2>1, <3>1, <3>3 DEF Founded
    <3> QED BY <3>1, <3>2, <3>3
  <2>2. CASE u # a
    BY <1>2, <1>3, <2>2 DEF MarksInvariant, WritesAreFounded
  <2> QED BY <2>1, <2>2
<1>7. BlocksAreFounded'
  BY <1>2 DEF MarksInvariant, BlocksAreFounded, Known
<1> QED BY <1>2, <1>5, <1>6, <1>7, AppKeeps DEF MarksInvariant

\* The block of a read holds what the phone's view shows; a peer's messages
\* among it are known.
LEMMA AnswerReadKeeps ==
    ASSUME MarksInvariant, NEW c \in Clients, AnswerRead(c)
    PROVE  MarksInvariant'
<1> DEFINE b == [caller |-> [found |-> InView(c)], answer |-> "value", value |-> Absent]
<1>1. b \in Block
  <2>1. InView(c) \in SUBSET Paths
    BY DEF InView
  <2> QED BY <2>1, ReadMarksAssumption DEF Block, Stored
<1>2. /\ blocks' = [blocks EXCEPT ![c] = Append(@, b)]
      /\ UNCHANGED <<tree, puts, applied, inbox, cache, synced, online, faults>>
  BY DEF AnswerRead
<1>3. blocks \in [Clients -> Seq(Block)]
  BY DEF MarksInvariant, DbTypeOK
<1>4. blocks' \in [Clients -> Seq(Block)]
  BY <1>1, <1>2, <1>3, AppendProperties
<1>5. DbTypeOK'
  BY <1>2, <1>4 DEF MarksInvariant, DbTypeOK
<1>6. WritesAreFounded'
  BY <1>2 DEF MarksInvariant, WritesAreFounded, Known
<1>7. BlocksAreFounded'
  <2> SUFFICES ASSUME NEW u \in Clients, NEW i \in 1..Len(blocks'[u])
               PROVE  FromPeer(u, blocks'[u][i].caller.found) \subseteq Known(u)
    BY <1>2 DEF BlocksAreFounded, Known
  <2>1. CASE u = c
    <3>1. /\ Len(blocks[u]) \in Nat /\ blocks'[u] = Append(blocks[u], b)
          /\ Len(blocks'[u]) = Len(blocks[u]) + 1 /\ blocks'[u][Len(blocks[u]) + 1] = b
          /\ \A j \in 1..Len(blocks[u]) : blocks'[u][j] = blocks[u][j]
      BY <1>1, <1>2, <1>3, <2>1, AppendProperties, LenProperties
    <3>2. CASE i \in 1..Len(blocks[u])
      BY <3>1, <3>2 DEF MarksInvariant, BlocksAreFounded
    <3>3. CASE i = Len(blocks[u]) + 1
      BY <2>1, <3>1, <3>3, PeersAreKnown
    <3> QED BY <3>1, <3>2, <3>3
  <2>2. CASE u # c
    BY <1>2, <1>3, <2>2 DEF MarksInvariant, BlocksAreFounded
  <2> QED BY <2>1, <2>2
<1> QED BY <1>2, <1>5, <1>6, <1>7, AppKeeps DEF MarksInvariant

\* The closure of markMessagesRead marks messages its block found, which
\* were known.
LEMMA SetReadKeeps ==
    ASSUME MarksInvariant, NEW c \in Clients, SetRead(c)
    PROVE  MarksInvariant'
<1> DEFINE b == Head(blocks[c])
           S == FromPeer(c, b.caller.found)
           marks == Marks(S)
<1>1. /\ blocks[c] # <<>> /\ blocks' = [blocks EXCEPT ![c] = Tail(@)]
      /\ puts' = [puts EXCEPT ![c] = @ \o marks]
      /\ UNCHANGED <<tree, applied, inbox, cache, synced, online, faults>>
  BY DEF SetRead, RunBlock
<1>2. puts \in [Clients -> Seq(Put)] /\ blocks \in [Clients -> Seq(Block)]
  BY DEF MarksInvariant, DbTypeOK
<1>3. /\ Len(blocks[c]) \in Nat /\ 1 \in 1..Len(blocks[c]) /\ b = blocks[c][1] /\ b \in Block
      /\ Tail(blocks[c]) \in Seq(Block) /\ Len(Tail(blocks[c])) = Len(blocks[c]) - 1
      /\ \A i \in 1..Len(Tail(blocks[c])) : Tail(blocks[c])[i] = blocks[c][i + 1]
  BY <1>1, <1>2, HeadTailProperties, LenProperties, EmptySeq
<1>4. b.caller.found \in SUBSET Paths
  <2>1. b.caller \in [found : SUBSET Paths]
    BY <1>3, ReadMarksAssumption DEF Block
  <2> QED BY <2>1
<1>5. S \in SUBSET Paths /\ S \subseteq Known(c) /\ \A m \in S : Author[m] # c
  BY <1>3, <1>4 DEF FromPeer, MarksInvariant, BlocksAreFounded
<1>6. /\ marks \in Seq(Put)
      /\ \A i \in 1..Len(marks) : \E m \in S :
             marks[i] = [path |-> m, value |-> "read", caller |-> Nobody]
  <2> HIDE DEF S
  <2> QED BY <1>5, MarksType
<1> HIDE DEF marks, b
<1>7. puts' \in [Clients -> Seq(Put)] /\ blocks' \in [Clients -> Seq(Block)]
  BY <1>1, <1>2, <1>3, <1>6, ConcatProperties
<1>8. DbTypeOK'
  BY <1>1, <1>7 DEF MarksInvariant, DbTypeOK
<1>9. WritesAreFounded'
  <2> SUFFICES ASSUME NEW u \in Clients, NEW i \in 1..Len(puts'[u])
               PROVE  Founded(u, puts'[u][i], Known(u))
    BY <1>1 DEF WritesAreFounded, Known
  <2>1. CASE u = c
    <3>1. /\ Len(puts[u]) \in Nat /\ Len(marks) \in Nat /\ puts'[u] = puts[u] \o marks
          /\ Len(puts'[u]) = Len(puts[u]) + Len(marks)
          /\ \A j \in 1..Len(puts'[u]) :
                 puts'[u][j] = IF j <= Len(puts[u]) THEN puts[u][j] ELSE marks[j - Len(puts[u])]
      BY <1>1, <1>2, <1>6, <2>1, ConcatProperties, LenProperties
    <3>2. CASE i <= Len(puts[u])
      BY <3>1, <3>2 DEF MarksInvariant, WritesAreFounded
    <3>3. CASE ~(i <= Len(puts[u]))
      <4>1. i - Len(puts[u]) \in 1..Len(marks) /\ puts'[u][i] = marks[i - Len(puts[u])]
        BY <3>1, <3>3
      <4>2. PICK m \in S : puts'[u][i] = [path |-> m, value |-> "read", caller |-> Nobody]
        BY <4>1, <1>6
      <4>3. Author[m] # u /\ m \in Known(u)
        BY <1>5, <2>1
      <4> QED BY <4>2, <4>3 DEF Founded
    <3> QED BY <3>2, <3>3
  <2>2. CASE u # c
    BY <1>1, <1>2, <2>2 DEF MarksInvariant, WritesAreFounded
  <2> QED BY <2>1, <2>2
<1>10. BlocksAreFounded'
  <2> SUFFICES ASSUME NEW u \in Clients, NEW i \in 1..Len(blocks'[u])
               PROVE  FromPeer(u, blocks'[u][i].caller.found) \subseteq Known(u)
    BY <1>1 DEF BlocksAreFounded, Known
  <2>1. CASE u = c
    <3>1. i \in 1..Len(Tail(blocks[u])) /\ blocks'[u] = Tail(blocks[u])
      BY <1>1, <1>2, <2>1
    <3>2. i + 1 \in 1..Len(blocks[u]) /\ blocks'[u][i] = blocks[u][i + 1]
      BY <1>3, <2>1, <3>1
    <3> QED BY <3>2 DEF MarksInvariant, BlocksAreFounded
  <2>2. CASE u # c
    BY <1>1, <1>2, <2>2 DEF MarksInvariant, BlocksAreFounded
  <2> QED BY <2>1, <2>2
<1> QED BY <1>1, <1>8, <1>9, <1>10, AppKeeps DEF MarksInvariant

-----------------------------------------------------------------------------
(* The library, the network and the server *)

\* No message ever leaves a phone's cache: then its writes and blocks stay
\* founded, and what was received stays received.
LEMMA KnownStaysKnown ==
    ASSUME MarksInvariant, UNCHANGED <<puts, blocks, tree>>,
           \A u \in Clients : Known(u) \subseteq Known(u)'
    PROVE  WritesAreFounded' /\ BlocksAreFounded' /\ ReadWasReceived'
<1>1. WritesAreFounded'
  BY FoundedLater DEF MarksInvariant, WritesAreFounded, Founded
<1>2. BlocksAreFounded'
  BY DEF MarksInvariant, BlocksAreFounded
<1>3. ReadWasReceived'
  <2> SUFFICES ASSUME NEW m \in Paths, tree[m] = "read"
               PROVE  \E u \in Clients \ {Author[m]} : cache'[u][m] # Absent
    BY DEF ReadWasReceived
  <2>1. PICK u \in Clients \ {Author[m]} : cache[u][m] # Absent
    BY DEF MarksInvariant, ReadWasReceived
  <2>2. m \in Known(u)'
    BY <2>1 DEF Known, Present
  <2> QED BY <2>2 DEF Known, Present
<1> QED BY <1>1, <1>2, <1>3

\* A snapshot of the tree holds all the phone knows.
LEMMA ConnectKeeps ==
    ASSUME MarksInvariant, NEW c \in Clients, Connect(c)
    PROVE  MarksInvariant'
<1>1. /\ inbox' = [inbox EXCEPT ![c] = <<Frame(tree, c, "none")>>]
      /\ UNCHANGED <<tree, puts, cache, blocks>>
  BY DEF Connect
<1>2. DbTypeOK' /\ inbox \in [Clients -> Seq(Frames)]
  BY ConnectType DEF MarksInvariant, DbTypeOK
<1>3. WritesAreFounded' /\ BlocksAreFounded' /\ ReadWasReceived'
  BY <1>1, KnownStaysKnown DEF Known
<1>4. NothingDisappears'
  <2> SUFFICES ASSUME NEW u \in Clients
               PROVE  /\ Known(u) \subseteq Present(Watched(tree, u))
                      /\ Grows(inbox'[u], Known(u), Present(Watched(tree, u)))
    BY <1>1 DEF NothingDisappears, Known, Watched
  <2>1. /\ Known(u) \subseteq Present(Watched(tree, u))
        /\ Grows(inbox[u], Known(u), Present(Watched(tree, u)))
    BY DEF MarksInvariant, NothingDisappears
  <2>2. CASE u = c
    <3>1. inbox'[u] = <<Frame(tree, u, "none")>>
      BY <1>1, <1>2, <2>2
    <3> QED BY <2>1, <3>1 DEF Grows, Frame
  <2>3. CASE u # c
    BY <1>1, <1>2, <2>1, <2>3
  <2> QED BY <2>1, <2>2, <2>3
<1> QED BY <1>2, <1>3, <1>4 DEF MarksInvariant

\* The frames on their way are lost, which takes nothing from the phone.
LEMMA LostFrames ==
    ASSUME MarksInvariant, NEW c \in Clients, UNCHANGED <<tree, cache>>,
           inbox' = [inbox EXCEPT ![c] = <<>>]
    PROVE  NothingDisappears'
<1> SUFFICES ASSUME NEW u \in Clients
             PROVE  /\ Known(u) \subseteq Present(Watched(tree, u))
                    /\ Grows(inbox'[u], Known(u), Present(Watched(tree, u)))
  BY DEF NothingDisappears, Known, Watched
<1>1. /\ Known(u) \subseteq Present(Watched(tree, u))
      /\ Grows(inbox[u], Known(u), Present(Watched(tree, u)))
  BY DEF MarksInvariant, NothingDisappears
<1>2. inbox \in [Clients -> Seq(Frames)]
  BY DEF MarksInvariant, DbTypeOK
<1>3. inbox'[u] = <<>> \/ inbox'[u] = inbox[u]
  BY <1>2
<1>4. Grows(<<>>, Known(u), Present(Watched(tree, u)))
  BY DEF Grows
<1> QED BY <1>1, <1>3, <1>4

\* A lost connection (FPersistentConnection onDisconnect).
LEMMA DropKeeps ==
    ASSUME MarksInvariant, NEW c \in Clients, Drop(c)
    PROVE  MarksInvariant'
<1>1. inbox' = [inbox EXCEPT ![c] = <<>>] /\ UNCHANGED <<tree, puts, cache, blocks>>
  BY DEF Drop
<1>2. DbTypeOK'
  BY DropType DEF MarksInvariant
<1>3. WritesAreFounded' /\ BlocksAreFounded' /\ ReadWasReceived'
  BY <1>1, KnownStaysKnown DEF Known
<1> QED BY <1>1, <1>2, <1>3, LostFrames DEF MarksInvariant

\* Restored writes lose their callers and keep what they write.
LEMMA CrashKeeps ==
    ASSUME MarksInvariant, NEW c \in Clients, Crash(c)
    PROVE  MarksInvariant'
<1>1. /\ inbox' = [inbox EXCEPT ![c] = <<>>] /\ blocks' = [blocks EXCEPT ![c] = <<>>]
      /\ puts' = [puts EXCEPT ![c] = [i \in DOMAIN @ |-> [@[i] EXCEPT !.caller = Nobody]]]
      /\ UNCHANGED <<tree, cache>>
  BY DEF Crash
<1>2. DbTypeOK' /\ puts \in [Clients -> Seq(Put)] /\ blocks \in [Clients -> Seq(Block)]
  BY CrashType DEF MarksInvariant, DbTypeOK
<1>3. WritesAreFounded'
  <2> SUFFICES ASSUME NEW u \in Clients, NEW i \in 1..Len(puts'[u])
               PROVE  Founded(u, puts'[u][i], Known(u))
    BY <1>1 DEF WritesAreFounded, Known
  <2>1. CASE u = c
    <3>1. puts[u] \in Seq(Put) /\ DOMAIN puts[u] = 1..Len(puts[u]) /\ Len(puts[u]) \in Nat
      BY <1>2
    <3>2. puts'[u] = [j \in 1..Len(puts[u]) |-> [puts[u][j] EXCEPT !.caller = Nobody]]
      BY <1>1, <1>2, <2>1, <3>1
    <3>3. Len(puts'[u]) = Len(puts[u])
      BY <3>1, <3>2
    <3>4. i \in 1..Len(puts[u])
      BY <3>3
    <3>5. puts'[u][i] = [puts[u][i] EXCEPT !.caller = Nobody]
      BY <3>2, <3>4
    <3>6. puts[u][i] \in Put /\ Founded(u, puts[u][i], Known(u))
      BY <3>1, <3>4 DEF MarksInvariant, WritesAreFounded
    <3> QED BY <3>5, <3>6 DEF Founded, Put
  <2>2. CASE u # c
    BY <1>1, <1>2, <2>2 DEF MarksInvariant, WritesAreFounded
  <2> QED BY <2>1, <2>2
<1>4. BlocksAreFounded'
  <2> SUFFICES ASSUME NEW u \in Clients, NEW i \in 1..Len(blocks'[u])
               PROVE  FromPeer(u, blocks'[u][i].caller.found) \subseteq Known(u)
    BY <1>1 DEF BlocksAreFounded, Known
  <2>1. blocks'[u] = <<>> \/ blocks'[u] = blocks[u]
    BY <1>1, <1>2
  <2> QED BY <2>1 DEF MarksInvariant, BlocksAreFounded
<1> QED BY <1>1, <1>2, <1>3, <1>4, LostFrames DEF MarksInvariant, ReadWasReceived

\* The oldest frame becomes what the phone knows; the write it answers, which
\* nobody waits for, is over.
LEMMA DeliverKeeps ==
    ASSUME MarksInvariant, NEW c \in Clients, Deliver(c)
    PROVE  MarksInvariant'
<1> DEFINE frame == Head(inbox[c])
<1>1. /\ DbTypeOK' /\ inbox \in [Clients -> Seq(Frames)] /\ puts \in [Clients -> Seq(Put)]
      /\ cache \in [Clients -> Trees]
  BY DeliverType DEF MarksInvariant, DbTypeOK
<1>2. /\ inbox[c] # <<>> /\ cache' = [cache EXCEPT ![c] = frame.data]
      /\ inbox' = [inbox EXCEPT ![c] = Tail(@)] /\ tree' = tree
  BY DEF Deliver, Settle
<1>3. /\ Known(c) \subseteq Present(frame.data)
      /\ Present(frame.data) \subseteq Present(Watched(tree, c))
      /\ Grows(Tail(inbox[c]), Present(frame.data), Present(Watched(tree, c)))
  <2>1. Grows(inbox[c], Known(c), Present(Watched(tree, c)))
    BY DEF MarksInvariant, NothingDisappears
  <2> QED BY <1>1, <1>2, <2>1, GrowsByDelivery
<1>4. \A u \in Clients : Known(u)' = IF u = c THEN Present(frame.data) ELSE Known(u)
  BY <1>1, <1>2 DEF Known
<1>5. NothingDisappears'
  <2> SUFFICES ASSUME NEW u \in Clients
               PROVE  /\ Known(u)' \subseteq Present(Watched(tree, u))
                      /\ Grows(inbox'[u], Known(u)', Present(Watched(tree, u)))
    BY <1>2 DEF NothingDisappears, Watched
  <2>1. CASE u = c
    BY <1>1, <1>2, <1>3, <1>4, <2>1
  <2>2. CASE u # c
    BY <1>1, <1>2, <1>4, <2>2 DEF MarksInvariant, NothingDisappears
  <2> QED BY <2>1, <2>2
<1>6. \A u \in Clients : Known(u) \subseteq Known(u)'
  BY <1>3, <1>4
<1>7. /\ \A u \in Clients : \A i \in 1..Len(puts'[u]) :
             \E j \in 1..Len(puts[u]) : puts'[u][i] = puts[u][j]
      /\ blocks' = blocks
  <2>1. CASE frame.answer = "none"
    BY <2>1 DEF Deliver
  <2>2. CASE frame.answer # "none"
    <3>1. /\ puts[c] # <<>> /\ puts' = [puts EXCEPT ![c] = Tail(@)]
          /\ Head(puts[c]).caller = Nobody => blocks' = blocks
      BY <2>2 DEF Deliver, Settle
    <3>2. /\ Len(puts[c]) \in Nat /\ 1 \in 1..Len(puts[c]) /\ Head(puts[c]) = puts[c][1]
          /\ Len(Tail(puts[c])) = Len(puts[c]) - 1
          /\ \A i \in 1..Len(Tail(puts[c])) : Tail(puts[c])[i] = puts[c][i + 1]
      BY <1>1, <3>1, HeadTailProperties, LenProperties, EmptySeq
    <3>3. Founded(c, puts[c][1], Known(c))
      BY <3>2 DEF MarksInvariant, WritesAreFounded
    <3>4. blocks' = blocks
      BY <3>1, <3>2, <3>3 DEF Founded
    <3>5. ASSUME NEW u \in Clients, NEW i \in 1..Len(puts'[u])
          PROVE  \E j \in 1..Len(puts[u]) : puts'[u][i] = puts[u][j]
      <4>1. CASE u = c
        <5>1. puts'[u] = Tail(puts[u])
          BY <1>1, <3>1, <4>1
        <5>2. i + 1 \in 1..Len(puts[u]) /\ puts'[u][i] = puts[u][i + 1]
          BY <3>2, <4>1, <5>1
        <5> QED BY <5>2
      <4>2. CASE u # c
        BY <1>1, <3>1, <4>2
      <4> QED BY <4>1, <4>2
    <3> QED BY <3>4, <3>5
  <2> QED BY <2>1, <2>2
<1>8. WritesAreFounded'
  <2> SUFFICES ASSUME NEW u \in Clients, NEW i \in 1..Len(puts'[u])
               PROVE  Founded(u, puts'[u][i], Known(u)')
    BY DEF WritesAreFounded
  <2>1. PICK j \in 1..Len(puts[u]) : puts'[u][i] = puts[u][j]
    BY <1>7
  <2>2. Founded(u, puts[u][j], Known(u))
    BY DEF MarksInvariant, WritesAreFounded
  <2> QED BY <1>6, <2>1, <2>2 DEF Founded
<1>9. BlocksAreFounded'
  BY <1>6, <1>7 DEF MarksInvariant, BlocksAreFounded
<1>10. ReadWasReceived'
  <2> SUFFICES ASSUME NEW m \in Paths, tree[m] = "read"
               PROVE  \E u \in Clients \ {Author[m]} : cache'[u][m] # Absent
    BY <1>2 DEF ReadWasReceived
  <2>1. PICK u \in Clients \ {Author[m]} : cache[u][m] # Absent
    BY DEF MarksInvariant, ReadWasReceived
  <2>2. m \in Known(u)'
    BY <1>6, <2>1 DEF Known, Present
  <2> QED BY <2>2 DEF Known, Present
<1> QED BY <1>1, <1>5, <1>8, <1>9, <1>10 DEF MarksInvariant

\* A frame is added that shows the tree as it is by now.
LEMMA NewFrame ==
    ASSUME DbTypeOK, NEW u \in Clients, NEW t \in Trees, NEW a \in Answers,
           Present(tree) \subseteq Present(t), NothingDisappears
    PROVE  Grows(Append(inbox[u], Frame(t, u, a)), Known(u), Present(Watched(t, u)))
<1>1. Frame(t, u, a) \in Frames /\ Frame(t, u, a).data = Watched(t, u)
  BY FrameType DEF Frame
<1>2. inbox[u] \in Seq(Frames)
  BY DEF DbTypeOK
<1>3. /\ Known(u) \subseteq Present(Watched(tree, u))
      /\ Grows(inbox[u], Known(u), Present(Watched(tree, u)))
  BY DEF NothingDisappears
<1>4. Present(Watched(tree, u)) \subseteq Present(Watched(t, u))
  BY WatchedGrows
<1> HIDE DEF Known
<1> QED BY <1>1, <1>2, <1>3, <1>4, GrowsByAppend

\* A refusal sends the tree as it is.
LEMMA RefuseKeeps ==
    ASSUME MarksInvariant, NEW c \in Clients, Refuse(c)
    PROVE  MarksInvariant'
<1>1. /\ inbox' = [inbox EXCEPT ![c] = Append(@, Frame(tree, c, "refused"))]
      /\ UNCHANGED <<tree, puts, cache, blocks>>
  BY DEF Refuse
<1>2. /\ DbTypeOK' /\ inbox \in [Clients -> Seq(Frames)] /\ tree \in Trees
      /\ "refused" \in Answers
  BY RefuseType DEF MarksInvariant, DbTypeOK, Answers
<1>3. WritesAreFounded' /\ BlocksAreFounded' /\ ReadWasReceived'
  BY <1>1, KnownStaysKnown DEF Known
<1>4. NothingDisappears'
  <2> SUFFICES ASSUME NEW u \in Clients
               PROVE  /\ Known(u) \subseteq Present(Watched(tree, u))
                      /\ Grows(inbox'[u], Known(u), Present(Watched(tree, u)))
    BY <1>1 DEF NothingDisappears, Known, Watched
  <2>1. /\ Known(u) \subseteq Present(Watched(tree, u))
        /\ Grows(inbox[u], Known(u), Present(Watched(tree, u)))
    BY DEF MarksInvariant, NothingDisappears
  <2>2. Grows(Append(inbox[u], Frame(tree, u, "refused")), Known(u), Present(Watched(tree, u)))
    BY <1>2, NewFrame DEF MarksInvariant
  <2>3. inbox'[u] = inbox[u] \/ inbox'[u] = Append(inbox[u], Frame(tree, u, "refused"))
    BY <1>1, <1>2
  <2> QED BY <2>1, <2>2, <2>3
<1> QED BY <1>2, <1>3, <1>4 DEF MarksInvariant

\* The server stores a message or marks one its writer has received.
LEMMA ApplyKeeps ==
    ASSUME MarksInvariant, NEW c \in Clients, Apply(c)
    PROVE  MarksInvariant'
<1> DEFINE put == NextPut(c)
<1>1. /\ HasNextPut(c) /\ tree' = [tree EXCEPT ![put.path] = put.value]
      /\ UNCHANGED <<puts, cache, blocks>>
      /\ inbox' = [d \in Clients |->
             IF d = c THEN Append(inbox[d], Frame(tree', d, "ok"))
             ELSE IF online[d] /\ tree[put.path] # put.value /\ put.path \in Watch[d]
             THEN Append(inbox[d], Frame(tree', d, "none"))
             ELSE inbox[d]]
  BY DEF Apply
<1>2. DbTypeOK' /\ DbTypeOK
  BY ApplyType DEF MarksInvariant
<1>3. put \in Put /\ Founded(c, put, Known(c))
  <2>1. /\ puts[c] \in Seq(Put) /\ applied[c] \in Nat /\ applied[c] < Len(puts[c])
        /\ Len(puts[c]) \in Nat
    BY <1>1, <1>2 DEF HasNextPut, DbTypeOK
  <2>2. applied[c] + 1 \in 1..Len(puts[c])
    BY <2>1
  <2> QED BY <2>1, <2>2 DEF NextPut, MarksInvariant, WritesAreFounded
<1>4. put.value # Absent /\ put.path \in Paths /\ tree \in Trees /\ tree' \in Trees
  BY <1>2, <1>3, ReadMarksAssumption DEF Founded, Put, DbTypeOK
<1>5. Present(tree) \subseteq Present(tree')
  BY <1>1, <1>4 DEF Present, Trees
<1>6. WritesAreFounded' /\ BlocksAreFounded'
  BY <1>1 DEF MarksInvariant, WritesAreFounded, BlocksAreFounded, Known
<1>7. NothingDisappears'
  <2> SUFFICES ASSUME NEW u \in Clients
               PROVE  /\ Known(u) \subseteq Present(Watched(tree', u))
                      /\ Grows(inbox'[u], Known(u), Present(Watched(tree', u)))
    BY <1>1 DEF NothingDisappears, Known, Watched
  <2>1. /\ Known(u) \subseteq Present(Watched(tree, u))
        /\ Grows(inbox[u], Known(u), Present(Watched(tree, u)))
        /\ Present(Watched(tree, u)) \subseteq Present(Watched(tree', u))
    BY <1>5, WatchedGrows DEF MarksInvariant, NothingDisappears
  <2>2. \A a \in {"ok", "none"} :
            Grows(Append(inbox[u], Frame(tree', u, a)), Known(u), Present(Watched(tree', u)))
    BY <1>2, <1>4, <1>5, NewFrame DEF MarksInvariant, Answers
  <2>3. Grows(inbox[u], Known(u), Present(Watched(tree', u)))
    BY <2>1, GrowsWithTree
  <2>4. \/ inbox'[u] = inbox[u]
        \/ \E a \in {"ok", "none"} : inbox'[u] = Append(inbox[u], Frame(tree', u, a))
    BY <1>1
  <2> QED BY <2>1, <2>2, <2>3, <2>4
<1>8. ReadWasReceived'
  <2> SUFFICES ASSUME NEW m \in Paths, tree'[m] = "read"
               PROVE  \E u \in Clients \ {Author[m]} : cache[u][m] # Absent
    BY <1>1 DEF ReadWasReceived
  <2>1. CASE m = put.path
    <3>1. put.value = "read"
      BY <1>1, <1>4, <2>1 DEF Trees
    <3>2. Author[m] # c /\ m \in Known(c)
      BY <1>3, <2>1, <3>1 DEF Founded
    <3> QED BY <3>2 DEF Known, Present
  <2>2. CASE m # put.path
    <3>1. tree[m] = "read"
      BY <1>1, <1>4, <2>2 DEF Trees
    <3> QED BY <3>1 DEF MarksInvariant, ReadWasReceived
  <2> QED BY <2>1, <2>2
<1> QED BY <1>2, <1>6, <1>7, <1>8 DEF MarksInvariant

-----------------------------------------------------------------------------
\* Every step keeps the invariant.
LEMMA EveryStepKeeps ==
    ASSUME MarksInvariant, [ReadMarksNext]_readMarksVars
    PROVE  MarksInvariant'
<1>1. ASSUME UNCHANGED dbVars PROVE MarksInvariant'
  <2>1. UNCHANGED <<tree, puts, applied, inbox, cache, synced, online, blocks, faults>>
    BY <1>1 DEF dbVars
  <2> QED BY <2>1, AppKeeps
      DEF MarksInvariant, DbTypeOK, WritesAreFounded, BlocksAreFounded, Known
<1>2. ASSUME NEW m \in Paths, Compose(m) PROVE MarksInvariant'
  BY <1>2, ComposeKeeps
<1>3. ASSUME NEW u \in Clients, OpenChat(u) \/ LeaveChat(u) PROVE MarksInvariant'
  BY <1>1, <1>3 DEF OpenChat, LeaveChat
<1>4. ASSUME NEW u \in Clients, Marking(u) PROVE MarksInvariant'
  BY <1>4, AnswerReadKeeps, SetReadKeeps DEF Marking
<1>5. ASSUME NEW u \in Clients, ApplyMark(u) PROVE MarksInvariant'
  BY <1>5, ApplyKeeps DEF ApplyMark
<1>6. ASSUME NEW u \in Clients, Library(u) PROVE MarksInvariant'
  BY <1>6, ConnectKeeps, DeliverKeeps DEF Library
<1>7. ASSUME NEW u \in Clients, RestartPhone(u) PROVE MarksInvariant'
  BY <1>7, CrashKeeps DEF RestartPhone
<1>8. ASSUME NEW u \in Clients, Fault(u) PROVE MarksInvariant'
  BY <1>8, DropKeeps, RefuseKeeps DEF Fault
<1>9. CASE UNCHANGED readMarksVars
  BY <1>1, <1>9 DEF readMarksVars
<1> QED BY <1>2, <1>3, <1>4, <1>5, <1>6, <1>7, <1>8, <1>9 DEF ReadMarksNext

\* The invariant holds at first and every step keeps it.
LEMMA MarksInvariantHolds == ReadMarksSpec => []MarksInvariant
<1>1. ReadMarksInit => MarksInvariant
  <2> SUFFICES ASSUME DbInit PROVE MarksInvariant
    BY DEF ReadMarksInit
  <2>1. /\ tree = [p \in Paths |-> Absent]
        /\ \A u \in Clients : /\ puts[u] = <<>> /\ inbox[u] = <<>> /\ blocks[u] = <<>>
                              /\ cache[u] = [p \in Paths |-> Absent]
    BY DEF DbInit
  <2>2. \A u \in Clients : Known(u) = {}
    BY <2>1 DEF Known, Present
  <2>3. NothingDisappears
    BY <2>1, <2>2 DEF NothingDisappears, Grows
  <2>4. ReadWasReceived
    BY <2>1, ReadMarksAssumption DEF ReadWasReceived
  <2>5. WritesAreFounded /\ BlocksAreFounded
    BY <2>1 DEF WritesAreFounded, BlocksAreFounded
  <2> QED BY <2>3, <2>4, <2>5, InitType DEF MarksInvariant
<1>2. MarksInvariant /\ [ReadMarksNext]_readMarksVars => MarksInvariant'
  BY EveryStepKeeps
<1> QED BY <1>1, <1>2, PTL DEF ReadMarksSpec

\* Through lost connections, refused and repeated writes and restarts, a
\* message that is marked as read has reached the phone of a user who did not
\* write it (markMessagesRead marks what its phone found, from others).
THEOREM MarksAreFounded == ReadMarksSpec => []ReadWasReceived
BY MarksInvariantHolds, PTL DEF MarksInvariant
-----------------------------------------------------------------------------
(* A chat that was left *)

Unrefused == faults["refuse"] = 0

\* A message is read, or its own write came again.
Marked(m) == tree[m] = "read" \/ m \in sentAgain

\* A block that found m, and an outstanding mark of it.
InBlock(u, m) == \E i \in 1..Len(blocks[u]) : m \in blocks[u][i].caller.found
InPut(u, m) ==
    \E i \in 1..Len(puts[u]) : puts[u][i].path = m /\ puts[u][i].value = "read"

UnreadIsComposed ==
    \A u \in Clients : \A i \in 1..Len(puts[u]) :
        puts[u][i].value = "unread" => puts[u][i].path \in composed

ShownIsKnown == \A u \in Clients : shown[u] \subseteq FromPeer(u, Known(u))

AppliedIsMarked ==
    \A u \in Clients :
        /\ applied[u] <= Len(puts[u])
        /\ Unrefused => \A i \in 1..applied[u] :
               puts[u][i].value = "read" => Marked(puts[u][i].path)

\* What a phone has or is sent as read was read on the server.
SeenIsMarked ==
    \A u \in Clients : \A m \in Paths :
        /\ cache[u][m] = "read" => Marked(m)
        /\ \A i \in 1..Len(inbox[u]) : inbox[u][i].data[m] = "read" => Marked(m)

\* From the screen to the server: a read to come, its block, its write, unless
\* the process ended on the way.
Followed(u, m) ==
    m \in lost[u] \/ wanted[u] > 0 \/ InBlock(u, m) \/ InPut(u, m) \/ Marked(m)
ShownIsFollowed == Unrefused => \A u \in Clients : \A m \in shown[u] : Followed(u, m)

LeftInvariant ==
    /\ ReadMarksTypeOK /\ UnreadIsComposed /\ ShownIsKnown
    /\ AppliedIsMarked /\ SeenIsMarked /\ ShownIsFollowed

\* What a step may be for the outstanding writes of one user.
SamePuts(u) == puts'[u] = puts[u] /\ applied'[u] = applied[u]

MorePuts(u) ==
    /\ applied'[u] = applied[u] /\ Len(puts[u]) <= Len(puts'[u])
    /\ \A i \in 1..Len(puts[u]) : puts'[u][i] = puts[u][i]
    /\ \A i \in 1..Len(puts'[u]) :
           i \in 1..Len(puts[u]) \/ (puts'[u][i].value = "unread" => puts'[u][i].path \in composed')

PutsAgain(u) ==
    /\ applied'[u] = 0 /\ Len(puts'[u]) = Len(puts[u])
    /\ \A i \in 1..Len(puts[u]) :
           puts'[u][i].path = puts[u][i].path /\ puts'[u][i].value = puts[u][i].value

OnePutLess(u) ==
    /\ applied[u] > 0 /\ applied'[u] = applied[u] - 1
    /\ Len(puts'[u]) = Len(puts[u]) - 1
    /\ \A i \in 1..Len(puts'[u]) : puts'[u][i] = puts[u][i + 1]

OneMoreApplied(u) ==
    /\ puts'[u] = puts[u] /\ applied'[u] = applied[u] + 1 /\ applied[u] + 1 <= Len(puts[u])
    /\ \A m \in Paths :
           Unrefused' /\ puts[u][applied[u] + 1].path = m /\ puts[u][applied[u] + 1].value = "read"
               => Marked(m)'

LEMMA PutTypes ==
    ASSUME DbTypeOK
    PROVE  /\ puts \in [Clients -> Seq(Put)] /\ blocks \in [Clients -> Seq(Block)]
           /\ applied \in [Clients -> Nat] /\ faults \in [FaultKinds -> Nat]
           /\ inbox \in [Clients -> Seq(Frames)] /\ tree \in Trees
           /\ \A u \in Clients : /\ puts[u] \in Seq(Put) /\ Len(puts[u]) \in Nat
                                 /\ blocks[u] \in Seq(Block) /\ Len(blocks[u]) \in Nat
                                 /\ applied[u] \in Nat
<1>1. /\ puts \in [Clients -> Seq(Put)] /\ blocks \in [Clients -> Seq(Block)]
      /\ applied \in [Clients -> Nat] /\ faults \in [FaultKinds -> Nat]
      /\ inbox \in [Clients -> Seq(Frames)] /\ tree \in Trees
  BY DEF DbTypeOK
<1> QED BY <1>1, LenProperties

\* uploadMessage adds the message, whole.
LEMMA ComposePuts ==
    ASSUME MarksInvariant, NEW m \in Paths, Compose(m), NEW u \in Clients
    PROVE  SamePuts(u) \/ MorePuts(u)
<1> DEFINE w == [path |-> m, value |-> "unread", caller |-> Nobody]
<1>1. puts \in [Clients -> Seq(Put)] /\ puts[u] \in Seq(Put) /\ Len(puts[u]) \in Nat
  BY PutTypes DEF MarksInvariant
<1>2. /\ puts' = [puts EXCEPT ![Author[m]] = Append(@, w)]
      /\ applied' = applied /\ composed' = composed \union {m}
  BY DEF Compose, Enqueue
<1>3. CASE u # Author[m]
  BY <1>1, <1>2, <1>3 DEF SamePuts
<1>4. CASE u = Author[m]
  <2>1. puts'[u] = Append(puts[u], w)
    BY <1>1, <1>2, <1>4
  <2>2. /\ Len(puts'[u]) = Len(puts[u]) + 1 /\ puts'[u][Len(puts[u]) + 1] = w
        /\ \A i \in 1..Len(puts[u]) : puts'[u][i] = puts[u][i]
    BY <1>1, <2>1
  <2>3. \A i \in 1..Len(puts'[u]) : i \in 1..Len(puts[u]) \/ i = Len(puts[u]) + 1
    BY <1>1, <2>2
  <2>4. w.path \in composed'
    BY <1>2
  <2> QED BY <1>1, <1>2, <2>2, <2>3, <2>4 DEF MorePuts
<1> QED BY <1>3, <1>4

\* markMessagesRead adds marks, and one for every peer's message it found.
LEMMA SetReadPuts ==
    ASSUME MarksInvariant, NEW c \in Clients, SetRead(c)
    PROVE  /\ \A u \in Clients : SamePuts(u) \/ MorePuts(u)
           /\ \A m \in FromPeer(c, blocks[c][1].caller.found) : InPut(c, m)'
<1> DEFINE S == FromPeer(c, blocks[c][1].caller.found)
<1>1. /\ puts \in [Clients -> Seq(Put)] /\ puts[c] \in Seq(Put) /\ Len(puts[c]) \in Nat
      /\ blocks[c] \in Seq(Block) /\ Len(blocks[c]) \in Nat
  BY PutTypes DEF MarksInvariant
<1>2. /\ blocks[c] # <<>> /\ applied' = applied
      /\ puts' = [puts EXCEPT ![c] = @ \o Marks(FromPeer(c, Head(blocks[c]).caller.found))]
  BY DEF SetRead, RunBlock
<1>3. Head(blocks[c]) = blocks[c][1] /\ blocks[c][1] \in Block
  BY <1>1, <1>2, HeadTailProperties
<1>4. S \in SUBSET Paths
  <2>1. blocks[c][1].caller \in [found : SUBSET Paths]
    BY <1>3, ReadMarksAssumption DEF Block
  <2> QED BY <2>1 DEF FromPeer
<1>5. PICK marks : marks = Marks(S)
  OBVIOUS
<1>6. puts' = [puts EXCEPT ![c] = @ \o marks]
  BY <1>2, <1>3, <1>5
<1> HIDE DEF S
<1>7. /\ marks \in Seq(Put) /\ Len(marks) \in Nat
      /\ \A i \in 1..Len(marks) : \E m \in S :
             marks[i] = [path |-> m, value |-> "read", caller |-> Nobody]
      /\ \A m \in S : \E i \in 1..Len(marks) :
             marks[i] = [path |-> m, value |-> "read", caller |-> Nobody]
  BY <1>4, <1>5, MarksType, LenProperties
<1>8. puts'[c] = puts[c] \o marks
  BY <1>1, <1>6
<1>9. /\ Len(puts'[c]) = Len(puts[c]) + Len(marks)
      /\ \A i \in 1..Len(puts[c]) : puts'[c][i] = puts[c][i]
      /\ \A i \in 1..Len(marks) : puts'[c][Len(puts[c]) + i] = marks[i]
  BY <1>1, <1>7, <1>8
<1>10. ASSUME NEW u \in Clients PROVE SamePuts(u) \/ MorePuts(u)
  <2>1. CASE u # c
    BY <1>1, <1>2, <1>6, <2>1 DEF SamePuts
  <2>2. CASE u = c
    <3>1. ASSUME NEW i \in 1..Len(puts'[c]), i \notin 1..Len(puts[c])
          PROVE  puts'[c][i].value # "unread"
      <4>1. i - Len(puts[c]) \in 1..Len(marks) /\ i = Len(puts[c]) + (i - Len(puts[c]))
        BY <1>1, <1>7, <1>9, <3>1
      <4>2. PICK j \in 1..Len(marks) : i = Len(puts[c]) + j
        BY <4>1
      <4>3. PICK m \in S : marks[j] = [path |-> m, value |-> "read", caller |-> Nobody]
        BY <1>7
      <4>4. puts'[c][i] = marks[j]
        BY <1>9, <4>2
      <4> QED BY <4>3, <4>4
    <3>2. applied'[c] = applied[c]
      BY <1>2
    <3>3. Len(puts[c]) <= Len(puts'[c])
      BY <1>1, <1>7, <1>9
    <3>4. \A i \in 1..Len(puts[c]) : puts'[c][i] = puts[c][i]
      BY <1>9
    <3> QED BY <2>2, <3>1, <3>2, <3>3, <3>4 DEF MorePuts
  <2> QED BY <2>1, <2>2
<1>11. ASSUME NEW m \in S PROVE InPut(c, m)'
  <2>1. PICK i \in 1..Len(marks) : marks[i] = [path |-> m, value |-> "read", caller |-> Nobody]
    BY <1>7
  <2>2. Len(puts[c]) + i \in 1..Len(puts'[c])
    BY <1>1, <1>7, <1>9
  <2>3. puts'[c][Len(puts[c]) + i].path = m /\ puts'[c][Len(puts[c]) + i].value = "read"
    BY <1>9, <2>1
  <2> QED BY <2>2, <2>3 DEF InPut
<1> QED BY <1>10, <1>11 DEF S

\* A lost or a new connection, and a restart: everything is sent again.
LEMMA AgainPuts ==
    ASSUME MarksInvariant, NEW c \in Clients, Connect(c) \/ Drop(c) \/ Crash(c), NEW u \in Clients
    PROVE  SamePuts(u) \/ PutsAgain(u)
<1>1. /\ puts \in [Clients -> Seq(Put)] /\ puts[u] \in Seq(Put) /\ Len(puts[u]) \in Nat
      /\ applied \in [Clients -> Nat]
  BY PutTypes DEF MarksInvariant
<1>2. CASE u # c
  BY <1>1, <1>2 DEF SamePuts, Connect, Drop, Crash
<1>3. CASE u = c
  <2>1. applied'[u] = 0
    BY <1>1, <1>3 DEF Connect, Drop, Crash
  <2>2. CASE puts' = puts
    BY <2>1, <2>2 DEF PutsAgain
  <2>3. CASE Crash(c)
    <3>1. DOMAIN puts[u] = 1..Len(puts[u])
      BY <1>1, LenProperties
    <3>2. puts'[u] = [i \in 1..Len(puts[u]) |-> [puts[u][i] EXCEPT !.caller = Nobody]]
      BY <1>1, <1>3, <2>3, <3>1 DEF Crash
    <3>3. Len(puts'[u]) = Len(puts[u])
      BY <1>1, <3>2
    <3>4. ASSUME NEW i \in 1..Len(puts[u])
          PROVE  puts'[u][i].path = puts[u][i].path /\ puts'[u][i].value = puts[u][i].value
      <4>1. puts[u][i] \in Put
        BY <1>1, ElementOfSeq
      <4> QED BY <3>2, <4>1 DEF Put
    <3> QED BY <2>1, <3>3, <3>4 DEF PutsAgain
  <2> QED BY <1>3, <2>2, <2>3 DEF Connect, Drop
<1> QED BY <1>2, <1>3

\* An answer ends the oldest write.
LEMMA DeliverPuts ==
    ASSUME MarksInvariant, NEW c \in Clients, Deliver(c), NEW u \in Clients
    PROVE  SamePuts(u) \/ OnePutLess(u)
<1>1. /\ puts \in [Clients -> Seq(Put)] /\ puts[u] \in Seq(Put) /\ Len(puts[u]) \in Nat
      /\ applied \in [Clients -> Nat]
  BY PutTypes DEF MarksInvariant
<1>2. CASE u # c \/ UNCHANGED <<puts, applied>>
  BY <1>1, <1>2 DEF SamePuts, Deliver, Settle
<1>3. CASE u = c /\ ~UNCHANGED <<puts, applied>>
  <2>1. /\ puts[u] # <<>> /\ applied[u] > 0
        /\ puts' = [puts EXCEPT ![u] = Tail(@)] /\ applied' = [applied EXCEPT ![u] = @ - 1]
    BY <1>3 DEF Deliver, Settle
  <2>2. puts'[u] = Tail(puts[u]) /\ applied'[u] = applied[u] - 1
    BY <1>1, <2>1
  <2>3. /\ Len(Tail(puts[u])) = Len(puts[u]) - 1
        /\ \A i \in 1..Len(Tail(puts[u])) : Tail(puts[u])[i] = puts[u][i + 1]
    BY <1>1, <2>1, HeadTailProperties
  <2> QED BY <2>1, <2>2, <2>3 DEF OnePutLess
<1> QED BY <1>2, <1>3

\* No refusal is taken back.
LEMMA RefusalsStay ==
    ASSUME MarksInvariant, [ReadMarksNext]_readMarksVars, Unrefused'
    PROVE  Unrefused
<1>1. faults \in [FaultKinds -> Nat]
  BY PutTypes DEF MarksInvariant
<1>2. CASE faults' = faults
  BY <1>2 DEF Unrefused
<1>3. CASE \E k \in FaultKinds : Spend(k)
  BY <1>1, <1>3 DEF Unrefused, Spend, FaultKinds
<1>4. faults' = faults \/ \E k \in FaultKinds : Spend(k)
  BY DEF FaultKinds, ReadMarksNext, Compose, OpenChat, LeaveChat, Marking, AnswerRead, SetRead, RunBlock,
         ApplyMark, Apply, Library, Connect, Deliver, RestartPhone, Crash, Fault, Drop, Refuse,
         readMarksVars, dbVars
<1> QED BY <1>2, <1>3, <1>4

\* The write the server takes next.
LEMMA NextPutIsFounded ==
    ASSUME MarksInvariant, NEW c \in Clients, HasNextPut(c)
    PROVE  /\ applied[c] + 1 <= Len(puts[c]) /\ applied[c] + 1 \in 1..Len(puts[c])
           /\ NextPut(c) = puts[c][applied[c] + 1] /\ NextPut(c) \in Put
           /\ NextPut(c).value \in {"unread", "read"}
<1>1. puts[c] \in Seq(Put) /\ Len(puts[c]) \in Nat /\ applied[c] \in Nat
  BY PutTypes DEF MarksInvariant
<1>2. applied[c] + 1 <= Len(puts[c]) /\ applied[c] + 1 \in 1..Len(puts[c])
  BY <1>1 DEF HasNextPut
<1>3. puts[c][applied[c] + 1] \in Put
  BY <1>1, <1>2, ElementOfSeq
<1>4. Founded(c, puts[c][applied[c] + 1], Known(c))
  BY <1>2 DEF MarksInvariant, WritesAreFounded
<1> QED BY <1>2, <1>3, <1>4 DEF NextPut, Founded

\* What the server's step does to the tree.
LEMMA ApplyMarkTree ==
    ASSUME MarksInvariant, NEW c \in Clients, ApplyMark(c), NEW m \in Paths
    PROVE  /\ m \in sentAgain => m \in sentAgain'
           /\ tree'[m] = tree[m] \/ (NextPut(c).path = m /\ tree'[m] = NextPut(c).value)
           /\ NextPut(c).path = m => tree'[m] = NextPut(c).value
           /\ NextPut(c).path = m /\ NextPut(c).value = "unread" /\ tree[m] # Absent =>
                  m \in sentAgain'
<1>1. /\ HasNextPut(c) /\ tree' = [tree EXCEPT ![NextPut(c).path] = NextPut(c).value]
      /\ sentAgain' = IF NextPut(c).value = "unread" /\ tree[NextPut(c).path] # Absent
                      THEN sentAgain \union {NextPut(c).path} ELSE sentAgain
  BY DEF ApplyMark, Apply
<1>2. tree \in Trees
  BY PutTypes DEF MarksInvariant
<1> QED BY <1>1, <1>2 DEF Trees

\* Marked once, a message stays so, or its own write comes again.
LEMMA MarkedStays ==
    ASSUME MarksInvariant, [ReadMarksNext]_readMarksVars, NEW m \in Paths, Marked(m)
    PROVE  Marked(m)'
<1>1. CASE UNCHANGED <<tree, sentAgain>>
  BY <1>1 DEF Marked
<1>2. ASSUME NEW c \in Clients, ApplyMark(c) PROVE Marked(m)'
  <2>1. NextPut(c).value \in {"unread", "read"}
    BY <1>2, NextPutIsFounded DEF ApplyMark, Apply
  <2>2. "read" # Absent
    BY ReadMarksAssumption
  <2> QED BY <1>2, <2>1, <2>2, ApplyMarkTree DEF Marked
<1>3. UNCHANGED <<tree, sentAgain>> \/ \E c \in Clients : ApplyMark(c)
  BY DEF ReadMarksNext, Compose, OpenChat, LeaveChat, Marking, AnswerRead, SetRead, RunBlock,
         Library, Connect, Deliver, Settle, RestartPhone, Crash, Fault, Drop, Refuse,
         readMarksVars, dbVars, markVars
<1> QED BY <1>1, <1>2, <1>3

\* The server takes a user's next write, or refuses it.
LEMMA ServerPuts ==
    ASSUME MarksInvariant, NEW c \in Clients, ApplyMark(c) \/ Refuse(c), NEW u \in Clients
    PROVE  SamePuts(u) \/ OneMoreApplied(u)
<1>1. /\ applied \in [Clients -> Nat] /\ applied[u] \in Nat /\ Len(puts[u]) \in Nat
      /\ faults \in [FaultKinds -> Nat]
  BY PutTypes DEF MarksInvariant
<1>2. HasNextPut(c) /\ puts' = puts /\ applied' = [applied EXCEPT ![c] = @ + 1]
  BY DEF ApplyMark, Apply, Refuse
<1>3. CASE u # c
  BY <1>1, <1>2, <1>3 DEF SamePuts
<1>4. CASE u = c
  <2>1. /\ applied[u] + 1 <= Len(puts[u]) /\ NextPut(u) = puts[u][applied[u] + 1]
        /\ NextPut(u) \in Put
    BY <1>2, <1>4, NextPutIsFounded
  <2>2. CASE ApplyMark(c)
    <3>1. \A m \in Paths : NextPut(u).path = m /\ NextPut(u).value = "read" => Marked(m)'
      BY <1>4, <2>1, <2>2, ApplyMarkTree DEF Marked, Put
    <3> QED BY <1>1, <1>2, <1>4, <2>1, <3>1 DEF OneMoreApplied
  <2>3. CASE Refuse(c)
    <3>1. ~Unrefused'
      BY <1>1, <2>3 DEF Refuse, Spend, Unrefused, FaultKinds
    <3> QED BY <1>1, <1>2, <1>4, <2>1, <3>1 DEF OneMoreApplied
  <2> QED BY <2>2, <2>3
<1> QED BY <1>3, <1>4

LEMMA EveryStepPuts ==
    ASSUME MarksInvariant, [ReadMarksNext]_readMarksVars, NEW u \in Clients
    PROVE  SamePuts(u) \/ MorePuts(u) \/ PutsAgain(u) \/ OnePutLess(u) \/ OneMoreApplied(u)
<1>1. ASSUME UNCHANGED <<puts, applied>> PROVE SamePuts(u)
  BY <1>1 DEF SamePuts
<1>2. CASE \E m \in Paths : Compose(m)
  BY <1>2, ComposePuts
<1>3. CASE \E c \in Clients : SetRead(c)
  BY <1>3, SetReadPuts
<1>4. CASE \E c \in Clients : Connect(c) \/ Drop(c) \/ Crash(c)
  BY <1>4, AgainPuts
<1>5. CASE \E c \in Clients : Deliver(c)
  BY <1>5, DeliverPuts
<1>6. CASE \E c \in Clients : ApplyMark(c) \/ Refuse(c)
  BY <1>6, ServerPuts
<1> QED BY <1>1, <1>2, <1>3, <1>4, <1>5, <1>6
    DEF ReadMarksNext, OpenChat, LeaveChat, Marking, AnswerRead, Library, RestartPhone, Fault,
        readMarksVars, dbVars

\* Knowledge is kept: the frames that replace it hold all of it.
LEMMA KnownStays ==
    ASSUME MarksInvariant, [ReadMarksNext]_readMarksVars, NEW u \in Clients
    PROVE  Known(u) \subseteq Known(u)'
<1>1. CASE cache' = cache
  BY <1>1 DEF Known
<1>2. ASSUME NEW c \in Clients, Deliver(c) PROVE Known(u) \subseteq Known(u)'
  <2>1. /\ inbox[c] # <<>> /\ cache' = [cache EXCEPT ![c] = Head(inbox[c]).data]
        /\ cache \in [Clients -> Trees] /\ inbox[c] \in Seq(Frames)
    BY <1>2 DEF Deliver, MarksInvariant, DbTypeOK
  <2>2. Known(c) \subseteq Present(Head(inbox[c]).data)
    <3>1. Grows(inbox[c], Known(c), Present(Watched(tree, c)))
      BY DEF MarksInvariant, NothingDisappears
    <3> QED BY <2>1, <3>1, GrowsByDelivery
  <2> QED BY <2>1, <2>2 DEF Known
<1>3. cache' = cache \/ \E c \in Clients : Deliver(c)
  BY DEF ReadMarksNext, Compose, OpenChat, LeaveChat, Marking, AnswerRead, SetRead, RunBlock,
         ApplyMark, Apply, Library, Connect, RestartPhone, Crash, Fault, Drop, Refuse,
         readMarksVars, dbVars
<1> QED BY <1>1, <1>2, <1>3

\* The messages a phone knows are in what it shows.
LEMMA KnownIsInView ==
    ASSUME MarksInvariant, NEW u \in Clients, NEW m \in Known(u)
    PROVE  m \in InView(u)
<1>1. m \in Paths /\ cache[u][m] # Absent
  BY DEF Known, Present
<1>2. View(u, m) # Absent
  <2>1. CASE Pending(u, m) = {}
    BY <1>1, <2>1 DEF View
  <2>2. CASE Pending(u, m) # {}
    <3>1. PICK i \in Pending(u, m) : i = Latest(Pending(u, m))
      BY <1>1, <2>2, LatestIsPending DEF MarksInvariant
    <3>2. i \in 1..Len(puts[u])
      BY <3>1, PutTypes, LenProperties DEF Pending, MarksInvariant
    <3>3. puts[u][i].value \in {"unread", "read"}
      BY <3>2 DEF MarksInvariant, WritesAreFounded, Founded
    <3> QED BY <2>2, <3>1, <3>3, ReadMarksAssumption DEF View
  <2> QED BY <2>1, <2>2
<1> QED BY <1>1, <1>2 DEF InView

LEMMA ComposedStays ==
    ASSUME [ReadMarksNext]_readMarksVars
    PROVE  composed \subseteq composed'
BY DEF ReadMarksNext, Compose, OpenChat, LeaveChat, Marking, AnswerRead, SetRead,
       ApplyMark, Library, RestartPhone, readMarksVars, markVars

LEMMA UnreadStaysComposed ==
    ASSUME MarksInvariant, UnreadIsComposed, [ReadMarksNext]_readMarksVars
    PROVE  UnreadIsComposed'
<1> SUFFICES ASSUME NEW u \in Clients, NEW i \in 1..Len(puts'[u]), puts'[u][i].value = "unread"
             PROVE  puts'[u][i].path \in composed'
  BY DEF UnreadIsComposed
<1>1. PICK n : n \in Nat /\ n = Len(puts[u])
  BY PutTypes DEF MarksInvariant
<1>2. \A j \in 1..n : puts[u][j].value = "unread" => puts[u][j].path \in composed'
  BY <1>1, ComposedStays DEF UnreadIsComposed
<1>3. CASE SamePuts(u) \/ OneMoreApplied(u)
  BY <1>1, <1>2, <1>3 DEF SamePuts, OneMoreApplied
<1>4. CASE MorePuts(u)
  <2>1. CASE i \in 1..n
    BY <1>1, <1>2, <1>4, <2>1 DEF MorePuts
  <2>2. CASE i \notin 1..n
    BY <1>1, <1>4, <2>2 DEF MorePuts
  <2> QED BY <2>1, <2>2
<1>5. CASE PutsAgain(u)
  BY <1>1, <1>2, <1>5 DEF PutsAgain
<1>6. CASE OnePutLess(u)
  <2>1. i \in 1..(n - 1) /\ puts'[u][i] = puts[u][i + 1]
    BY <1>1, <1>6 DEF OnePutLess
  <2>2. PICK j \in 1..n : j = i + 1
    BY <1>1, <2>1
  <2> QED BY <1>2, <2>1, <2>2
<1> QED BY <1>3, <1>4, <1>5, <1>6, EveryStepPuts

LEMMA AppliedStaysMarked ==
    ASSUME MarksInvariant, AppliedIsMarked, [ReadMarksNext]_readMarksVars
    PROVE  AppliedIsMarked'
<1> SUFFICES ASSUME NEW u \in Clients
             PROVE  /\ applied'[u] <= Len(puts'[u])
                    /\ \A m \in Paths : \A i \in 1..applied'[u] :
                           Unrefused' /\ puts'[u][i].path = m /\ puts'[u][i].value = "read"
                               => Marked(m)'
  <2>1. \A u \in Clients : \A i \in 1..applied'[u] :
            applied'[u] <= Len(puts'[u]) => puts'[u][i].path \in Paths
    <3> SUFFICES ASSUME NEW u \in Clients, NEW i \in 1..applied'[u], applied'[u] <= Len(puts'[u])
                 PROVE  puts'[u][i].path \in Paths
      OBVIOUS
    <3>1. puts'[u] \in Seq(Put) /\ Len(puts'[u]) \in Nat /\ applied'[u] \in Nat
      <4>1. DbTypeOK'
        BY EveryStepKeeps DEF MarksInvariant
      <4> QED BY <4>1, LenProperties DEF DbTypeOK
    <3>2. i \in 1..Len(puts'[u])
      BY <3>1
    <3>3. puts'[u][i] \in Put
      BY <3>1, <3>2, ElementOfSeq
    <3> QED BY <3>3 DEF Put
  <2> QED BY <2>1 DEF AppliedIsMarked, Marked
<1>1. PICK n, a : n \in Nat /\ n = Len(puts[u]) /\ a \in Nat /\ a = applied[u] /\ a <= n
  BY PutTypes DEF MarksInvariant, AppliedIsMarked
<1>2. Unrefused' => \A i \in 1..a : \A m \in Paths :
          puts[u][i].path = m /\ puts[u][i].value = "read" => Marked(m)'
  BY <1>1, RefusalsStay, MarkedStays DEF AppliedIsMarked
<1>3. CASE SamePuts(u)
  BY <1>1, <1>2, <1>3 DEF SamePuts
<1>4. CASE MorePuts(u)
  <2>1. applied'[u] = a /\ a <= Len(puts'[u]) /\ \A i \in 1..a : puts'[u][i] = puts[u][i]
    <3>1. \A i \in 1..a : i \in 1..n
      BY <1>1
    <3>2. Len(puts'[u]) \in Nat
      BY EveryStepKeeps, LenProperties DEF MarksInvariant, DbTypeOK
    <3> QED BY <1>1, <1>4, <3>1, <3>2 DEF MorePuts
  <2> QED BY <1>2, <2>1
<1>5. CASE PutsAgain(u)
  BY <1>1, <1>5 DEF PutsAgain
<1>6. CASE OnePutLess(u)
  <2>1. /\ applied'[u] = a - 1 /\ a - 1 <= Len(puts'[u])
        /\ \A i \in 1..(a - 1) : puts'[u][i] = puts[u][i + 1] /\ i + 1 \in 1..a
    <3>1. \A i \in 1..(a - 1) : i \in 1..(n - 1) /\ i + 1 \in 1..a
      BY <1>1
    <3> QED BY <1>1, <1>6, <3>1 DEF OnePutLess
  <2> QED BY <1>2, <2>1
<1>7. CASE OneMoreApplied(u)
  <2>1. /\ puts'[u] = puts[u] /\ applied'[u] = a + 1 /\ a + 1 <= n
        /\ \A m \in Paths : Unrefused' /\ puts[u][a + 1].path = m /\ puts[u][a + 1].value = "read"
               => Marked(m)'
    BY <1>1, <1>7 DEF OneMoreApplied
  <2>2. \A i \in 1..(a + 1) : i \in 1..a \/ i = a + 1
    BY <1>1
  <2> QED BY <1>1, <1>2, <2>1, <2>2
<1> QED BY <1>3, <1>4, <1>5, <1>6, <1>7, EveryStepPuts

\* What a step does to the frames on their way to a phone and to its cache.
LEMMA InboxStep ==
    ASSUME MarksInvariant, [ReadMarksNext]_readMarksVars, NEW u \in Clients
    PROVE  /\ \/ inbox'[u] = inbox[u] \/ inbox'[u] = <<>>
              \/ inbox[u] # <<>> /\ inbox'[u] = Tail(inbox[u])
              \/ \E a : \/ inbox'[u] = <<Frame(tree', u, a)>>
                       \/ inbox'[u] = Append(inbox[u], Frame(tree', u, a))
           /\ \/ cache'[u] = cache[u]
              \/ inbox[u] # <<>> /\ cache'[u] = Head(inbox[u]).data
<1>1. inbox \in [Clients -> Seq(Frames)] /\ cache \in [Clients -> Trees]
  BY DEF MarksInvariant, DbTypeOK
<1>2. CASE UNCHANGED <<inbox, cache>>
  BY <1>2
<1>3. ASSUME NEW c \in Clients, Drop(c) \/ Crash(c)
      PROVE  cache' = cache /\ (inbox'[u] = inbox[u] \/ inbox'[u] = <<>>)
  BY <1>1, <1>3 DEF Drop, Crash
<1>4. ASSUME NEW c \in Clients, Connect(c)
      PROVE  cache' = cache /\ (inbox'[u] = inbox[u] \/ inbox'[u] = <<Frame(tree', u, "none")>>)
  <2>1. tree' = tree /\ cache' = cache /\ inbox' = [inbox EXCEPT ![c] = <<Frame(tree, c, "none")>>]
    BY <1>4 DEF Connect
  <2>2. Frame(tree', u, "none") = Frame(tree, u, "none")
    BY <2>1 DEF Frame, Watched
  <2> QED BY <1>1, <2>1, <2>2
<1>5. ASSUME NEW c \in Clients, Refuse(c)
      PROVE  cache' = cache /\ (inbox'[u] = inbox[u]
                 \/ inbox'[u] = Append(inbox[u], Frame(tree', u, "refused")))
  <2>1. /\ tree' = tree /\ cache' = cache
        /\ inbox' = [inbox EXCEPT ![c] = Append(@, Frame(tree, c, "refused"))]
    BY <1>5 DEF Refuse
  <2>2. Frame(tree', u, "refused") = Frame(tree, u, "refused")
    BY <2>1 DEF Frame, Watched
  <2> QED BY <1>1, <2>1, <2>2
<1>6. ASSUME NEW c \in Clients, Apply(c)
      PROVE  cache' = cache /\ (inbox'[u] = inbox[u]
                 \/ \E a : inbox'[u] = Append(inbox[u], Frame(tree', u, a)))
  BY <1>6 DEF Apply
<1>7. ASSUME NEW c \in Clients, Deliver(c)
      PROVE  \/ cache'[u] = cache[u] /\ inbox'[u] = inbox[u]
             \/ /\ inbox[u] # <<>> /\ inbox'[u] = Tail(inbox[u])
                /\ cache'[u] = Head(inbox[u]).data
  BY <1>1, <1>7 DEF Deliver
<1>8. \/ UNCHANGED <<inbox, cache>>
      \/ \E c \in Clients : \/ Drop(c) \/ Crash(c) \/ Connect(c) \/ Refuse(c) \/ Apply(c) \/ Deliver(c)
  BY DEF ReadMarksNext, Compose, OpenChat, LeaveChat, Marking, AnswerRead, SetRead, RunBlock,
         ApplyMark, Library, RestartPhone, Fault, readMarksVars, dbVars
<1> QED BY <1>2, <1>3, <1>4, <1>5, <1>6, <1>7, <1>8

\* A frame shows what the server has.
LEMMA SeenStaysMarked ==
    ASSUME MarksInvariant, SeenIsMarked, [ReadMarksNext]_readMarksVars
    PROVE  SeenIsMarked'
<1> SUFFICES ASSUME NEW u \in Clients, NEW m \in Paths
             PROVE  /\ cache'[u][m] = "read" => Marked(m)'
                    /\ \A i \in 1..Len(inbox'[u]) : inbox'[u][i].data[m] = "read" => Marked(m)'
  BY DEF SeenIsMarked
<1>1. PICK n : n \in Nat /\ n = Len(inbox[u]) /\ inbox[u] \in Seq(Frames)
  BY LenProperties DEF MarksInvariant, DbTypeOK
<1>2. \A i \in 1..n : inbox[u][i].data[m] = "read" => Marked(m)'
  BY <1>1, MarkedStays DEF SeenIsMarked
<1>3. cache[u][m] = "read" => Marked(m)'
  BY MarkedStays DEF SeenIsMarked
<1>4. inbox[u] # <<>> => 1 \in 1..n /\ Head(inbox[u]) = inbox[u][1]
  BY <1>1, HeadTailProperties, EmptySeq
<1>5. \A a : Frame(tree', u, a).data[m] = "read" => Marked(m)'
  BY ReadMarksAssumption DEF Frame, Watched, Marked
<1>6. cache'[u][m] = "read" => Marked(m)'
  <2>1. CASE cache'[u] = cache[u]
    BY <1>3, <2>1
  <2>2. CASE inbox[u] # <<>> /\ cache'[u] = Head(inbox[u]).data
    BY <1>2, <1>4, <2>2
  <2> QED BY <2>1, <2>2, InboxStep
<1>7. ASSUME NEW i \in 1..Len(inbox'[u]), inbox'[u][i].data[m] = "read" PROVE Marked(m)'
  <2>1. CASE inbox'[u] = inbox[u]
    BY <1>1, <1>2, <1>7, <2>1
  <2>2. CASE inbox'[u] = <<>>
    BY <1>7, <2>2
  <2>3. CASE inbox[u] # <<>> /\ inbox'[u] = Tail(inbox[u])
    <3>1. Len(Tail(inbox[u])) = n - 1 /\ \A j \in 1..(n - 1) : Tail(inbox[u])[j] = inbox[u][j + 1]
      BY <1>1, <2>3, HeadTailProperties
    <3>2. i \in 1..(n - 1) /\ i + 1 \in 1..n
      BY <1>1, <1>7, <2>3, <3>1
    <3> QED BY <1>2, <1>7, <2>3, <3>1, <3>2
  <2>4. ASSUME NEW a, inbox'[u] = <<Frame(tree', u, a)>> PROVE Marked(m)'
    <3>1. i = 1
      BY <1>7, <2>4
    <3> QED BY <1>5, <1>7, <2>4, <3>1
  <2>5. ASSUME NEW a, inbox'[u] = Append(inbox[u], Frame(tree', u, a)) PROVE Marked(m)'
    <3>1. /\ Len(inbox'[u]) = n + 1 /\ inbox'[u][n + 1] = Frame(tree', u, a)
          /\ \A j \in 1..n : inbox'[u][j] = inbox[u][j]
      BY <1>1, <2>5
    <3>2. i \in 1..n \/ i = n + 1
      BY <1>1, <3>1
    <3> QED BY <1>2, <1>5, <1>7, <3>1, <3>2
  <2> QED BY <2>1, <2>2, <2>3, <2>4, <2>5, InboxStep
<1> QED BY <1>6, <1>7

\* What the app's steps do to the reads a phone wants and to the messages its
\* chat showed.
LEMMA ScreenStep ==
    ASSUME MarksInvariant, ReadMarksTypeOK, [ReadMarksNext]_readMarksVars, NEW u \in Clients
    PROVE  \/ /\ shown'[u] = FromPeer(u, InView(u)) /\ wanted'[u] > 0
           \/ /\ shown'[u] = shown[u]
              /\ \/ lost'[u] = lost[u] /\ (wanted'[u] >= wanted[u] \/ AnswerRead(u))
                 \/ RestartPhone(u)
<1>1. /\ shown \in [Clients -> SUBSET Paths] /\ lost \in [Clients -> SUBSET Paths]
      /\ wanted \in [Clients -> Nat] /\ wanted[u] \in Nat
  BY DEF ReadMarksTypeOK
<1>2. ASSUME NEW c \in Clients, LeaveChat(c)
      PROVE  \/ shown'[u] = FromPeer(u, InView(u)) /\ wanted'[u] > 0
             \/ shown'[u] = shown[u] /\ lost'[u] = lost[u] /\ wanted'[u] >= wanted[u]
  BY <1>1, <1>2 DEF LeaveChat, Ask
<1>3. ASSUME NEW c \in Clients, OpenChat(c)
      PROVE  shown' = shown /\ lost' = lost /\ wanted'[u] >= wanted[u]
  BY <1>1, <1>3 DEF OpenChat, Ask
<1>4. ASSUME NEW c \in Clients, AnswerRead(c)
      PROVE  shown' = shown /\ lost' = lost /\ (wanted'[u] >= wanted[u] \/ AnswerRead(u))
  <2>1. shown' = shown /\ lost' = lost /\ wanted' = [wanted EXCEPT ![c] = @ - 1]
    BY <1>4 DEF AnswerRead
  <2>2. CASE u = c
    BY <1>4, <2>1, <2>2
  <2>3. CASE u # c
    BY <1>1, <2>1, <2>3
  <2> QED BY <2>2, <2>3
<1>5. ASSUME NEW c \in Clients, RestartPhone(c)
      PROVE  /\ shown' = shown
             /\ RestartPhone(u) \/ (lost'[u] = lost[u] /\ wanted'[u] = wanted[u])
  BY <1>1, <1>5 DEF RestartPhone
<1>6. CASE UNCHANGED <<shown, lost, wanted>>
  BY <1>1, <1>6
<1>7. \/ UNCHANGED <<shown, lost, wanted>>
      \/ \E c \in Clients : OpenChat(c) \/ LeaveChat(c) \/ AnswerRead(c) \/ RestartPhone(c)
  BY DEF ReadMarksNext, Compose, Marking, SetRead, ApplyMark, Library, markVars, readMarksVars
<1>8. wanted'[u] = wanted[u] => wanted'[u] >= wanted[u]
  BY <1>1
<1> QED BY <1>1, <1>2, <1>3, <1>4, <1>5, <1>6, <1>7, <1>8

LEMMA MarksTypeStays ==
    ASSUME MarksInvariant, MarksInvariant', ReadMarksTypeOK, UnreadIsComposed,
           [ReadMarksNext]_readMarksVars
    PROVE  ReadMarksTypeOK'
<1>1. /\ composed \subseteq Paths /\ chatOpen \in [Clients -> BOOLEAN]
      /\ visits \in [Clients -> Nat] /\ wanted \in [Clients -> Nat]
      /\ shown \in [Clients -> SUBSET Paths] /\ lost \in [Clients -> SUBSET Paths]
      /\ sentAgain \subseteq composed
  BY DEF ReadMarksTypeOK
<1> DEFINE Own == /\ composed \subseteq Paths /\ chatOpen \in [Clients -> BOOLEAN]
                  /\ visits \in [Clients -> Nat] /\ wanted \in [Clients -> Nat]
                  /\ shown \in [Clients -> SUBSET Paths] /\ lost \in [Clients -> SUBSET Paths]
                  /\ sentAgain \subseteq composed
<1>2. ASSUME UNCHANGED markVars PROVE Own'
  <2>1. /\ composed' = composed /\ chatOpen' = chatOpen /\ visits' = visits
        /\ wanted' = wanted /\ shown' = shown /\ lost' = lost /\ sentAgain' = sentAgain
    BY <1>2 DEF markVars
  <2> QED BY <1>1, <2>1
<1>3. ASSUME NEW m \in Paths, Compose(m) PROVE Own'
  BY <1>1, <1>3 DEF Compose
<1>4. ASSUME NEW u \in Clients, OpenChat(u) \/ AnswerRead(u) PROVE Own'
  <2>1. wanted[u] \in Nat /\ visits[u] \in Nat
    BY <1>1
  <2>2. CASE OpenChat(u)
    BY <1>1, <2>1, <2>2 DEF OpenChat, Ask
  <2>3. CASE AnswerRead(u)
    <3>1. wanted[u] - 1 \in Nat
      BY <2>1, <2>3 DEF AnswerRead
    <3> QED BY <1>1, <2>3, <3>1 DEF AnswerRead
  <2> QED BY <1>4, <2>2, <2>3
<1>5. ASSUME NEW u \in Clients, LeaveChat(u) PROVE Own'
  <2>1. FromPeer(u, InView(u)) \in SUBSET Paths
    BY DEF FromPeer, InView
  <2> QED BY <1>1, <1>5, <2>1 DEF LeaveChat, Ask
<1>6. ASSUME NEW u \in Clients, RestartPhone(u) PROVE Own'
  <2>1. {m \in shown[u] : View(u, m) # "read"} \in SUBSET Paths
    BY <1>1
  <2>2. lost' \in [Clients -> SUBSET Paths]
    BY <1>1, <1>6, <2>1 DEF RestartPhone
  <2> QED BY <1>1, <1>6, <2>2 DEF RestartPhone
<1>7. ASSUME NEW u \in Clients, ApplyMark(u) PROVE Own'
  <2>1. /\ applied[u] + 1 \in 1..Len(puts[u]) /\ NextPut(u) = puts[u][applied[u] + 1]
    BY <1>7, NextPutIsFounded DEF ApplyMark, Apply
  <2>2. NextPut(u).value = "unread" => NextPut(u).path \in composed
    BY <2>1 DEF UnreadIsComposed
  <2> QED BY <1>1, <1>7, <2>2 DEF ApplyMark
<1>8. \/ UNCHANGED markVars
      \/ \E m \in Paths : Compose(m)
      \/ \E u \in Clients : OpenChat(u) \/ AnswerRead(u)
      \/ \E u \in Clients : LeaveChat(u)
      \/ \E u \in Clients : RestartPhone(u)
      \/ \E u \in Clients : ApplyMark(u)
  BY DEF ReadMarksNext, Marking, SetRead, Library, readMarksVars
<1>9. Own'
  <2> HIDE DEF Own
  <2> QED BY <1>2, <1>3, <1>4, <1>5, <1>6, <1>7, <1>8
<1> QED BY <1>9 DEF ReadMarksTypeOK, MarksInvariant

LEMMA ShownStaysKnown ==
    ASSUME MarksInvariant, ReadMarksTypeOK, ShownIsKnown, [ReadMarksNext]_readMarksVars
    PROVE  ShownIsKnown'
<1> SUFFICES ASSUME NEW u \in Clients, NEW m \in shown'[u]
             PROVE  m \in FromPeer(u, Known(u)')
  BY DEF ShownIsKnown, FromPeer
<1>1. Known(u) \subseteq Known(u)'
  BY KnownStays
<1>2. m \in shown[u] \/ m \in FromPeer(u, InView(u))
  BY ScreenStep
<1>3. m \in FromPeer(u, Known(u))
  BY <1>2, PeersAreKnown DEF ShownIsKnown, FromPeer
<1> QED BY <1>1, <1>3 DEF FromPeer

\* An outstanding mark goes on being outstanding until it has been applied.
LEMMA MarkStays ==
    ASSUME MarksInvariant, AppliedIsMarked, [ReadMarksNext]_readMarksVars, Unrefused',
           NEW u \in Clients, NEW m \in Paths, InPut(u, m)
    PROVE  InPut(u, m)' \/ Marked(m)'
<1>1. PICK n : n \in Nat /\ n = Len(puts[u])
  BY PutTypes DEF MarksInvariant
<1>2. PICK i \in 1..n : puts[u][i].path = m /\ puts[u][i].value = "read"
  BY <1>1 DEF InPut
<1>3. ASSUME NEW k \in 1..Len(puts'[u]), puts'[u][k].path = m, puts'[u][k].value = "read"
      PROVE  InPut(u, m)'
  BY <1>3 DEF InPut
<1>4. CASE SamePuts(u) \/ OneMoreApplied(u)
  BY <1>1, <1>2, <1>3, <1>4 DEF SamePuts, OneMoreApplied
<1>5. CASE MorePuts(u)
  <2>1. Len(puts'[u]) \in Nat
    BY EveryStepKeeps, LenProperties DEF MarksInvariant, DbTypeOK
  <2>2. i \in 1..Len(puts'[u]) /\ puts'[u][i] = puts[u][i]
    BY <1>1, <1>5, <2>1 DEF MorePuts
  <2> QED BY <1>2, <1>3, <2>2
<1>6. CASE PutsAgain(u)
  BY <1>1, <1>2, <1>3, <1>6 DEF PutsAgain
<1>7. CASE OnePutLess(u)
  <2>1. applied[u] > 0 /\ Len(puts'[u]) = n - 1 /\ \A k \in 1..(n - 1) : puts'[u][k] = puts[u][k + 1]
    BY <1>1, <1>7 DEF OnePutLess
  <2>2. CASE i = 1
    <3>1. 1 \in 1..applied[u]
      BY <2>1, PutTypes DEF MarksInvariant
    <3>2. Unrefused
      BY RefusalsStay
    <3>3. Marked(m)
      BY <1>2, <2>2, <3>1, <3>2 DEF AppliedIsMarked
    <3> QED BY <3>3, MarkedStays
  <2>3. CASE i # 1
    <3>1. PICK k \in 1..(n - 1) : i = k + 1
      BY <1>1, <2>3
    <3> QED BY <1>2, <1>3, <2>1, <3>1
  <2> QED BY <2>2, <2>3
<1> QED BY <1>4, <1>5, <1>6, <1>7, EveryStepPuts

\* A block keeps until it runs; then what it found of a peer's is marked.
LEMMA BlockStays ==
    ASSUME MarksInvariant, ReadMarksTypeOK, [ReadMarksNext]_readMarksVars,
           NEW u \in Clients, NEW m \in Paths, Author[m] # u, InBlock(u, m)
    PROVE  InBlock(u, m)' \/ InPut(u, m)' \/ RestartPhone(u)
<1>0. blocks[u] \in Seq(Block)
  BY PutTypes DEF MarksInvariant
<1>1. PICK n : n \in Nat /\ n = Len(blocks[u])
  BY PutTypes DEF MarksInvariant
<1>2. PICK i \in 1..n : m \in blocks[u][i].caller.found
  BY <1>1 DEF InBlock
<1>3. CASE blocks'[u] = blocks[u]
  BY <1>1, <1>2, <1>3 DEF InBlock
<1>4. ASSUME NEW b, blocks'[u] = Append(blocks[u], b) PROVE InBlock(u, m)'
  <2>1. Len(blocks'[u]) = n + 1 /\ blocks'[u][i] = blocks[u][i]
    BY <1>0, <1>1, <1>4
  <2>2. i \in 1..Len(blocks'[u])
    BY <1>1, <2>1
  <2> QED BY <1>2, <2>1, <2>2 DEF InBlock
<1>5. CASE SetRead(u)
  <2>1. blocks \in [Clients -> Seq(Block)] /\ blocks[u] # <<>>
    BY <1>5, PutTypes DEF SetRead, RunBlock, MarksInvariant
  <2>2. blocks'[u] = Tail(blocks[u])
    BY <1>5, <2>1 DEF SetRead, RunBlock
  <2>3. CASE i = 1
    <3>1. m \in FromPeer(u, blocks[u][1].caller.found)
      BY <1>2, <2>3 DEF FromPeer
    <3> QED BY <1>5, <3>1, SetReadPuts
  <2>4. CASE i # 1
    <3>1. PICK k \in 1..(n - 1) : i = k + 1
      BY <1>1, <2>4
    <3>2. Len(Tail(blocks[u])) = n - 1 /\ Tail(blocks[u])[k] = blocks[u][k + 1]
      BY <1>0, <1>1, <2>1, <3>1, HeadTailProperties
    <3>3. k \in 1..Len(blocks'[u]) /\ blocks'[u][k] = blocks[u][i]
      BY <2>2, <3>1, <3>2
    <3> QED BY <1>2, <3>3 DEF InBlock
  <2> QED BY <2>3, <2>4
<1>6. CASE RestartPhone(u)
  BY <1>6
<1>7. \/ blocks'[u] = blocks[u] \/ SetRead(u) \/ RestartPhone(u)
      \/ \E b : blocks'[u] = Append(blocks[u], b)
  <2>1. blocks \in [Clients -> Seq(Block)] /\ puts \in [Clients -> Seq(Put)]
    BY PutTypes DEF MarksInvariant
  <2>2. CASE blocks' = blocks
    BY <2>2
  <2>3. ASSUME NEW c \in Clients, SetRead(c) PROVE blocks'[u] = blocks[u] \/ SetRead(u)
    BY <2>1, <2>3 DEF SetRead, RunBlock
  <2>4. ASSUME NEW c \in Clients, RestartPhone(c) PROVE blocks'[u] = blocks[u] \/ RestartPhone(u)
    BY <2>1, <2>4 DEF RestartPhone, Crash
  <2>5. ASSUME NEW c \in Clients, AnswerRead(c)
        PROVE  blocks'[u] = blocks[u] \/ \E b : blocks'[u] = Append(blocks[u], b)
    BY <2>1, <2>5 DEF AnswerRead
  <2>6. ASSUME NEW c \in Clients, Deliver(c)
        PROVE  blocks'[u] = blocks[u] \/ \E b : blocks'[u] = Append(blocks[u], b)
    <3>1. blocks' = blocks \/ \E b : blocks' = [blocks EXCEPT ![c] = Append(@, b)]
      BY <2>6 DEF Deliver, Settle
    <3> QED BY <2>1, <3>1
  <2> QED BY <2>2, <2>3, <2>4, <2>5, <2>6
      DEF ReadMarksNext, Compose, OpenChat, LeaveChat, Marking, ApplyMark, Apply, Library,
          Connect, Fault, Drop, Refuse, readMarksVars, dbVars
<1> QED BY <1>3, <1>4, <1>5, <1>6, <1>7

\* A read that is answered puts what the phone knows into a block.
LEMMA AnswerFinds ==
    ASSUME MarksInvariant, NEW u \in Clients, AnswerRead(u), NEW m \in Known(u)
    PROVE  InBlock(u, m)'
<1>1. blocks \in [Clients -> Seq(Block)] /\ blocks[u] \in Seq(Block) /\ Len(blocks[u]) \in Nat
  BY PutTypes DEF MarksInvariant
<1>2. PICK b : b.caller.found = InView(u) /\ blocks' = [blocks EXCEPT ![u] = Append(@, b)]
  BY DEF AnswerRead
<1>3. blocks'[u] = Append(blocks[u], b)
  BY <1>1, <1>2
<1>4. Len(blocks'[u]) = Len(blocks[u]) + 1 /\ blocks'[u][Len(blocks[u]) + 1] = b
  BY <1>1, <1>3
<1>5. Len(blocks[u]) + 1 \in 1..Len(blocks'[u])
  BY <1>1, <1>4
<1>6. m \in InView(u)
  BY KnownIsInView
<1> QED BY <1>2, <1>4, <1>5, <1>6 DEF InBlock

\* What a phone sees as read is marked, or its mark is outstanding.
LEMMA SeenIsFollowed ==
    ASSUME MarksInvariant, SeenIsMarked, NEW u \in Clients, NEW m \in Paths, View(u, m) = "read"
    PROVE  InPut(u, m) \/ Marked(m)
<1>1. CASE Pending(u, m) = {}
  BY <1>1 DEF View, SeenIsMarked
<1>2. CASE Pending(u, m) # {}
  <2>1. PICK i \in Pending(u, m) : i = Latest(Pending(u, m))
    BY <1>2, LatestIsPending DEF MarksInvariant
  <2>2. i \in 1..Len(puts[u]) /\ puts[u][i].path = m
    BY <2>1, PutTypes, LenProperties DEF Pending, MarksInvariant
  <2> QED BY <1>2, <2>1, <2>2 DEF View, InPut
<1> QED BY <1>1, <1>2

\* A process that ends loses what it was about to mark; what it had marked, or
\* had seen as read, is followed as before.
LEMMA RestartFollows ==
    ASSUME MarksInvariant, ReadMarksTypeOK, AppliedIsMarked, SeenIsMarked, Unrefused',
           [ReadMarksNext]_readMarksVars, NEW u \in Clients, NEW m \in shown[u], m \in Paths,
           RestartPhone(u), Followed(u, m)
    PROVE  Followed(u, m)'
<1>1. lost \in [Clients -> SUBSET Paths] /\ wanted[u] \in Nat
  BY DEF ReadMarksTypeOK
<1>2. InPut(u, m) \/ Marked(m) => InPut(u, m)' \/ Marked(m)'
  BY MarkStays, MarkedStays
<1>3. CASE wanted[u] = 0 /\ blocks[u] = <<>>
  <2>1. lost' = lost
    BY <1>3 DEF RestartPhone
  <2>2. ~(wanted[u] > 0) /\ ~InBlock(u, m)
    BY <1>3 DEF InBlock
  <2> QED BY <1>2, <2>1, <2>2 DEF Followed
<1>4. CASE ~(wanted[u] = 0 /\ blocks[u] = <<>>)
  <2>1. lost'[u] = {k \in shown[u] : View(u, k) # "read"}
    BY <1>1, <1>4 DEF RestartPhone
  <2>2. CASE View(u, m) # "read"
    BY <2>1, <2>2 DEF Followed
  <2>3. CASE View(u, m) = "read"
    BY <1>2, <2>3, SeenIsFollowed DEF Followed
  <2> QED BY <2>2, <2>3
<1> QED BY <1>3, <1>4

LEMMA ShownStaysFollowed ==
    ASSUME MarksInvariant, ReadMarksTypeOK, UnreadIsComposed, ShownIsKnown, AppliedIsMarked,
           SeenIsMarked, ShownIsFollowed, [ReadMarksNext]_readMarksVars
    PROVE  ShownIsFollowed'
<1> SUFFICES ASSUME Unrefused', NEW u \in Clients, NEW m \in shown'[u]
             PROVE  Followed(u, m)'
  BY DEF ShownIsFollowed
<1>1. CASE wanted'[u] > 0
  BY <1>1 DEF Followed
<1>2. CASE ~(wanted'[u] > 0)
  <2>1. /\ m \in shown[u]
        /\ \/ lost'[u] = lost[u] /\ (wanted'[u] >= wanted[u] \/ AnswerRead(u))
           \/ RestartPhone(u)
    BY <1>2, ScreenStep
  <2>2. m \in Known(u) /\ m \in Paths /\ Author[m] # u
    BY <2>1 DEF ShownIsKnown, FromPeer, Known, Present
  <2>3. Followed(u, m)
    BY <2>1, RefusalsStay DEF ShownIsFollowed
  <2>4. CASE RestartPhone(u)
    BY <2>1, <2>2, <2>3, <2>4, RestartFollows
  <2>5. CASE ~RestartPhone(u)
    <3>1. m \in lost[u] => m \in lost'[u]
      BY <2>1, <2>5
    <3>2. wanted[u] > 0 => InBlock(u, m)'
      <4>1. wanted[u] \in Nat /\ wanted'[u] \in Nat
        BY EveryStepKeeps, MarksTypeStays DEF ReadMarksTypeOK
      <4>2. wanted[u] > 0 => AnswerRead(u)
        BY <1>2, <2>1, <2>5, <4>1
      <4> QED BY <2>2, <4>2, AnswerFinds
    <3>3. InBlock(u, m) => InBlock(u, m)' \/ InPut(u, m)'
      BY <2>2, <2>5, BlockStays
    <3>4. InPut(u, m) => InPut(u, m)' \/ Marked(m)'
      BY <2>2, MarkStays
    <3>5. Marked(m) => Marked(m)'
      BY <2>2, MarkedStays
    <3> QED BY <2>3, <3>1, <3>2, <3>3, <3>4, <3>5 DEF Followed
  <2> QED BY <2>4, <2>5
<1> QED BY <1>1, <1>2

LEMMA LeftInvariantHolds == ReadMarksSpec => [](MarksInvariant /\ LeftInvariant)
<1>1. ReadMarksInit => LeftInvariant
  <2> SUFFICES ASSUME ReadMarksInit PROVE LeftInvariant
    OBVIOUS
  <2>1. /\ DbTypeOK /\ \A u \in Clients : Len(puts[u]) = 0 /\ applied[u] = 0 /\ shown[u] = {}
    BY InitType DEF ReadMarksInit, DbInit
  <2>2. ReadMarksTypeOK
    BY <2>1 DEF ReadMarksInit, ReadMarksTypeOK
  <2>3. \A u \in Clients : Len(inbox[u]) = 0 /\ \A m \in Paths : cache[u][m] # "read"
    BY ReadMarksAssumption DEF ReadMarksInit, DbInit
  <2>4. SeenIsMarked
    BY <2>3 DEF SeenIsMarked
  <2> QED BY <2>1, <2>2, <2>4
      DEF LeftInvariant, UnreadIsComposed, ShownIsKnown, AppliedIsMarked, ShownIsFollowed
<1>2. MarksInvariant /\ MarksInvariant' /\ LeftInvariant /\ [ReadMarksNext]_readMarksVars
          => LeftInvariant'
  BY MarksTypeStays, UnreadStaysComposed, ShownStaysKnown, AppliedStaysMarked, SeenStaysMarked,
     ShownStaysFollowed
     DEF LeftInvariant
<1> QED BY <1>1, <1>2, MarksInvariantHolds, PTL DEF ReadMarksSpec

\* Through messages written, marked and sent again, restarts and everything in
\* between, all variables of the model keep their types.
THEOREM MarksTypeCorrect == ReadMarksSpec => []ReadMarksTypeOK
BY LeftInvariantHolds, PTL DEF LeftInvariant

\* After a chat was left and everything settled, every message it showed is
\* read for its sender too, was itself written again, or was about to be marked
\* when the reader's process ended: no lost answer, overtaking read, restart of
\* the author or restart of the reader after its closures ran loses a mark
\* (markMessagesRead, viewWillDisappear).
THEOREM LeavingMarks == ReadMarksSpec => []LeftMeansRead
<1>1. MarksInvariant /\ LeftInvariant => LeftMeansRead
  <2> SUFFICES ASSUME MarksInvariant, LeftInvariant, Quiet, Unrefused,
                      NEW u \in Clients, Settled(u), NEW m \in shown[u] \ lost[u]
               PROVE  m \in sentAgain \/ tree[m] = "read"
    BY DEF LeftMeansRead, Unrefused
  <2>1. Followed(u, m)
    BY DEF LeftInvariant, ShownIsFollowed
  <2>2. wanted[u] = 0 /\ Len(blocks[u]) = 0 /\ Len(puts[u]) = 0
    BY DEF Settled, Quiet
  <2> QED BY <2>1, <2>2 DEF Followed, InBlock, InPut, Marked
<1> QED BY <1>1, LeftInvariantHolds, PTL
=============================================================================

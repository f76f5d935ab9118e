------------------------------ MODULE Session -------------------------------
(***************************************************************************)
(* Who is signed in on one phone: registration, login, start-up and        *)
(* log-out.  Three things have to agree: the session the Firebase library  *)
(* keeps, the credentials the app keeps to sign in at the next start, and  *)
(* the screen.  They change at different times: the library changes its    *)
(* session on its own queue, the app stores the credentials in a callback  *)
(* on the main queue, and the screen changes in a later block there.       *)
(***************************************************************************)
EXTENDS Naturals, Sequences, FiniteSets

CONSTANTS
    Accounts,
    NoOne,          \* no account
    MaxTaps,        \* how often the buttons are tapped
    MaxStarts       \* how often the app is started again

ASSUME SessionAssumption ==
    NoOne \notin Accounts /\ MaxTaps \in Nat /\ MaxStarts \in Nat

VARIABLES
    session,        \* Auth.auth().currentUser; kept over restarts
    stored,         \* userInformation in UserDefaults; kept over restarts
    screen,         \* what the window shows
    window,         \* number of the window; each pushTo makes a new one
    formEnabled,    \* isUserInteractionEnabled of the welcome screen
    calls,          \* calls that were not answered yet
    main,           \* blocks on the main queue
    taps, starts,
    entered,        \* accounts entered since the last log-out, or then still under way
    tangled,        \* a call was made or a log-out ran while another was under way
    silent          \* a step of a registration failed, which calls nobody back

sessionVars == <<session, stored, screen, window, formEnabled, calls, main,
                 taps, starts, entered, tangled, silent>>

Kinds == {"start", "login", "create", "picture", "link", "profile"}
Call == [kind : Kinds, account : Accounts, window : Nat, tap : Nat]
SessionBlock ==
    [do : {"callback", "answer"}, call : Call, ok : BOOLEAN]
        \union [do : {"logout", "forget"}]

SessionTypeOK ==
    /\ session \in Accounts \union {NoOne}
    /\ stored \in Accounts \union {NoOne}
    /\ screen \in {"initial", "welcome", "conversations"}
    /\ window \in Nat
    /\ formEnabled \in BOOLEAN
    /\ calls \in SUBSET Call
    /\ main \in Seq(SessionBlock)
    /\ taps \in Nat /\ starts \in Nat
    /\ entered \subseteq Accounts
    /\ tangled \in BOOLEAN /\ silent \in BOOLEAN

\* The app was just installed: nothing is stored, the welcome screen is shown.
SessionInit ==
    /\ session = NoOne /\ stored = NoOne
    /\ screen = "welcome" /\ window = 0 /\ formEnabled = TRUE
    /\ calls = {} /\ main = <<>>
    /\ taps = 0 /\ starts = 0
    /\ entered = {} /\ tangled = FALSE /\ silent = FALSE

-----------------------------------------------------------------------------
Idle == calls = {} /\ main = <<>>

\* The next block on the main queue, and the call it answers.
Runs(what) == main # <<>> /\ Head(main).do = what
Current == Head(main).call

\* The main thread is inside logOutUser, between its two removals.
Busy == Runs("forget")

\* appDelegate.pushTo, and pushTo of the initial screen.
PushTo(s) ==
    /\ screen' = s
    /\ window' = window + 1
    /\ formEnabled' = TRUE

Post(block) == main' = Append(main, block)
Callback(c, ok) == [do |-> "callback", call |-> c, ok |-> ok]
Answer(c, ok) == [do |-> "answer", call |-> c, ok |-> ok]

Tap ==
    /\ taps < MaxTaps
    /\ taps' = taps + 1

Started(kind, a) == [kind |-> kind, account |-> a, window |-> window, tap |-> taps]

\* WelcomeVC.login and register.  Only a registration disables the form.
TapButton(kind, a) ==
    /\ screen = "welcome" /\ formEnabled /\ ~Busy
    /\ Tap
    /\ calls' = calls \union {Started(kind, a)}
    /\ formEnabled' = (kind = "login")
    /\ entered' = entered \union {a}
    /\ tangled' = (tangled \/ ~Idle)
    /\ UNCHANGED <<session, stored, screen, window, main, starts, silent>>

\* AccountViewController.proceedLogOut and ConversationsVC.logOut.
TapLogOut ==
    /\ screen = "conversations" /\ ~Busy
    /\ Tap
    /\ Post([do |-> "logout"])
    /\ UNCHANGED <<session, stored, screen, window, formEnabled, calls, starts,
                   entered, tangled, silent>>

-----------------------------------------------------------------------------
(* Answers from the network *)

\* A sign-in or the creation of an account succeeds: the library changes its
\* session first, and then dispatches the callback.
SignedIn(c) ==
    /\ c \in calls /\ c.kind \in {"start", "login", "create"}
    /\ session' = c.account
    /\ calls' = calls \ {c}
    /\ Post(Callback(c, TRUE))
    /\ UNCHANGED <<stored, screen, window, formEnabled, taps, starts, entered, tangled, silent>>

\* It fails, for whatever reason: the session is left as it was.
NotSignedIn(c) ==
    /\ c \in calls /\ c.kind \in {"start", "login", "create"}
    /\ calls' = calls \ {c}
    /\ Post(Callback(c, FALSE))
    /\ UNCHANGED <<session, stored, screen, window, formEnabled, taps, starts,
                   entered, tangled, silent>>

\* The picture was uploaded and its address was read: the next call is made.
\* These completions, and those of Database, run on the main thread.
NextStep == [picture |-> "link", link |-> "profile"]

StepDone(c) ==
    /\ c \in calls /\ c.kind \in {"picture", "link"}
    /\ ~Busy
    /\ calls' = (calls \ {c}) \union {[c EXCEPT !.kind = NextStep[c.kind]]}
    /\ UNCHANGED <<session, stored, screen, window, formEnabled, main, taps, starts,
                   entered, tangled, silent>>

\* The profile was written: only now are the credentials stored.
ProfileWritten(c) ==
    /\ c \in calls /\ c.kind = "profile"
    /\ ~Busy
    /\ calls' = calls \ {c}
    /\ stored' = c.account
    /\ Post(Answer(c, TRUE))
    /\ UNCHANGED <<session, screen, window, formEnabled, taps, starts, entered, tangled, silent>>

\* An upload or a write fails: no completion is called.
StepFails(c) ==
    /\ c \in calls /\ c.kind \in {"picture", "link", "profile"}
    /\ ~Busy
    /\ calls' = calls \ {c}
    /\ silent' = TRUE
    /\ UNCHANGED <<session, stored, screen, window, formEnabled, main, taps, starts,
                   entered, tangled>>

Answered(c) ==
    SignedIn(c) \/ NotSignedIn(c) \/ StepDone(c) \/ ProfileWritten(c) \/ StepFails(c)

-----------------------------------------------------------------------------
(* Blocks on the main queue *)

\* Faulty LoginCalledBack: the credentials are not stored.
LoginForgotten ==
    /\ Runs("callback") /\ Current.kind \in {"start", "login"}
    /\ main' = Append(Tail(main), Answer(Current, Head(main).ok))
    /\ UNCHANGED <<session, stored, screen, window, formEnabled, calls, taps, starts,
                   entered, tangled, silent>>

\* The callback of signIn stores the credentials and answers the screen.
LoginCalledBack ==
    /\ Runs("callback") /\ Current.kind \in {"start", "login"}
    /\ stored' = IF Head(main).ok THEN Current.account ELSE stored
    /\ main' = Append(Tail(main), Answer(Current, Head(main).ok))
    /\ UNCHANGED <<session, screen, window, formEnabled, calls, taps, starts,
                   entered, tangled, silent>>

\* Faulty CreateCalledBack: nobody is told of a failure.
CreateFailureDropped ==
    /\ Runs("callback") /\ Current.kind = "create"
    /\ calls' = IF Head(main).ok THEN calls \union {[Current EXCEPT !.kind = "picture"]}
                ELSE calls
    /\ main' = Tail(main)
    /\ UNCHANGED <<session, stored, screen, window, formEnabled, taps, starts,
                   entered, tangled, silent>>

\* The callback of createUser starts the upload of the picture.
CreateCalledBack ==
    /\ Runs("callback") /\ Current.kind = "create"
    /\ IF Head(main).ok
       THEN /\ calls' = calls \union {[Current EXCEPT !.kind = "picture"]}
            /\ main' = Tail(main)
       ELSE /\ main' = Append(Tail(main), Answer(Current, FALSE))
            /\ UNCHANGED calls
    /\ UNCHANGED <<session, stored, screen, window, formEnabled, taps, starts,
                   entered, tangled, silent>>

\* The initial screen goes on to one of the others.
StartAnswered ==
    /\ Runs("answer") /\ Current.kind = "start"
    /\ PushTo(IF Head(main).ok THEN "conversations" ELSE "welcome")
    /\ main' = Tail(main)
    /\ UNCHANGED <<session, stored, calls, taps, starts, entered, tangled, silent>>

\* Faulty FormAnswered: whatever window there is shows the conversations.
FormAnsweredAnywhere ==
    /\ Runs("answer") /\ Current.kind # "start"
    /\ screen' = IF Head(main).ok THEN "conversations" ELSE screen
    /\ formEnabled' = (formEnabled \/ Current.kind # "login")
    /\ main' = Tail(main)
    /\ UNCHANGED <<session, stored, window, calls, taps, starts, entered, tangled, silent>>

\* The welcome screen shows the conversations, when it is still in the window.
\* The answer to a registration enables its form again.
FormAnswered ==
    /\ Runs("answer") /\ Current.kind # "start"
    /\ LET mine == Current.window = window
       IN  /\ screen' = IF mine /\ Head(main).ok THEN "conversations" ELSE screen
           /\ formEnabled' = (formEnabled \/ (mine /\ Current.kind # "login"))
    /\ main' = Tail(main)
    /\ UNCHANGED <<session, stored, window, calls, taps, starts, entered, tangled, silent>>

\* logOutUser begins: signOut ends the session, and the library stores that.
SignOut ==
    /\ Runs("logout")
    /\ session' = NoOne
    /\ main' = <<[do |-> "forget"]>> \o Tail(main)
    /\ tangled' = (tangled \/ calls # {} \/ Tail(main) # <<>>)
    /\ UNCHANGED <<stored, screen, window, formEnabled, calls, taps, starts, entered, silent>>

\* The accounts whose calls or answers a log-out leaves under way.
StillUnderWay ==
    {c.account : c \in calls}
        \union {main[i].call.account :
                  i \in {j \in 1..Len(main) : main[j].do \in {"callback", "answer"}}}

\* Faulty Forget: the credentials stay.
ForgetNothing ==
    /\ Busy
    /\ PushTo("welcome")
    /\ main' = Tail(main)
    /\ entered' = StillUnderWay
    /\ UNCHANGED <<session, stored, calls, taps, starts, tangled, silent>>

\* It goes on in the same block: the credentials are removed and the welcome
\* screen is shown.  The process may have ended in between, and answers from
\* the network have come.
Forget ==
    /\ Busy
    /\ stored' = NoOne
    /\ PushTo("welcome")
    /\ main' = Tail(main)
    /\ entered' = StillUnderWay
    /\ UNCHANGED <<session, calls, taps, starts, tangled, silent>>

\* signOut throws: nothing changes.
LogOutFails ==
    /\ Runs("logout")
    /\ main' = Tail(main)
    /\ UNCHANGED <<session, stored, screen, window, formEnabled, calls, taps, starts,
                   entered, tangled, silent>>

RunMain ==
    \/ LoginCalledBack \/ CreateCalledBack
    \/ StartAnswered \/ FormAnswered
    \/ SignOut \/ Forget \/ LogOutFails

\* The process ends and is started again: calls and blocks are gone, session
\* and credentials are not.  InitialViewController signs in with what is stored.
StartAgain ==
    /\ starts < MaxStarts
    /\ starts' = starts + 1
    /\ main' = <<>>
    /\ window' = window + 1
    /\ formEnabled' = TRUE
    /\ IF stored = NoOne
       THEN screen' = "welcome" /\ calls' = {}
       ELSE /\ screen' = "initial"
            /\ calls' = {[kind |-> "start", account |-> stored,
                          window |-> window + 1, tap |-> taps]}
    /\ UNCHANGED <<session, stored, taps, entered, tangled, silent>>

SessionNext ==
    \/ \E a \in Accounts : TapButton("login", a) \/ TapButton("create", a)
    \/ TapLogOut
    \/ \E c \in calls : Answered(c)
    \/ RunMain
    \/ StartAgain

\* A call is answered or fails, and the main queue runs; nobody has to tap.
SessionFairness ==
    WF_sessionVars(\E c \in calls : Answered(c)) /\ WF_sessionVars(RunMain)

SessionSafety == SessionInit /\ [][SessionNext]_sessionVars
SessionSpec == SessionSafety /\ SessionFairness

-----------------------------------------------------------------------------
\* The list of conversations is only shown to somebody who is signed in,
\* whichever calls and log-outs overlap: an answer that comes late is shown
\* by a window that is gone (WelcomeVC weakSelf, AppDelegate pushTo).  Within
\* logOutUser the main thread handles nothing else until the window changes.
ConversationsNeedASession == screen = "conversations" /\ ~Busy => session # NoOne

\* A log-out that ran to its end is final: through answers that come late and
\* restarts, nobody is signed in, now or by the next start, but an account that
\* was entered since or whose call was under way even then.  A process that ends
\* between the two removals has not logged out: its next start signs in again
\* with the credentials it finds (UserRemoteRepository.swift:68-69).
LogOutIsFinal ==
    /\ {session, stored} \subseteq entered \union {NoOne}
    /\ entered = {} => screen = "welcome"

\* Whoever sees his conversations is the one who is signed in at the next
\* start, unless calls overlapped.
CredentialsAreTheSession ==
    Idle /\ screen = "conversations" /\ ~tangled => stored = session

\* A registration enables the form again or leaves it, unless a step failed
\* of which nobody is told.
FormComesBack ==
    (screen = "welcome" /\ ~formEnabled)
        ~> (formEnabled \/ screen # "welcome" \/ silent)

=============================================================================

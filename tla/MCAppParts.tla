---------------------------- MODULE MCAppParts -----------------------------
(***************************************************************************)
(* Small instances of ReadMarks, ConversationList and Session.  They share *)
(* no state, so one run explores each of them from its own initial states: *)
(* part says which one a behaviour is of.                                  *)
(***************************************************************************)
EXTENDS ReadMarks, ConversationList, Session

CONSTANTS u1, u2, m1, p1, p2, n1, n2, n3

VARIABLE part

vars == <<part, readMarksVars, listVars, sessionVars>>

\* u1 writes to u2; each opens the chat once.
AuthorOne == m1 :> u1
OneVisit == [u \in Clients |-> 1]
ReadCallers == [found : SUBSET Paths]
WholeChat == [u \in Clients |-> Paths]
DropAndCrash == ("drop" :> 1) @@ ("crash" :> 1) @@ ("refuse" :> 0)

\* Two conversations compete for p1's entry.  The third message is malformed;
\* the next one of its conversation may come before it.  The clocks and the keys
\* of the others disagree.
PeerOfThree == n1 :> p1 @@ n2 :> p1 @@ n3 :> p2
FiveTexts == 1..5
NodeOfFive == <<n1, n3, n1, n1, n2>>
SentAtFive == <<2, 1, 1, 3, 3>>
Third == {3}

Reading == part = "marks" /\ UNCHANGED <<part, listVars, sessionVars>>
Listing == part = "list" /\ UNCHANGED <<part, readMarksVars, sessionVars>>
Signing == part = "session" /\ UNCHANGED <<part, readMarksVars, listVars>>

Init ==
    /\ part \in {"marks", "list", "session"}
    /\ ReadMarksInit /\ ListInit /\ SessionInit

Next ==
    \/ ReadMarksNext /\ Reading
    \/ ListNext /\ Listing
    \/ SessionNext /\ Signing

\* The fairness of each module, where it runs.
Fairness ==
    /\ WF_vars(MainQueue /\ Listing)
    /\ \A p \in Peers : WF_vars(Download(p) /\ Listing)
    /\ WF_vars((\E c \in calls : Answered(c)) /\ Signing)
    /\ WF_vars(RunMain /\ Signing)

Spec == Init /\ [][Next]_vars /\ Fairness
=============================================================================

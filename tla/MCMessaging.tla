----------------------------- MODULE MCMessaging ----------------------------
(* Small instances of Messaging. *)
EXTENDS Messaging, TLC

CONSTANTS u1, u2, u3, m1, m2, m3

\* Two users: two messages one way, one the other way.
FromTwo == m1 :> u1 @@ m2 :> u1 @@ m3 :> u2
ToTwo == m1 :> u2 @@ m2 :> u2 @@ m3 :> u1

\* Three users: one of them is written to by, and writes to, the others.
FromThree == m1 :> u1 @@ m2 :> u1 @@ m3 :> u2
ToThree == m1 :> u2 @@ m2 :> u3 @@ m3 :> u1

\* Two users, one message each way.
FromEach == m1 :> u1 @@ m2 :> u2
ToEach == m1 :> u2 @@ m2 :> u1

NoFaults == [k \in {"drop", "crash", "refuse"} |-> 0]
DropAndCrash == [NoFaults EXCEPT !["drop"] = 1, !["crash"] = 1]
OneRefusal == [NoFaults EXCEPT !["refuse"] = 1]
=============================================================================

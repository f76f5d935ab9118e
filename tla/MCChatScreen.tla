---------------------------- MODULE MCChatScreen ----------------------------
(* Small instances of ChatScreen. *)
EXTENDS ChatScreen

CONSTANTS n1, n2, m1, m2, m3, m4

\* Two seconds; the names say nothing of the order the messages come in.
StampFour == m1 :> 2 @@ m2 :> 1 @@ m3 :> 1 @@ m4 :> 2
StampTwo == m1 :> 2 @@ m2 :> 1
StampOne == m1 :> 1
=============================================================================

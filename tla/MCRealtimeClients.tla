------------------------- MODULE MCRealtimeClients --------------------------
(* A small instance of RealtimeClients: a path of one writer, who writes it  *)
(* twice, and a path the other client writes to while both listen.           *)
EXTENDS RealtimeClients

CONSTANTS c1, c2, own, shared, w1, w2, w3

ByMC == w1 :> c1 @@ w2 :> c1 @@ w3 :> c2
AtMC == w1 :> own @@ w2 :> own @@ w3 :> shared
WatchMC == [c \in {c1, c2} |-> {own, shared}]

\* One lost connection and one restart; nothing is refused.
DropAndCrash == "drop" :> 1 @@ "crash" :> 1 @@ "refuse" :> 0
=============================================================================

---------------------------- MODULE InternalKey ----------------------------
(***************************************************************************)
(* LevelDB's internal keys (db/dbformat.cc) and what a set of entries says *)
(* about a user key.  An entry is [key, seq, del]; the value a put stores  *)
(* is named by the put's sequence number.                                  *)
(***************************************************************************)
EXTENDS Integers

\* InternalKeyComparator: by key, the newest entry of a key first.
Before(e, f) == \/ e.key < f.key
                \/ e.key = f.key /\ e.seq > f.seq

\* The entries of key k that a reader at sequence number s may see, and the
\* answer the newest of them gives: a value, or 0.
Hits(S, k, s) == {e \in S : e.key = k /\ e.seq <= s}
Newest(S) == CHOOSE e \in S : \A f \in S : f.seq <= e.seq
Answer(S) == IF S = {} \/ Newest(S).del THEN 0 ELSE Newest(S).seq
=============================================================================

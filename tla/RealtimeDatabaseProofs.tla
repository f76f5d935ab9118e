----------------------- MODULE RealtimeDatabaseProofs -----------------------
(***************************************************************************)
(* What every step of the database preserves, whoever uses it: the types   *)
(* of its variables, and that no listener misses an update.  A module that *)
(* instantiates RealtimeDatabase cites these lemmas for the database half  *)
(* of its own steps.                                                       *)
(***************************************************************************)
EXTENDS RealtimeDatabase, SequenceTheorems, WellFoundedInduction, TLAPS

-----------------------------------------------------------------------------
(* Types *)

\* The initial state has the right types: nothing is stored, sent or cached.
LEMMA InitType == DbInit => DbTypeOK
  BY DatabaseAssumption DEF DbInit, DbTypeOK, Trees, Stored, FaultKinds

\* A frame cut from a tree for the listeners of c has the type of a frame.
LEMMA FrameType ==
  ASSUME NEW c \in Clients, NEW t \in Trees, NEW a \in Answers
  PROVE  Frame(t, c, a) \in Frames
  BY DatabaseAssumption DEF Frame, Frames, Watched, Trees, Stored

\* Spending a fault keeps the counters natural numbers.
LEMMA SpendType ==
  ASSUME NEW k \in FaultKinds, faults \in [FaultKinds -> Nat], Spend(k)
  PROVE  faults' \in [FaultKinds -> Nat]
  BY DEF Spend

\* Reconnecting keeps the types (FPersistentConnection restoreState).
LEMMA ConnectType ==
  ASSUME DbTypeOK, NEW c \in Clients, Connect(c)
  PROVE  DbTypeOK'
<1>1. Frame(tree, c, "none") \in Frames
  BY FrameType DEF DbTypeOK, Answers
<1>2. QED
  BY <1>1 DEF Connect, DbTypeOK

\* Losing the connection keeps the types (FPersistentConnection onDisconnect).
LEMMA DropType ==
  ASSUME DbTypeOK, NEW c \in Clients, Drop(c)
  PROVE  DbTypeOK'
<1>1. faults' \in [FaultKinds -> Nat]
  BY SpendType DEF Drop, DbTypeOK, FaultKinds
<1>2. QED
  BY <1>1 DEF Drop, DbTypeOK

\* So does a restart: the persisted writes only lose their callers.
LEMMA CrashType ==
  ASSUME DbTypeOK, NEW c \in Clients, Crash(c)
  PROVE  DbTypeOK'
<1>1. faults' \in [FaultKinds -> Nat]
  BY SpendType DEF Crash, DbTypeOK, FaultKinds
<1> DEFINE restored == [i \in DOMAIN puts[c] |-> [puts[c][i] EXCEPT !.caller = Nobody]]
<1>2. restored \in Seq(Put)
  <2>1. /\ Len(puts[c]) \in Nat /\ DOMAIN puts[c] = 1..Len(puts[c])
        /\ \A i \in 1..Len(puts[c]) : puts[c][i] \in Put
    BY DEF DbTypeOK
  <2>2. \A w \in Put : [w EXCEPT !.caller = Nobody] \in Put
    BY DEF Put
  <2>3. restored \in [1..Len(puts[c]) -> Put]
    BY <2>1, <2>2
  <2>4. QED
    BY <2>1, <2>3
<1>3. puts' \in [Clients -> Seq(Put)]
  BY <1>2 DEF Crash, DbTypeOK
<1>4. QED
  BY <1>1, <1>3 DEF Crash, DbTypeOK

\* Handling a frame keeps the types (FRepo onDataUpdate, ackWrite).
LEMMA DeliverType ==
  ASSUME DbTypeOK, NEW c \in Clients, Deliver(c)
  PROVE  DbTypeOK'
<1> DEFINE frame == Head(inbox[c])
           oldest == Head(puts[c])
<1>1. /\ frame \in Frames /\ frame.data \in Trees /\ frame.answer \in Answers
      /\ inbox' \in [Clients -> Seq(Frames)]
  <2>1. inbox[c] \in Seq(Frames) /\ inbox[c] # <<>>
    BY DEF Deliver, Settle, DbTypeOK
  <2>2. frame \in Frames /\ Tail(inbox[c]) \in Seq(Frames)
    BY <2>1, HeadTailProperties
  <2>3. QED
    BY <2>2 DEF Deliver, Settle, DbTypeOK, Frames
<1>2. cache' \in [Clients -> Trees] /\ synced' \in [Clients -> BOOLEAN]
  BY <1>1 DEF Deliver, Settle, DbTypeOK
<1>3. CASE frame.answer = "none"
  BY <1>1, <1>2, <1>3 DEF Deliver, Settle, DbTypeOK
<1>4. CASE frame.answer # "none"
  <2>1. /\ puts[c] # <<>> /\ applied[c] > 0
        /\ puts' = [puts EXCEPT ![c] = Tail(@)]
        /\ applied' = [applied EXCEPT ![c] = @ - 1]
    BY <1>4 DEF Deliver, Settle
  <2>2. puts' \in [Clients -> Seq(Put)] /\ applied' \in [Clients -> Nat]
    BY <2>1 DEF DbTypeOK
  <2>3. oldest.caller \in Callers \union {Nobody}
    <3>1. puts[c] \in Seq(Put)
      BY DEF DbTypeOK
    <3>2. oldest \in Put
      BY <2>1, <3>1, HeadTailProperties
    <3>3. QED
      BY <3>2 DEF Put
  <2>4. blocks' \in [Clients -> Seq(Block)]
    <3>1. CASE oldest.caller = Nobody
      BY <1>4, <3>1 DEF Deliver, Settle, DbTypeOK
    <3>2. CASE oldest.caller # Nobody
      <4>1. [caller |-> oldest.caller, answer |-> frame.answer, value |-> Absent]
              \in Block
        BY <1>1, <1>4, <2>3, <3>2 DEF Block, Answers, Stored
      <4>2. QED
        <5>1. blocks' = [blocks EXCEPT ![c] = Append(@,
                 [caller |-> oldest.caller, answer |-> frame.answer, value |-> Absent])]
          BY <1>4, <3>2 DEF Deliver, Settle
        <5>2. blocks \in [Clients -> Seq(Block)]
          BY DEF DbTypeOK
        <5>3. QED
          BY <4>1, <5>1, <5>2
    <3>3. QED
      BY <3>1, <3>2
  <2>5. QED
    BY <1>1, <1>2, <2>2, <2>4 DEF Deliver, Settle, DbTypeOK
<1>5. QED
  BY <1>3, <1>4

\* The server's step keeps the types.
LEMMA ApplyType ==
  ASSUME DbTypeOK, NEW c \in Clients, Apply(c)
  PROVE  DbTypeOK'
<1>1. NextPut(c) \in Put
  <2>1. puts[c] \in Seq(Put) /\ applied[c] \in Nat /\ applied[c] < Len(puts[c])
    BY DEF Apply, HasNextPut, DbTypeOK
  <2>2. applied[c] + 1 \in 1..Len(puts[c])
    BY <2>1
  <2>3. QED
    BY <2>1, <2>2 DEF NextPut
<1>2. tree' \in Trees
  BY <1>1 DEF Apply, DbTypeOK, Trees, Put
<1>3. \A d \in Clients : \A a \in {"ok", "none"} : Frame(tree', d, a) \in Frames
  BY <1>2, FrameType DEF Answers
<1>4. inbox' \in [Clients -> Seq(Frames)]
  <2>1. inbox \in [Clients -> Seq(Frames)]
    BY DEF DbTypeOK
  <2>2. \A d \in Clients : \A a \in {"ok", "none"} :
          Append(inbox[d], Frame(tree', d, a)) \in Seq(Frames)
    BY <1>3, <2>1, AppendProperties
  <2>3. QED
    BY <2>1, <2>2 DEF Apply
<1>5. applied' \in [Clients -> Nat]
  BY DEF Apply, DbTypeOK
<1>6. QED
  BY <1>2, <1>4, <1>5 DEF Apply, DbTypeOK

\* So does a refusal.
LEMMA RefuseType ==
  ASSUME DbTypeOK, NEW c \in Clients, Refuse(c)
  PROVE  DbTypeOK'
<1>1. faults' \in [FaultKinds -> Nat]
  BY SpendType DEF Refuse, DbTypeOK, FaultKinds
<1>2. Frame(tree, c, "refused") \in Frames
  BY FrameType DEF DbTypeOK, Answers
<1>3. QED
  BY <1>1, <1>2 DEF Refuse, DbTypeOK

\* A non-empty set of indexes of a sequence has a largest element.
LEMMA MaximumExists ==
  ASSUME NEW n \in Nat, NEW S, S \subseteq 1..n, S # {}
  PROVE  \E i \in S : \A j \in S : j <= i
<1> DEFINE Less == {ss \in Nat \X Nat : ss[1] < ss[2]}
           T == {n - i : i \in S}
<1>1. IsWellFoundedOn(Less, Nat)
  BY NatLessThanWellFounded DEF OpToRel
<1>2. T \subseteq Nat /\ T # {}
  <2>1. \A i \in S : n - i \in Nat
    OBVIOUS
  <2>2. PICK i \in S : TRUE
    OBVIOUS
  <2>3. n - i \in T
    OBVIOUS
  <2>4. QED
    BY <2>1, <2>3
<1>3. PICK x \in T : \A y \in T : ~(<<y, x>> \in Less)
  BY <1>1, <1>2, WFMin
<1>4. \A y \in T : ~(y < x)
  BY <1>2, <1>3
<1>5. PICK i \in S : x = n - i
  OBVIOUS
<1>6. \A j \in S : j <= i
  <2> SUFFICES ASSUME NEW j \in S PROVE j <= i
    OBVIOUS
  <2>1. n - j \in T
    OBVIOUS
  <2>2. ~(n - j < n - i)
    BY <1>4, <1>5, <2>1
  <2>3. i \in Nat /\ j \in Nat
    OBVIOUS
  <2>4. QED
    BY <2>2, <2>3
<1>7. QED
  BY <1>6

\* The latest of the writes a client has outstanding at a path is one of them.
LEMMA LatestIsPending ==
  ASSUME DbTypeOK, NEW c \in Clients, NEW p \in Paths, Pending(c, p) # {}
  PROVE  Latest(Pending(c, p)) \in Pending(c, p)
<1>1. Pending(c, p) \subseteq 1..Len(puts[c]) /\ Len(puts[c]) \in Nat
  BY DEF Pending, DbTypeOK
<1>2. \E i \in Pending(c, p) : \A j \in Pending(c, p) : j <= i
  BY <1>1, MaximumExists
<1>3. QED
  BY <1>2 DEF Latest

\* What a client sees at a path is a value that may be stored there.
LEMMA ViewType ==
  ASSUME DbTypeOK, NEW c \in Clients, NEW p \in Paths
  PROVE  View(c, p) \in Stored
<1>1. puts[c] \in Seq(Put) /\ DOMAIN puts[c] = 1..Len(puts[c]) /\ Len(puts[c]) \in Nat
  BY DEF DbTypeOK
<1>2. CASE Pending(c, p) = {}
  BY <1>2 DEF View, DbTypeOK, Trees
<1>3. CASE Pending(c, p) # {}
  <2>1. Latest(Pending(c, p)) \in Pending(c, p)
    BY <1>3, LatestIsPending
  <2>2. Latest(Pending(c, p)) \in 1..Len(puts[c])
    BY <1>1, <2>1 DEF Pending
  <2>3. puts[c][Latest(Pending(c, p))] \in Put
    BY <1>1, <2>2
  <2>4. QED
    BY <1>3, <2>3 DEF View, Put
<1>4. QED
  BY <1>2, <1>3

-----------------------------------------------------------------------------
(* No update is missed *)

\* Nothing is online in the initial state, so nothing can be missing.
LEMMA InitConverges == DbInit => CacheConverges
  BY DEF DbInit, CacheConverges

\* The newest of a client's frames after another one was sent to it.
LEMMA NewestAfterAppend ==
  ASSUME DbTypeOK, NEW c \in Clients, NEW f \in Frames,
         inbox'[c] = Append(inbox[c], f)
  PROVE  Newest(c)' = f.data
<1>1. inbox[c] \in Seq(Frames) /\ Len(inbox[c]) \in Nat
  BY DEF DbTypeOK
<1>2. inbox'[c] # <<>> /\ inbox'[c][Len(inbox'[c])] = f
  BY <1>1, AppendProperties
<1>3. QED
  BY <1>2 DEF Newest

\* A restored listen starts from a snapshot (FPersistentConnection restoreState).
LEMMA ConnectConverges ==
  ASSUME DbTypeOK, CacheConverges, NEW c \in Clients, Connect(c)
  PROVE  CacheConverges'
<1> SUFFICES ASSUME NEW d \in Clients, online'[d]
             PROVE  Newest(d)' = Watched(tree', d)
  BY DEF CacheConverges, Watched
<1>1. tree' = tree /\ cache' = cache
  BY DEF Connect
<1>2. CASE d = c
  <2>1. inbox'[c] = <<Frame(tree, c, "none")>>
    BY DEF Connect, DbTypeOK
  <2>2. QED
    BY <1>1, <1>2, <2>1 DEF Newest, Frame
<1>3. CASE d # c
  <2>1. inbox'[d] = inbox[d] /\ online[d]
    BY <1>3 DEF Connect, DbTypeOK
  <2>2. QED
    BY <1>1, <2>1 DEF CacheConverges, Newest, Watched
<1>4. QED
  BY <1>2, <1>3

\* A step that takes a client offline leaves the others as they were.
LEMMA OfflineConverges ==
  ASSUME DbTypeOK, CacheConverges, NEW c \in Clients, Drop(c) \/ Crash(c)
  PROVE  CacheConverges'
<1> SUFFICES ASSUME NEW d \in Clients, online'[d]
             PROVE  Newest(d)' = Watched(tree', d)
  BY DEF CacheConverges, Watched
<1>1. tree' = tree /\ cache' = cache /\ d # c /\ online[d] /\ inbox'[d] = inbox[d]
  BY DEF Drop, Crash, DbTypeOK
<1>2. QED
  BY <1>1 DEF CacheConverges, Newest, Watched

\* A sequence without its first element has the same last element, if any.
LEMMA LastAfterTail ==
  ASSUME NEW S, NEW s \in Seq(S), NEW t \in Seq(S), s # <<>>, Len(t) = Len(s) - 1,
         \A i \in 1..Len(t) : t[i] = s[i + 1]
  PROVE  /\ t = <<>> => Len(s) = 1
         /\ t # <<>> => t[Len(t)] = s[Len(s)]
<1>1. Len(s) \in Nat /\ Len(t) \in Nat
  BY LenProperties
<1>2. t = <<>> => Len(s) = 1
  BY <1>1, EmptySeq
<1>3. ASSUME t # <<>> PROVE t[Len(t)] = s[Len(s)]
  <2>1. Len(t) \in 1..Len(t)
    BY <1>1, <1>3, EmptySeq
  <2>2. t[Len(t)] = s[Len(t) + 1]
    BY <2>1
  <2>3. QED
    BY <1>1, <2>2
<1>4. QED
  BY <1>2, <1>3

\* Handling the oldest frame leaves the newest one where it is, or in the cache.
LEMMA DeliverConverges ==
  ASSUME DbTypeOK, CacheConverges, NEW c \in Clients, Deliver(c)
  PROVE  CacheConverges'
<1> SUFFICES ASSUME NEW d \in Clients, online'[d]
             PROVE  Newest(d)' = Watched(tree', d)
  BY DEF CacheConverges, Watched
<1>1. tree' = tree /\ online[d]
  BY DEF Deliver, Settle
<1>2. CASE d # c
  <2>1. inbox'[d] = inbox[d] /\ cache'[d] = cache[d]
    BY <1>2 DEF Deliver, Settle, DbTypeOK
  <2>2. QED
    BY <1>1, <2>1 DEF CacheConverges, Newest, Watched
<1>3. CASE d = c
  <2>1. inbox[c] \in Seq(Frames) /\ inbox[c] # <<>>
    BY DEF Deliver, Settle, DbTypeOK
  <2>2. inbox'[c] = Tail(inbox[c]) /\ cache'[c] = Head(inbox[c]).data
    BY DEF Deliver, Settle, DbTypeOK
  <2>3. Len(inbox[c]) \in Nat \ {0} /\ Newest(c) = inbox[c][Len(inbox[c])].data
    BY <2>1, EmptySeq DEF Newest
  <2>4. /\ Tail(inbox[c]) = <<>> => Len(inbox[c]) = 1
        /\ Tail(inbox[c]) # <<>> =>
             Tail(inbox[c])[Len(Tail(inbox[c]))] = inbox[c][Len(inbox[c])]
    <3>1. /\ Tail(inbox[c]) \in Seq(Frames) /\ Len(Tail(inbox[c])) = Len(inbox[c]) - 1
          /\ \A i \in 1..Len(Tail(inbox[c])) : Tail(inbox[c])[i] = inbox[c][i + 1]
      BY <2>1, HeadTailProperties
    <3>2. QED
      BY <2>1, <3>1, LastAfterTail
  <2>5. Newest(c)' = Newest(c)
    BY <2>1, <2>2, <2>3, <2>4 DEF Newest
  <2>6. QED
    BY <1>1, <1>3, <2>5 DEF CacheConverges, Watched
<1>4. QED
  BY <1>2, <1>3

\* The server pushes a change to every listener it concerns; for the others
\* the tree looks as before.
LEMMA ApplyConverges ==
  ASSUME DbTypeOK, CacheConverges, NEW c \in Clients, Apply(c)
  PROVE  CacheConverges'
<1> SUFFICES ASSUME NEW d \in Clients, online'[d]
             PROVE  Newest(d)' = Watched(tree', d)
  BY DEF CacheConverges, Watched
<1> DEFINE put == NextPut(c)
<1>1. DbTypeOK'
  BY ApplyType
<1>2. cache' = cache /\ online[d] /\ tree' = [tree EXCEPT ![put.path] = put.value]
  BY DEF Apply
<1>3. \A a \in {"ok", "none"} : Frame(tree', d, a) \in Frames
  BY <1>1, FrameType DEF DbTypeOK, Answers
<1>4. CASE d = c
  <2>1. inbox'[d] = Append(inbox[d], Frame(tree', d, "ok"))
    BY <1>4 DEF Apply
  <2>2. Newest(d)' = Frame(tree', d, "ok").data
    BY <1>3, <2>1, NewestAfterAppend
  <2>3. QED
    BY <2>2 DEF Frame
<1>5. CASE d # c /\ tree[put.path] # put.value /\ put.path \in Watch[d]
  <2>1. inbox'[d] = Append(inbox[d], Frame(tree', d, "none"))
    BY <1>2, <1>5 DEF Apply
  <2>2. Newest(d)' = Frame(tree', d, "none").data
    BY <1>3, <2>1, NewestAfterAppend
  <2>3. QED
    BY <2>2 DEF Frame
<1>6. CASE d # c /\ ~(tree[put.path] # put.value /\ put.path \in Watch[d])
  <2>1. inbox'[d] = inbox[d]
    BY <1>6 DEF Apply
  <2>2. Newest(d)' = Newest(d)
    BY <1>2, <2>1 DEF Newest
  <2>3. Watched(tree', d) = Watched(tree, d)
    BY <1>2, <1>6 DEF Watched, DbTypeOK, Trees
  <2>4. QED
    BY <1>2, <2>2, <2>3 DEF CacheConverges
<1>7. QED
  BY <1>4, <1>5, <1>6

\* A refusal carries the unchanged tree.
LEMMA RefuseConverges ==
  ASSUME DbTypeOK, CacheConverges, NEW c \in Clients, Refuse(c)
  PROVE  CacheConverges'
<1> SUFFICES ASSUME NEW d \in Clients, online'[d]
             PROVE  Newest(d)' = Watched(tree', d)
  BY DEF CacheConverges, Watched
<1>1. tree' = tree /\ cache' = cache /\ online[d]
  BY DEF Refuse
<1>2. CASE d = c
  <2>1. inbox'[d] = Append(inbox[d], Frame(tree, d, "refused"))
    BY <1>2 DEF Refuse, DbTypeOK
  <2>2. Frame(tree, d, "refused") \in Frames
    BY FrameType DEF DbTypeOK, Answers
  <2>3. Newest(d)' = Frame(tree, d, "refused").data
    BY <2>1, <2>2, NewestAfterAppend
  <2>4. QED
    BY <1>1, <2>3 DEF Frame
<1>3. CASE d # c
  <2>1. inbox'[d] = inbox[d]
    BY <1>3 DEF Refuse, DbTypeOK
  <2>2. QED
    BY <1>1, <2>1 DEF CacheConverges, Newest, Watched
<1>4. QED
  BY <1>2, <1>3

\* The calls of the app's callbacks touch neither the tree nor the frames.
LEMMA CallConverges ==
  ASSUME CacheConverges, UNCHANGED <<tree, inbox, cache, online>>
  PROVE  CacheConverges'
  BY DEF CacheConverges, Newest, Watched

=============================================================================

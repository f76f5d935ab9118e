------------------------ MODULE RealtimeClientsProofs ------------------------
(***************************************************************************)
(* For any clients, paths, writes and faults: on a path of one writer the  *)
(* last write wins, what was reported as stored is not undone by what is   *)
(* sent again, and the writer's own view never goes back.                  *)
(*                                                                         *)
(* The outstanding writes of a path are in the order of issue, and the     *)
(* latest of them is the last that was issued; those the server has        *)
(* answered on this connection are the first ones, and their answers are   *)
(* on their way in the same order.  So the tree, the frames and the cache  *)
(* each hold what the write that reached them last put there, and when the *)
(* last outstanding write is settled that is the last write of all.        *)
(***************************************************************************)
EXTENDS RealtimeClients, RealtimeDatabaseProofs

Unrefused == faults["refuse"] = 0

\* The i-th of the writes s is the last one at p among the first n.
LastAt(s, p, i, n) ==
    /\ i \in 1..n /\ s[i].path = p
    /\ \A j \in i + 1..n : s[j].path # p

PutAge(iss, w) == Age(iss[w.path], w.value)

IssuedOnce ==
    \A p \in Paths : /\ \A i \in 1..Len(issued[p]) : At[issued[p][i]] = p
                     /\ \A i, j \in 1..Len(issued[p]) : issued[p][i] = issued[p][j] => i = j

\* Whose it is, where it goes and who waits for it.
Genuine(c, w) ==
    /\ w.value \in Writes /\ At[w.value] = w.path /\ By[w.value] = c
    /\ w.caller \in {w.value, Nobody}

PutsInOrder(c) ==
    /\ applied[c] <= Len(puts[c])
    /\ \A i \in 1..Len(puts[c]) : Genuine(c, puts[c][i]) /\ PutAge(issued, puts[c][i]) > 0
    /\ \A i, j \in 1..Len(puts[c]) :
           i < j /\ puts[c][i].path = puts[c][j].path
               => PutAge(issued, puts[c][i]) < PutAge(issued, puts[c][j])

LatestIsLast(c) ==
    \A p \in Own(c) : \A i \in 1..Len(puts[c]) :
        LastAt(puts[c], p, i, Len(puts[c])) => PutAge(issued, puts[c][i]) = Len(issued[p])

NoPut(c, p) == \A i \in 1..Len(puts[c]) : puts[c][i].path # p

TreeFollows(c) ==
    \A p \in Own(c) :
        /\ NoPut(c, p) => Age(issued[p], tree[p]) = Len(issued[p])
        /\ \A i \in 1..applied[c] :
               LastAt(puts[c], p, i, applied[c]) => tree[p] = puts[c][i].value

CacheFollows(c) ==
    \A p \in Own(c) \cap Watch[c] : NoPut(c, p) =>
        /\ Age(issued[p], cache[c][p]) = Len(issued[p])
        /\ \A k \in 1..Len(inbox[c]) : Age(issued[p], inbox[c][k].data[p]) = Len(issued[p])

\* f[i] is the frame with the answer to the i-th outstanding write.
Answering(s, n, f) ==
    /\ f \in [1..n -> 1..Len(s)]
    /\ \A i, j \in 1..n : i < j => f[i] < f[j]
    /\ \A k \in 1..Len(s) : s[k].answer # "none" <=> \E i \in 1..n : f[i] = k

\* An answer "ok" says that the write is in the tree, or a newer one is.
Truthful(c, f) ==
    \A i \in 1..applied[c] :
        inbox[c][f[i]].answer = "ok" /\ puts[c][i].path \in Own(c)
            => Age(issued[puts[c][i].path], tree[puts[c][i].path]) >= PutAge(issued, puts[c][i])

\* A frame shows the last of the writes answered in it or before.
Showing(c, f) ==
    \A p \in Own(c) \cap Watch[c] : \A k \in 1..Len(inbox[c]) : \A i \in 1..applied[c] :
        /\ f[i] <= k /\ puts[c][i].path = p
        /\ \A j \in i + 1..applied[c] : f[j] <= k => puts[c][j].path # p
        => inbox[c][k].data[p] = puts[c][i].value

FramesFollow(c) ==
    \E f : Answering(inbox[c], applied[c], f) /\ Truthful(c, f) /\ (Unrefused => Showing(c, f))

BlocksAnswer(c) ==
    \A i \in 1..Len(blocks[c]) : /\ By[blocks[c][i].caller] = c
                                 /\ blocks[c][i].answer # "value"

\* w was reported as stored, or will be by a block that waits to run.
Reported(w) ==
    \/ outcome[w] = "ok"
    \/ \E i \in 1..Len(blocks[By[w]]) : /\ blocks[By[w]][i].caller = w
                                        /\ blocks[By[w]][i].answer = "ok"

ReportedIsStored(w) ==
    At[w] \in Own(By[w]) /\ Reported(w) =>
        /\ Age(issued[At[w]], w) > 0
        /\ Age(issued[At[w]], tree[At[w]]) >= Age(issued[At[w]], w)
        /\ \A i \in 1..Len(puts[By[w]]) :
               puts[By[w]][i].path = At[w] => PutAge(issued, puts[By[w]][i]) > Age(issued[At[w]], w)

ClientOK(c) ==
    /\ PutsInOrder(c) /\ LatestIsLast(c) /\ FramesFollow(c) /\ BlocksAnswer(c)
    /\ Unrefused => TreeFollows(c) /\ CacheFollows(c)

ClientsInvariant ==
    /\ TypeOK /\ IssuedOnce
    /\ \A c \in Clients : ClientOK(c)
    /\ \A w \in Writes : ReportedIsStored(w)

-----------------------------------------------------------------------------
(* Ages *)

\* The age of a value is its place in the sequence, or 0 when it has none.
LEMMA AgeIsPlace ==
    ASSUME NEW S, NEW s \in Seq(S), NEW v
    PROVE  /\ Age(s, v) \in 0..Len(s)
           /\ Age(s, v) > 0 => s[Age(s, v)] = v
           /\ \A i \in 1..Len(s) : s[i] = v => Age(s, v) > 0
           /\ (\A i, j \in 1..Len(s) : s[i] = s[j] => i = j)
                  => \A i \in 1..Len(s) : s[i] = v => Age(s, v) = i
<1> DEFINE I == {i \in 1..Len(s) : s[i] = v}
           M == I \union {0}
<1>1. Len(s) \in Nat /\ DOMAIN s = 1..Len(s)
  BY LenProperties
<1>2. \E x \in M : \A y \in M : x >= y
  <2>1. CASE I = {}
    BY <2>1
  <2>2. CASE I # {}
    <3>1. PICK x \in I : \A y \in I : y <= x
      BY <1>1, <2>2, MaximumExists
    <3> QED BY <1>1, <3>1
  <2> QED BY <2>1, <2>2
<1>3. Age(s, v) = CHOOSE x \in M : \A y \in M : x >= y
  BY <1>1 DEF Age, Max
<1>4. Age(s, v) \in M /\ \A y \in M : Age(s, v) >= y
  BY <1>2, <1>3
<1> HIDE DEF M
<1>5. Age(s, v) \in I \/ Age(s, v) = 0
  BY <1>4 DEF M
<1>6. \A i \in I : Age(s, v) >= i
  BY <1>4 DEF M
<1> QED BY <1>1, <1>5, <1>6

\* The write that is appended is the newest; the others keep their ages.
LEMMA AgeAfterAppend ==
    ASSUME NEW S, NEW s \in Seq(S), NEW w \in S, \A i \in 1..Len(s) : s[i] # w
    PROVE  /\ Age(s, w) = 0 /\ Age(Append(s, w), w) = Len(s) + 1
           /\ \A v : v # w => Age(Append(s, w), v) = Age(s, v)
<1> DEFINE t == Append(s, w)
<1>1. /\ t \in Seq(S) /\ Len(s) \in Nat /\ Len(t) = Len(s) + 1 /\ t[Len(s) + 1] = w
      /\ \A i \in 1..Len(s) : t[i] = s[i]
      /\ DOMAIN s = 1..Len(s) /\ DOMAIN t = 1..Len(s) + 1
  BY AppendProperties, LenProperties
<1> HIDE DEF t
<1>2. Age(s, w) = 0
  BY <1>1, AgeIsPlace
<1>3. Age(t, w) = Len(s) + 1
  <2>1. Age(t, w) \in 0..Len(s) + 1 /\ Age(t, w) > 0 /\ t[Age(t, w)] = w
    BY <1>1, AgeIsPlace
  <2>2. Age(t, w) \notin 1..Len(s)
    BY <1>1, <2>1
  <2> QED BY <1>1, <2>1, <2>2
<1>4. ASSUME NEW v, v # w PROVE Age(t, v) = Age(s, v)
  <2>1. {i \in DOMAIN t : t[i] = v} = {i \in DOMAIN s : s[i] = v}
    BY <1>1, <1>4
  <2> QED BY <2>1 DEF Age
<1> QED BY <1>2, <1>3, <1>4 DEF t

-----------------------------------------------------------------------------
(* What a step leaves alone *)

\* A path of one writer is written by nobody else.
LEMMA OnlyTheOwnerWrites ==
    ASSUME NEW c, NEW w \in Writes, At[w] \in Own(c)
    PROVE  By[w] = c
BY DEF Own

\* The variables of one client are those of the database's types.
LEMMA ShapesOf ==
    ASSUME TypeOK, NEW c \in Clients
    PROVE  /\ puts[c] \in Seq(Put) /\ Len(puts[c]) \in Nat /\ applied[c] \in Nat
           /\ DOMAIN puts[c] = 1..Len(puts[c])
           /\ inbox[c] \in Seq(Frames) /\ Len(inbox[c]) \in Nat
           /\ blocks[c] \in Seq(Block) /\ Len(blocks[c]) \in Nat
           /\ cache[c] \in Trees /\ tree \in Trees
           /\ \A p \in Paths : issued[p] \in Seq(Writes) /\ Len(issued[p]) \in Nat
BY LenProperties DEF TypeOK, DbTypeOK

\* A client none of whose own variables change stays right, as long as its
\* paths keep their values and no refusal is forgotten.
LEMMA OthersStay ==
    ASSUME NEW c, ClientOK(c), UNCHANGED <<issued, tree>>, Unrefused' => Unrefused,
           puts'[c] = puts[c], applied'[c] = applied[c], inbox'[c] = inbox[c],
           cache'[c] = cache[c], blocks'[c] = blocks[c]
    PROVE  ClientOK(c)'
<1>1. PutsInOrder(c)' /\ LatestIsLast(c)' /\ BlocksAnswer(c)'
  BY DEF ClientOK, PutsInOrder, LatestIsLast, BlocksAnswer, Own
<1>2. FramesFollow(c)'
  <2>1. PICK f : Answering(inbox[c], applied[c], f) /\ Truthful(c, f) /\ (Unrefused => Showing(c, f))
    BY DEF ClientOK, FramesFollow
  <2>2. Truthful(c, f)' /\ (Unrefused' => Showing(c, f)')
    BY <2>1 DEF Truthful, Showing, Own
  <2> QED BY <2>1, <2>2 DEF FramesFollow
<1>3. Unrefused' => TreeFollows(c)' /\ CacheFollows(c)'
  BY DEF ClientOK, TreeFollows, CacheFollows, NoPut, Own
<1> QED BY <1>1, <1>2, <1>3 DEF ClientOK

\* What was reported stays stored in a step that neither writes nor reports.
LEMMA ReportedStays ==
    ASSUME NEW w \in Writes, ReportedIsStored(w), UNCHANGED <<issued, tree>>,
           Reported(w)' => Reported(w),
           \A i \in 1..Len(puts'[By[w]]) : \E j \in 1..Len(puts[By[w]]) :
               /\ puts'[By[w]][i].path = puts[By[w]][j].path
               /\ puts'[By[w]][i].value = puts[By[w]][j].value
    PROVE  ReportedIsStored(w)'
<1> SUFFICES ASSUME At[w] \in Own(By[w]), Reported(w)
             PROVE  /\ Age(issued[At[w]], w) > 0
                    /\ Age(issued[At[w]], tree[At[w]]) >= Age(issued[At[w]], w)
                    /\ \A i \in 1..Len(puts'[By[w]]) : puts'[By[w]][i].path = At[w] =>
                           PutAge(issued, puts'[By[w]][i]) > Age(issued[At[w]], w)
  BY DEF ReportedIsStored, Own
<1>1. \A j \in 1..Len(puts[By[w]]) : puts[By[w]][j].path = At[w] =>
          PutAge(issued, puts[By[w]][j]) > Age(issued[At[w]], w)
  BY DEF ReportedIsStored
<1> QED BY <1>1 DEF ReportedIsStored, PutAge

-----------------------------------------------------------------------------
(* Connections *)

\* A new connection has answered nothing yet; its one frame is the tree.
LEMMA ConnectKeeps ==
    ASSUME ClientsInvariant, NEW c \in Clients, Connect(c), UNCHANGED clientVars
    PROVE  ClientsInvariant'
<1>1. /\ applied' = [applied EXCEPT ![c] = 0]
      /\ inbox' = [inbox EXCEPT ![c] = <<Frame(tree, c, "none")>>]
      /\ UNCHANGED <<tree, puts, cache, blocks, faults, issued, outcome>>
  BY DEF Connect, clientVars
<1>2. TypeOK /\ TypeOK' /\ IssuedOnce'
  BY <1>1, ConnectType DEF ClientsInvariant, TypeOK, IssuedOnce
<1>3. ASSUME NEW d \in Clients PROVE ClientOK(d)'
  <2>1. CASE d # c
    BY <1>1, <1>2, <2>1, OthersStay DEF ClientsInvariant, TypeOK, DbTypeOK, Unrefused
  <2>2. CASE d = c
    <3>1. /\ ClientOK(c) /\ Len(puts[c]) \in Nat
          /\ applied'[c] = 0 /\ inbox'[c] = <<Frame(tree, c, "none")>>
      BY <1>1, <1>2, ShapesOf DEF ClientsInvariant, TypeOK, DbTypeOK
    <3>2. PutsInOrder(c)' /\ LatestIsLast(c)' /\ BlocksAnswer(c)'
      BY <1>1, <3>1 DEF ClientOK, PutsInOrder, LatestIsLast, BlocksAnswer, Own
    <3>3. FramesFollow(c)'
      <4> DEFINE f == [i \in 1..0 |-> 1]
      <4>1. Len(inbox'[c]) = 1 /\ inbox'[c][1].answer = "none"
        BY <3>1 DEF Frame
      <4>2. Answering(inbox'[c], 0, f)
        BY <4>1 DEF Answering
      <4>3. Truthful(c, f)' /\ Showing(c, f)'
        BY <3>1 DEF Truthful, Showing
      <4> QED BY <3>1, <4>2, <4>3 DEF FramesFollow
    <3>4. Unrefused' => TreeFollows(c)'
      BY <1>1, <3>1 DEF ClientOK, TreeFollows, NoPut, Own, Unrefused
    <3>5. Unrefused' => CacheFollows(c)'
      <4> SUFFICES ASSUME Unrefused, NEW p \in Own(c) \cap Watch[c], NoPut(c, p)
                   PROVE  /\ Age(issued[p], cache[c][p]) = Len(issued[p])
                          /\ \A k \in 1..Len(inbox'[c]) :
                                 Age(issued[p], inbox'[c][k].data[p]) = Len(issued[p])
        BY <1>1 DEF CacheFollows, NoPut, Own, Unrefused
      <4>1. Len(inbox'[c]) = 1 /\ inbox'[c][1].data[p] = tree[p]
        BY <3>1 DEF Frame, Watched, Own
      <4> QED BY <3>1, <4>1 DEF ClientOK, CacheFollows, TreeFollows
    <3> QED BY <2>2, <3>2, <3>3, <3>4, <3>5 DEF ClientOK
  <2> QED BY <2>1, <2>2
<1>4. ASSUME NEW w \in Writes PROVE ReportedIsStored(w)'
  <2>1. Reported(w)' => Reported(w)
    BY <1>1 DEF Reported
  <2> QED BY <1>1, <2>1, ReportedStays DEF ClientsInvariant
<1> QED BY <1>2, <1>3, <1>4 DEF ClientsInvariant

\* A connection is gone with its frames; writes and blocks are not more or
\* other than they were.
LEMMA Disconnected ==
    ASSUME ClientsInvariant, NEW c \in Clients, TypeOK', Unrefused' => Unrefused,
           UNCHANGED <<tree, cache, issued, outcome>>,
           applied' = [applied EXCEPT ![c] = 0], inbox' = [inbox EXCEPT ![c] = <<>>],
           \A d \in Clients \ {c} : puts'[d] = puts[d] /\ blocks'[d] = blocks[d],
           blocks'[c] \in {blocks[c], <<>>},
           Len(puts'[c]) = Len(puts[c]),
           \A i \in 1..Len(puts[c]) : /\ puts'[c][i].path = puts[c][i].path
                                      /\ puts'[c][i].value = puts[c][i].value
                                      /\ puts'[c][i].caller \in {puts[c][i].caller, Nobody}
    PROVE  ClientsInvariant'
<1>1. TypeOK /\ IssuedOnce'
  BY DEF ClientsInvariant, IssuedOnce
<1>2. ASSUME NEW d \in Clients PROVE ClientOK(d)'
  <2>1. CASE d # c
    BY <1>1, <2>1, OthersStay DEF ClientsInvariant, TypeOK, DbTypeOK
  <2>2. CASE d = c
    <3>1. /\ ClientOK(c) /\ Len(puts[c]) \in Nat /\ applied'[c] = 0 /\ inbox'[c] = <<>>
      BY <1>1, ShapesOf DEF ClientsInvariant, TypeOK, DbTypeOK
    <3>2. PutsInOrder(c)'
      <4>1. PutsInOrder(c)
        BY <3>1 DEF ClientOK
      <4>2. \A i \in 1..Len(puts[c]) : Genuine(c, puts'[c][i]) /\ PutAge(issued, puts'[c][i]) > 0
        BY <4>1 DEF PutsInOrder, Genuine, PutAge
      <4>3. \A i, j \in 1..Len(puts[c]) :
                i < j /\ puts'[c][i].path = puts'[c][j].path
                    => PutAge(issued, puts'[c][i]) < PutAge(issued, puts'[c][j])
        BY <4>1 DEF PutsInOrder, PutAge
      <4> QED BY <3>1, <4>2, <4>3 DEF PutsInOrder, Genuine
    <3>3. LatestIsLast(c)'
      <4> SUFFICES ASSUME NEW p \in Own(c), NEW i \in 1..Len(puts[c]),
                          LastAt(puts'[c], p, i, Len(puts[c]))
                   PROVE  PutAge(issued, puts'[c][i]) = Len(issued[p])
        BY DEF LatestIsLast, Own
      <4>1. LastAt(puts[c], p, i, Len(puts[c]))
        BY <3>1 DEF LastAt
      <4> QED BY <3>1, <4>1 DEF ClientOK, LatestIsLast, PutAge
    <3>4. FramesFollow(c)'
      <4> DEFINE f == [i \in 1..0 |-> 1]
      <4>1. Answering(inbox'[c], 0, f)
        BY <3>1 DEF Answering
      <4>2. Truthful(c, f)' /\ Showing(c, f)'
        BY <3>1 DEF Truthful, Showing
      <4> QED BY <3>1, <4>1, <4>2 DEF FramesFollow
    <3>5. BlocksAnswer(c)'
      BY <3>1 DEF ClientOK, BlocksAnswer
    <3>6. \A p : NoPut(c, p)' => NoPut(c, p)
      BY DEF NoPut
    <3>7. Unrefused' => TreeFollows(c)' /\ CacheFollows(c)'
      BY <3>1, <3>6 DEF ClientOK, TreeFollows, CacheFollows, Own
    <3> QED BY <2>2, <3>2, <3>3, <3>4, <3>5, <3>7 DEF ClientOK
  <2> QED BY <2>1, <2>2
<1>3. ASSUME NEW w \in Writes PROVE ReportedIsStored(w)'
  <2>1. By[w] \in Clients
    BY RealtimeClientsAssumption
  <2>2. Reported(w)' => Reported(w)
    BY <2>1 DEF Reported
  <2>3. \A i \in 1..Len(puts'[By[w]]) : \E j \in 1..Len(puts[By[w]]) :
            /\ puts'[By[w]][i].path = puts[By[w]][j].path
            /\ puts'[By[w]][i].value = puts[By[w]][j].value
    BY <2>1
  <2> QED BY <2>2, <2>3, ReportedStays DEF ClientsInvariant
<1> QED BY <1>1, <1>2, <1>3 DEF ClientsInvariant

\* Counting a fault of another kind does not undo a refusal.
LEMMA RefusalsStay ==
    ASSUME TypeOK, NEW k \in FaultKinds, Spend(k)
    PROVE  Unrefused' => Unrefused
BY DEF Spend, Unrefused, TypeOK, DbTypeOK, FaultKinds

\* A lost connection (FPersistentConnection onDisconnect).
LEMMA DropKeeps ==
    ASSUME ClientsInvariant, NEW c \in Clients, Drop(c), UNCHANGED clientVars
    PROVE  ClientsInvariant'
<1>1. TypeOK /\ TypeOK' /\ (Unrefused' => Unrefused)
  <2>1. TypeOK'
    BY DropType DEF ClientsInvariant, TypeOK, clientVars
  <2>2. Spend("drop") /\ "drop" \in FaultKinds
    BY DEF Drop, FaultKinds
  <2> QED BY <2>1, <2>2, RefusalsStay DEF ClientsInvariant
<1> QED BY <1>1, Disconnected DEF Drop, clientVars

\* A restart: the writes that are restored have no callers (FRepo restoreWrites).
LEMMA CrashKeeps ==
    ASSUME ClientsInvariant, NEW c \in Clients, Crash(c), UNCHANGED clientVars
    PROVE  ClientsInvariant'
<1>1. TypeOK /\ TypeOK' /\ (Unrefused' => Unrefused)
  <2>1. TypeOK'
    BY CrashType DEF ClientsInvariant, TypeOK, clientVars
  <2>2. Spend("crash") /\ "crash" \in FaultKinds
    BY DEF Crash, FaultKinds
  <2> QED BY <2>1, <2>2, RefusalsStay DEF ClientsInvariant
<1>2. /\ puts' = [puts EXCEPT ![c] = [i \in DOMAIN @ |-> [@[i] EXCEPT !.caller = Nobody]]]
      /\ blocks' = [blocks EXCEPT ![c] = <<>>]
      /\ puts \in [Clients -> Seq(Put)] /\ blocks \in [Clients -> Seq(Block)]
  BY <1>1 DEF Crash, TypeOK, DbTypeOK
<1>3. puts[c] \in Seq(Put) /\ DOMAIN puts[c] = 1..Len(puts[c]) /\ Len(puts[c]) \in Nat
  BY <1>1, ShapesOf
<1>4. puts'[c] = [i \in 1..Len(puts[c]) |-> [puts[c][i] EXCEPT !.caller = Nobody]]
  BY <1>2, <1>3
<1>5. Len(puts'[c]) = Len(puts[c])
  BY <1>3, <1>4
<1>6. ASSUME NEW i \in 1..Len(puts[c])
      PROVE  /\ puts'[c][i].path = puts[c][i].path /\ puts'[c][i].value = puts[c][i].value
             /\ puts'[c][i].caller \in {puts[c][i].caller, Nobody}
  BY <1>3, <1>4 DEF Put
<1>7. /\ \A d \in Clients \ {c} : puts'[d] = puts[d] /\ blocks'[d] = blocks[d]
      /\ blocks'[c] \in {blocks[c], <<>>}
  BY <1>2
<1> QED BY <1>1, <1>5, <1>6, <1>7, Disconnected DEF Crash, clientVars

-----------------------------------------------------------------------------
(* Writing *)

\* A new write is younger than all others, and the last outstanding one.
LEMMA IssueKeeps ==
    ASSUME ClientsInvariant, NEW w \in Writes, Issue(w)
    PROVE  ClientsInvariant'
<1> DEFINE o == By[w]
           q == At[w]
           new == [path |-> q, value |-> w, caller |-> w]
<1>1. /\ o \in Clients /\ q \in Paths /\ new \in Put
      /\ TypeOK /\ IssuedOnce
      /\ UNCHANGED <<tree, applied, inbox, cache, synced, online, blocks, faults, outcome>>
  BY RealtimeClientsAssumption DEF ClientsInvariant, Issue, Enqueue, Put, Stored
<1>a. /\ puts' = [puts EXCEPT ![o] = Append(puts[o], new)]
      /\ issued' = [issued EXCEPT ![q] = Append(issued[q], w)]
  BY DEF Issue, Enqueue
<1> DEFINE n == Len(puts[o])
           m == Len(issued[q])
<1>2. /\ puts[o] \in Seq(Put) /\ n \in Nat /\ applied[o] \in Nat
      /\ issued[q] \in Seq(Writes) /\ m \in Nat
  BY <1>1, ShapesOf
<1>3. /\ puts'[o] \in Seq(Put) /\ Len(puts'[o]) = n + 1 /\ puts'[o][n + 1] = new
      /\ \A i \in 1..n : puts'[o][i] = puts[o][i]
      /\ \A d \in Clients \ {o} : puts'[d] = puts[d]
  BY <1>1, <1>2, <1>a, AppendProperties DEF TypeOK, DbTypeOK
<1>4. /\ issued'[q] \in Seq(Writes) /\ Len(issued'[q]) = m + 1 /\ issued'[q][m + 1] = w
      /\ \A i \in 1..m : issued'[q][i] = issued[q][i]
      /\ issued'[q] = Append(issued[q], w)
      /\ \A p \in Paths \ {q} : issued'[p] = issued[p]
  BY <1>1, <1>2, <1>a, AppendProperties DEF TypeOK
<1>5. \A i \in 1..m : issued[q][i] # w
  BY <1>2 DEF Issue, ToSet
<1>6. TypeOK'
  BY <1>1, <1>3, <1>4, <1>a DEF TypeOK, DbTypeOK
<1>7. IssuedOnce'
  <2> SUFFICES ASSUME NEW p \in Paths
               PROVE  /\ \A i \in 1..Len(issued'[p]) : At[issued'[p][i]] = p
                      /\ \A i, j \in 1..Len(issued'[p]) : issued'[p][i] = issued'[p][j] => i = j
    BY DEF IssuedOnce
  <2>1. CASE p # q
    BY <1>1, <1>4, <2>1 DEF IssuedOnce
  <2>2. CASE p = q
    <3>1. /\ \A i \in 1..m : At[issued[q][i]] = q
          /\ \A i, j \in 1..m : issued[q][i] = issued[q][j] => i = j
      BY <1>1 DEF IssuedOnce
    <3>2. /\ \A i \in 1..Len(issued'[q]) : i \in 1..m \/ i = m + 1
          /\ issued'[q][m + 1] = w /\ \A i \in 1..m : issued'[q][i] = issued[q][i]
      BY <1>2, <1>4
    <3>3. \A i \in 1..Len(issued'[q]) : At[issued'[q][i]] = q
      BY <3>1, <3>2
    <3>4. \A i, j \in 1..Len(issued'[q]) : issued'[q][i] = issued'[q][j] => i = j
      BY <1>5, <3>1, <3>2
    <3> QED BY <2>2, <3>3, <3>4
  <2> QED BY <2>1, <2>2
<1>8. /\ Age(issued[q], w) = 0 /\ Age(issued'[q], w) = m + 1
      /\ \A v : v # w => Age(issued'[q], v) = Age(issued[q], v)
  <2>1. issued[q] \in Seq(Writes) /\ issued'[q] = Append(issued[q], w)
    BY <1>2, <1>4
  <2> QED BY <1>5, <2>1, AgeAfterAppend
<1>9. ASSUME NEW p \in Paths, NEW v
      PROVE  /\ Age(issued[p], v) \in 0..Len(issued[p]) /\ Len(issued[p]) \in Nat
             /\ Age(issued[p], v) \in Nat /\ Age(issued'[p], v) \in Nat
             /\ Age(issued'[p], v) >= Age(issued[p], v)
             /\ Age(issued[p], v) > 0 => Age(issued'[p], v) = Age(issued[p], v)
  <2>1. /\ issued[p] \in Seq(Writes) /\ issued'[p] \in Seq(Writes)
        /\ Len(issued[p]) \in Nat /\ Len(issued'[p]) \in Nat
    BY <1>1, <1>6, LenProperties DEF TypeOK
  <2>2. Age(issued[p], v) \in 0..Len(issued[p]) /\ Age(issued'[p], v) \in 0..Len(issued'[p])
    BY <2>1, AgeIsPlace
  <2>3. CASE p # q
    BY <1>4, <2>1, <2>2, <2>3
  <2>4. CASE p = q /\ v = w
    BY <1>2, <1>8, <2>1, <2>2, <2>4
  <2>5. CASE p = q /\ v # w
    BY <1>8, <2>1, <2>2, <2>5
  <2> QED BY <2>3, <2>4, <2>5
<1>10. ASSUME NEW d \in Clients, NEW i \in 1..Len(puts[d])
       PROVE  /\ Genuine(d, puts[d][i]) /\ puts[d][i].path \in Paths
              /\ PutAge(issued, puts[d][i]) > 0
              /\ PutAge(issued', puts[d][i]) = PutAge(issued, puts[d][i])
  <2>1. puts[d] \in Seq(Put)
    BY <1>1, ShapesOf
  <2>2. puts[d][i] \in Put
    BY <2>1
  <2>3. Genuine(d, puts[d][i]) /\ PutAge(issued, puts[d][i]) > 0
    BY DEF ClientsInvariant, ClientOK, PutsInOrder
  <2> QED BY <1>9, <2>2, <2>3 DEF Put, PutAge
<1>b. /\ n \in Nat /\ Len(puts[o]) = n /\ Len(puts'[o]) = n + 1
      /\ puts'[o][n + 1].path = q /\ puts'[o][n + 1].value = w /\ puts'[o][n + 1].caller = w
      /\ \A i \in 1..n : puts'[o][i] = puts[o][i]
      /\ \A i \in 1..n + 1 : i \in 1..n \/ i = n + 1
  BY <1>2, <1>3
<1>c. m \in Nat /\ Len(issued[q]) = m /\ Len(issued'[q]) = m + 1
  BY <1>2, <1>4
<1>d. By[w] = o /\ At[w] = q
  OBVIOUS
<1> HIDE DEF o, q, new, n, m
<1>11. ASSUME NEW d \in Clients PROVE ClientOK(d)'
  <2>1. /\ ClientOK(d) /\ Len(puts[d]) \in Nat /\ applied[d] \in Nat /\ tree \in Trees
        /\ BlocksAnswer(d)' /\ applied[d] <= Len(puts[d])
    BY <1>1, ShapesOf DEF ClientsInvariant, ClientOK, BlocksAnswer, PutsInOrder
  <2>2. FramesFollow(d)'
    <3>1. \A i \in 1..applied[d] : puts'[d][i] = puts[d][i]
      <4>1. CASE d = o
        BY <1>b, <2>1, <4>1
      <4>2. CASE d # o
        BY <1>3, <4>2
      <4> QED BY <4>1, <4>2
    <3>2. PICK f : Answering(inbox[d], applied[d], f) /\ Truthful(d, f)
                   /\ (Unrefused => Showing(d, f))
      BY <2>1 DEF ClientOK, FramesFollow
    <3>3. Truthful(d, f)'
      <4> SUFFICES ASSUME NEW i \in 1..applied[d], inbox[d][f[i]].answer = "ok",
                          puts[d][i].path \in Own(d)
                   PROVE  Age(issued'[puts[d][i].path], tree[puts[d][i].path])
                              >= PutAge(issued', puts[d][i])
        BY <1>1, <3>1 DEF Truthful, Own
      <4>1. Age(issued[puts[d][i].path], tree[puts[d][i].path]) >= PutAge(issued, puts[d][i])
        BY <3>2 DEF Truthful
      <4>2. i \in 1..Len(puts[d])
        BY <2>1
      <4>3. PutAge(issued, puts[d][i]) \in Nat
        BY <1>9, <1>10, <4>2 DEF PutAge
      <4>4. /\ puts[d][i].path \in Paths
            /\ PutAge(issued', puts[d][i]) = PutAge(issued, puts[d][i])
        BY <1>10, <4>2
      <4>5. LET p == puts[d][i].path IN
            /\ Age(issued[p], tree[p]) \in Nat /\ Age(issued'[p], tree[p]) \in Nat
            /\ Age(issued'[p], tree[p]) >= Age(issued[p], tree[p])
        BY <1>9, <4>4
      <4> QED BY <4>1, <4>3, <4>4, <4>5
    <3>4. Unrefused' => Showing(d, f)'
      <4> SUFFICES ASSUME Unrefused, NEW p \in Own(d) \cap Watch[d],
                          NEW k \in 1..Len(inbox[d]), NEW i \in 1..applied[d],
                          f[i] <= k, puts'[d][i].path = p,
                          \A j \in i + 1..applied[d] : f[j] <= k => puts'[d][j].path # p
                   PROVE  inbox[d][k].data[p] = puts'[d][i].value
        BY <1>1 DEF Showing, Own, Unrefused
      <4>1. \A j \in i + 1..applied[d] : j \in 1..applied[d]
        BY <2>1
      <4>2. Showing(d, f) /\ puts'[d][i] = puts[d][i]
        BY <3>1, <3>2
      <4>3. \A j \in i + 1..applied[d] : f[j] <= k => puts[d][j].path # p
        BY <3>1, <4>1
      <4> QED BY <4>2, <4>3 DEF Showing
    <3> QED BY <1>1, <3>2, <3>3, <3>4 DEF FramesFollow
  <2>3. CASE d # o
    <3>1. \A p \in Own(d) : p \in Paths \ {q} /\ issued'[p] = issued[p]
      BY <1>1, <1>4, <1>d, <2>3 DEF Own
    <3>2. puts'[d] = puts[d]
      BY <1>3, <2>3
    <3>3. PutsInOrder(d)'
      <4>1. PutsInOrder(d)
        BY <2>1 DEF ClientOK
      <4>2. \A i \in 1..Len(puts[d]) : PutAge(issued', puts[d][i]) = PutAge(issued, puts[d][i])
        BY <1>10
      <4> QED BY <1>1, <3>2, <4>1, <4>2 DEF PutsInOrder, Genuine
    <3>4. LatestIsLast(d)'
      BY <1>10, <2>1, <3>1, <3>2 DEF ClientOK, LatestIsLast, LastAt, Own
    <3>5. Unrefused' => TreeFollows(d)' /\ CacheFollows(d)'
      <4>1. \A p : NoPut(d, p)' => NoPut(d, p)
        BY <3>2 DEF NoPut
      <4>2. Unrefused' => TreeFollows(d)'
        BY <1>1, <2>1, <3>1, <3>2, <4>1 DEF ClientOK, TreeFollows, LastAt, Own, Unrefused
      <4>3. Unrefused' => CacheFollows(d)'
        BY <1>1, <2>1, <3>1, <4>1 DEF ClientOK, CacheFollows, Own, Unrefused
      <4> QED BY <4>2, <4>3
    <3> QED BY <2>1, <2>2, <3>3, <3>4, <3>5 DEF ClientOK
  <2>4. CASE d = o
    <3>1. PutsInOrder(d)'
      <4>1. PutAge(issued', puts'[o][n + 1]) = m + 1 /\ Genuine(o, puts'[o][n + 1])
        BY <1>8, <1>b, <1>d DEF PutAge, Genuine
      <4>2. ASSUME NEW i \in 1..n
            PROVE  /\ Genuine(o, puts'[o][i]) /\ PutAge(issued', puts'[o][i]) > 0
                   /\ puts'[o][i].path = q => PutAge(issued', puts'[o][i]) < m + 1
        <5>1. puts'[o][i] = puts[o][i] /\ PutAge(issued', puts[o][i]) = PutAge(issued, puts[o][i])
          BY <1>1, <1>10, <1>b
        <5>2. PutAge(issued, puts[o][i]) \in 0..Len(issued[puts[o][i].path])
          BY <1>1, <1>9, <1>10, <1>b DEF PutAge
        <5>3. PutAge(issued, puts[o][i]) > 0 /\ Genuine(o, puts[o][i])
          BY <1>1, <1>10, <1>b
        <5> QED BY <1>c, <5>1, <5>2, <5>3
      <4>3. ASSUME NEW i \in 1..n, NEW j \in 1..n, i < j, puts'[o][i].path = puts'[o][j].path
            PROVE  PutAge(issued', puts'[o][i]) < PutAge(issued', puts'[o][j])
        <5>1. PutsInOrder(o)
          BY <2>1, <2>4 DEF ClientOK
        <5>2. /\ puts'[o][i] = puts[o][i] /\ PutAge(issued', puts[o][i]) = PutAge(issued, puts[o][i])
              /\ puts'[o][j] = puts[o][j] /\ PutAge(issued', puts[o][j]) = PutAge(issued, puts[o][j])
          BY <1>1, <1>10, <1>b
        <5> QED BY <1>b, <4>3, <5>1, <5>2 DEF PutsInOrder
      <4>4. \A i, j \in 1..n + 1 :
                i < j /\ puts'[o][i].path = puts'[o][j].path
                    => PutAge(issued', puts'[o][i]) < PutAge(issued', puts'[o][j])
        <5> SUFFICES ASSUME NEW i \in 1..n + 1, NEW j \in 1..n + 1, i < j,
                            puts'[o][i].path = puts'[o][j].path
                     PROVE  PutAge(issued', puts'[o][i]) < PutAge(issued', puts'[o][j])
          OBVIOUS
        <5>1. i \in 1..n /\ (j \in 1..n \/ j = n + 1)
          BY <1>b
        <5> QED BY <1>b, <4>1, <4>2, <4>3, <5>1
      <4>5. \A i \in 1..n + 1 : Genuine(o, puts'[o][i]) /\ PutAge(issued', puts'[o][i]) > 0
        BY <1>b, <1>c, <4>1, <4>2
      <4>6. applied'[o] <= Len(puts'[o])
        BY <1>1, <1>b, <2>1, <2>4
      <4> QED BY <1>b, <2>4, <4>4, <4>5, <4>6 DEF PutsInOrder, Genuine
    <3>2. LatestIsLast(d)'
      <4> SUFFICES ASSUME NEW p \in Own(o), NEW i \in 1..n + 1, LastAt(puts'[o], p, i, n + 1)
                   PROVE  PutAge(issued', puts'[o][i]) = Len(issued'[p])
        BY <1>b, <2>4 DEF LatestIsLast, Own
      <4>1. CASE p = q
        <5>1. i = n + 1
          BY <1>b, <4>1 DEF LastAt
        <5> QED BY <1>8, <1>b, <1>c, <4>1, <5>1 DEF PutAge
      <4>2. CASE p # q
        <5>1. i \in 1..n
          BY <1>b, <4>2 DEF LastAt
        <5>2. LastAt(puts[o], p, i, n)
          BY <1>b, <5>1 DEF LastAt
        <5>3. PutAge(issued, puts[o][i]) = Len(issued[p])
          BY <1>b, <2>1, <2>4, <5>1, <5>2 DEF ClientOK, LatestIsLast
        <5> QED BY <1>1, <1>4, <1>10, <1>b, <4>2, <5>1, <5>3 DEF Own
      <4> QED BY <4>1, <4>2
    <3>3. \A p : NoPut(o, p)' => NoPut(o, p) /\ p # q
      BY <1>b DEF NoPut
    <3>4. Unrefused' => TreeFollows(d)' /\ CacheFollows(d)'
      <4>1. \A p \in Own(o), i \in 1..applied[o] :
                LastAt(puts'[o], p, i, applied[o]) => LastAt(puts[o], p, i, applied[o])
        <5>1. \A j \in 1..applied[o] : puts'[o][j] = puts[o][j]
          BY <1>b, <2>1, <2>4
        <5>2. \A i \in 1..applied[o] : \A j \in i + 1..applied[o] : j \in 1..applied[o]
          BY <2>1, <2>4
        <5> QED BY <5>1, <5>2 DEF LastAt
      <4>2. \A i \in 1..applied[o] : puts'[o][i] = puts[o][i]
        BY <1>b, <2>1, <2>4
      <4>3. \A p \in Own(o) : NoPut(o, p)' => NoPut(o, p) /\ issued'[p] = issued[p]
        BY <1>4, <3>3 DEF Own
      <4>4. Unrefused' => TreeFollows(d)'
        BY <1>1, <2>1, <2>4, <4>1, <4>2, <4>3 DEF ClientOK, TreeFollows, Own, Unrefused
      <4>5. Unrefused' => CacheFollows(d)'
        BY <1>1, <2>1, <2>4, <4>3 DEF ClientOK, CacheFollows, Own, Unrefused
      <4> QED BY <4>4, <4>5
    <3> QED BY <2>1, <2>2, <3>1, <3>2, <3>4 DEF ClientOK
  <2> QED BY <2>3, <2>4
<1>12. ASSUME NEW x \in Writes PROVE ReportedIsStored(x)'
  <2> SUFFICES ASSUME At[x] \in Own(By[x]), Reported(x)
               PROVE  /\ Age(issued'[At[x]], x) > 0
                      /\ Age(issued'[At[x]], tree[At[x]]) >= Age(issued'[At[x]], x)
                      /\ \A i \in 1..Len(puts'[By[x]]) : puts'[By[x]][i].path = At[x] =>
                             PutAge(issued', puts'[By[x]][i]) > Age(issued'[At[x]], x)
    BY <1>1 DEF ReportedIsStored, Reported, Own
  <2>1. By[x] \in Clients /\ At[x] \in Paths
    BY RealtimeClientsAssumption
  <2>2. /\ Age(issued[At[x]], x) > 0
        /\ Age(issued[At[x]], tree[At[x]]) >= Age(issued[At[x]], x)
        /\ \A i \in 1..Len(puts[By[x]]) : puts[By[x]][i].path = At[x] =>
               PutAge(issued, puts[By[x]][i]) > Age(issued[At[x]], x)
    BY DEF ClientsInvariant, ReportedIsStored
  <2>3. /\ Age(issued'[At[x]], x) = Age(issued[At[x]], x)
        /\ Age(issued[At[x]], x) \in 0..Len(issued[At[x]])
    BY <1>9, <2>1, <2>2
  <2>4. Age(issued'[At[x]], tree[At[x]]) >= Age(issued'[At[x]], x)
    <3>1. Age(issued[At[x]], tree[At[x]]) \in Nat /\ Age(issued'[At[x]], tree[At[x]]) \in Nat
          /\ Age(issued'[At[x]], tree[At[x]]) >= Age(issued[At[x]], tree[At[x]])
      BY <1>9, <2>1
    <3> QED BY <2>2, <2>3, <3>1
  <2>5. ASSUME NEW i \in 1..Len(puts'[By[x]]), puts'[By[x]][i].path = At[x]
        PROVE  PutAge(issued', puts'[By[x]][i]) > Age(issued'[At[x]], x)
    <3>1. CASE i \in 1..Len(puts[By[x]]) /\ puts'[By[x]][i] = puts[By[x]][i]
      BY <1>10, <2>1, <2>2, <2>3, <2>5, <3>1
    <3>2. CASE By[x] = o /\ i = n + 1
      <4>1. At[x] = q /\ PutAge(issued', puts'[o][n + 1]) = m + 1
        BY <1>8, <1>b, <2>5, <3>2 DEF PutAge
      <4> QED BY <1>9, <1>c, <2>1, <2>3, <3>2, <4>1
    <3>3. CASE By[x] # o
      BY <1>3, <2>1, <3>1, <3>3
    <3> QED BY <1>b, <2>1, <3>1, <3>2, <3>3
  <2> QED BY <2>2, <2>3, <2>4, <2>5
<1> QED BY <1>6, <1>7, <1>11, <1>12 DEF ClientsInvariant

-----------------------------------------------------------------------------
(* Frames that come and go *)

\* f when one more frame, the k-th, answers; and when the first is handled,
\* with the first b answers.
WithAnswer(f, n, k) == [i \in 1..n + 1 |-> IF i <= n THEN f[i] ELSE k]
Handled(f, n, b) == [i \in 1..n |-> f[i + b] - 1]

\* A frame at the end of what is under way, with and without an answer.
LEMMA AnsweringMore ==
    ASSUME NEW S, NEW s \in Seq(S), NEW x \in S, NEW n \in Nat, NEW f, Answering(s, n, f)
    PROVE  /\ x.answer = "none" => Answering(Append(s, x), n, f)
           /\ x.answer # "none" =>
                  Answering(Append(s, x), n + 1, WithAnswer(f, n, Len(s) + 1))
<1> DEFINE t == Append(s, x)
           g == WithAnswer(f, n, Len(s) + 1)
<1>1. /\ Len(s) \in Nat /\ Len(t) = Len(s) + 1 /\ t[Len(s) + 1] = x
      /\ \A i \in 1..Len(s) : t[i] = s[i]
  BY AppendProperties, LenProperties
<1> HIDE DEF t
<1>2. /\ f \in [1..n -> 1..Len(s)]
      /\ \A i, j \in 1..n : i < j => f[i] < f[j]
      /\ \A k \in 1..Len(s) : s[k].answer # "none" <=> \E i \in 1..n : f[i] = k
  BY DEF Answering
<1>3. ASSUME x.answer = "none" PROVE Answering(t, n, f)
  <2>1. f \in [1..n -> 1..Len(t)]
    BY <1>1, <1>2
  <2>2. ASSUME NEW k \in 1..Len(t) PROVE t[k].answer # "none" <=> \E i \in 1..n : f[i] = k
    <3>1. CASE k = Len(s) + 1
      <4>1. \A i \in 1..n : f[i] \in 1..Len(s)
        BY <1>2
      <4> QED BY <1>1, <1>3, <3>1, <4>1
    <3>2. CASE k \in 1..Len(s)
      BY <1>1, <1>2, <3>2
    <3> QED BY <1>1, <3>1, <3>2
  <2> QED BY <1>2, <2>1, <2>2 DEF Answering
<1>4. ASSUME x.answer # "none" PROVE Answering(t, n + 1, g)
  <2>1. /\ g[n + 1] = Len(s) + 1
        /\ \A i \in 1..n : g[i] = f[i] /\ f[i] \in 1..Len(s)
    BY <1>2 DEF WithAnswer
  <2>2. g \in [1..n + 1 -> 1..Len(t)]
    BY <1>1, <1>2 DEF WithAnswer
  <2> HIDE DEF g
  <2>3. ASSUME NEW i \in 1..n + 1, NEW j \in 1..n + 1, i < j PROVE g[i] < g[j]
    <3>1. i \in 1..n /\ g[i] = f[i] /\ f[i] \in 1..Len(s)
      BY <2>1, <2>3
    <3>2. CASE j \in 1..n
      BY <1>2, <2>1, <2>3, <3>1, <3>2
    <3>3. CASE j = n + 1
      BY <1>1, <2>1, <3>1, <3>3
    <3> QED BY <3>2, <3>3
  <2>4. ASSUME NEW k \in 1..Len(t) PROVE t[k].answer # "none" <=> \E i \in 1..n + 1 : g[i] = k
    <3>1. CASE k = Len(s) + 1
      BY <1>1, <1>4, <2>1, <3>1
    <3>2. CASE k \in 1..Len(s)
      <4>1. t[k] = s[k] /\ k # Len(s) + 1
        BY <1>1, <3>2
      <4>2. (\E i \in 1..n + 1 : g[i] = k) <=> \E i \in 1..n : f[i] = k
        <5>1. ASSUME NEW i \in 1..n + 1, g[i] = k PROVE \E j \in 1..n : f[j] = k
          <6>1. i # n + 1
            BY <2>1, <4>1, <5>1
          <6>2. i \in 1..n
            BY <6>1
          <6> QED BY <2>1, <5>1, <6>2
        <5>2. ASSUME NEW i \in 1..n, f[i] = k PROVE \E j \in 1..n + 1 : g[j] = k
          BY <2>1, <5>2
        <5> QED BY <5>1, <5>2
      <4> QED BY <1>2, <3>2, <4>1, <4>2
    <3> QED BY <1>1, <3>1, <3>2
  <2> QED BY <2>2, <2>3, <2>4 DEF Answering
<1> QED BY <1>3, <1>4 DEF t

\* The elements of a sequence without its first one.
LEMMA AfterTail ==
    ASSUME NEW S, NEW s \in Seq(S), s # <<>>
    PROVE  /\ Len(s) \in Nat /\ Len(s) # 0 /\ Head(s) = s[1] /\ s[1] \in S
           /\ Tail(s) \in Seq(S) /\ Len(Tail(s)) = Len(s) - 1
           /\ \A i \in 1..Len(s) - 1 : Tail(s)[i] = s[i + 1]
BY HeadTailProperties, EmptySeq, LenProperties, ElementOfSeq

\* The first frame is handled, with and without an answer.
LEMMA AnsweringLess ==
    ASSUME NEW S, NEW s \in Seq(S), s # <<>>, NEW n \in Nat, NEW f, Answering(s, n, f)
    PROVE  /\ s[1].answer = "none" =>
                  Answering(Tail(s), n, Handled(f, n, 0))
           /\ s[1].answer # "none" =>
                  /\ n > 0 /\ f[1] = 1
                  /\ Answering(Tail(s), n - 1, Handled(f, n - 1, 1))
<1> DEFINE t == Tail(s)
<1>1. /\ Len(s) \in Nat /\ Len(s) # 0 /\ Len(t) = Len(s) - 1 /\ Len(t) \in Nat
      /\ \A i \in 1..Len(s) - 1 : t[i] = s[i + 1]
  BY AfterTail
<1> HIDE DEF t
<1>2. /\ f \in [1..n -> 1..Len(s)]
      /\ \A i, j \in 1..n : i < j => f[i] < f[j]
      /\ \A k \in 1..Len(s) : s[k].answer # "none" <=> \E i \in 1..n : f[i] = k
  BY DEF Answering
<1>3. ASSUME s[1].answer = "none" PROVE Answering(t, n, Handled(f, n, 0))
  <2> DEFINE g == Handled(f, n, 0)
  <2>1. \A i \in 1..n : f[i] \in 2..Len(s) /\ g[i] = f[i] - 1
    BY <1>1, <1>2, <1>3 DEF Handled
  <2>2. g \in [1..n -> 1..Len(t)]
    BY <1>1, <2>1 DEF Handled
  <2> HIDE DEF g
  <2>3. \A i, j \in 1..n : i < j => g[i] < g[j]
    BY <1>1, <1>2, <2>1
  <2>4. ASSUME NEW k \in 1..Len(t) PROVE t[k].answer # "none" <=> \E i \in 1..n : g[i] = k
    <3>1. k + 1 \in 1..Len(s) /\ t[k] = s[k + 1]
      BY <1>1
    <3>2. ASSUME NEW i \in 1..n PROVE g[i] = k <=> f[i] = k + 1
      <4>1. f[i] \in Int /\ g[i] = f[i] - 1 /\ k \in Int
        BY <1>1, <2>1
      <4> QED BY <4>1
    <3> QED BY <1>2, <3>1, <3>2
  <2>5. Answering(t, n, g)
    BY <2>2, <2>3, <2>4 DEF Answering
  <2> QED BY <2>5 DEF g
<1>4. ASSUME s[1].answer # "none"
      PROVE  n > 0 /\ f[1] = 1 /\ Answering(t, n - 1, Handled(f, n - 1, 1))
  <2> DEFINE g == Handled(f, n - 1, 1)
  <2>1. PICK i \in 1..n : f[i] = 1
    BY <1>1, <1>2, <1>4
  <2>2. n > 0 /\ f[1] = 1
    <3>1. f[1] \in 1..Len(s) /\ (1 < i => f[1] < f[i])
      BY <1>2
    <3> QED BY <1>1, <2>1, <3>1
  <2>3. \A j \in 1..n - 1 : /\ j + 1 \in 1..n /\ f[j + 1] \in 2..Len(s)
                            /\ g[j] = f[j + 1] - 1
    <3> SUFFICES ASSUME NEW j \in 1..n - 1
                 PROVE  j + 1 \in 1..n /\ f[j + 1] \in 2..Len(s)
      BY DEF Handled
    <3>1. j + 1 \in 1..n /\ 1 \in 1..n /\ 1 < j + 1
      BY <2>2
    <3>2. f[j + 1] \in 1..Len(s) /\ f[1] < f[j + 1]
      BY <1>2, <3>1
    <3> QED BY <1>1, <2>2, <3>1, <3>2
  <2>4. g \in [1..n - 1 -> 1..Len(t)]
    BY <1>1, <2>3 DEF Handled
  <2> HIDE DEF g
  <2>5. ASSUME NEW j \in 1..n - 1, NEW l \in 1..n - 1, j < l PROVE g[j] < g[l]
    <3>1. f[j + 1] < f[l + 1]
      BY <1>2, <2>3, <2>5
    <3> QED BY <1>1, <2>3, <3>1
  <2>6. ASSUME NEW k \in 1..Len(t) PROVE t[k].answer # "none" <=> \E j \in 1..n - 1 : g[j] = k
    <3>1. k + 1 \in 1..Len(s) /\ t[k] = s[k + 1]
      BY <1>1
    <3>2. ASSUME NEW j \in 1..n - 1 PROVE g[j] = k <=> f[j + 1] = k + 1
      <4>1. f[j + 1] \in Int /\ g[j] = f[j + 1] - 1 /\ k \in Int
        BY <1>1, <2>3
      <4> QED BY <4>1
    <3>3. (\E j \in 1..n : f[j] = k + 1) <=> \E j \in 1..n - 1 : f[j + 1] = k + 1
      <4>1. ASSUME NEW j \in 1..n, f[j] = k + 1 PROVE \E l \in 1..n - 1 : f[l + 1] = k + 1
        <5>1. j # 1
          BY <1>1, <2>2, <4>1
        <5>2. j - 1 \in 1..n - 1 /\ (j - 1) + 1 = j
          BY <5>1
        <5> QED BY <4>1, <5>2
      <4> QED BY <2>3, <4>1
    <3> QED BY <1>2, <3>1, <3>2, <3>3
  <2>7. Answering(t, n - 1, g)
    BY <2>4, <2>5, <2>6 DEF Answering
  <2> QED BY <2>2, <2>7 DEF g
<1> QED BY <1>3, <1>4 DEF t

-----------------------------------------------------------------------------
(* Blocks *)

\* What a completion block says was on its way to it before.
LEMMA CompleteKeeps ==
    ASSUME ClientsInvariant, NEW c \in Clients, Complete(c)
    PROVE  ClientsInvariant'
<1> DEFINE b == Head(blocks[c])
<1>1. /\ TypeOK /\ IssuedOnce /\ blocks[c] \in Seq(Block) /\ blocks[c] # <<>>
      /\ blocks' = [blocks EXCEPT ![c] = Tail(blocks[c])]
      /\ outcome' = [outcome EXCEPT ![b.caller] = b.answer]
      /\ UNCHANGED <<tree, puts, applied, inbox, cache, synced, online, faults, issued>>
  BY ShapesOf DEF ClientsInvariant, Complete, RunBlock
<1>2. /\ Len(blocks[c]) \in Nat /\ Len(blocks[c]) # 0 /\ b = blocks[c][1] /\ b \in Block
      /\ Tail(blocks[c]) \in Seq(Block) /\ Len(Tail(blocks[c])) = Len(blocks[c]) - 1
      /\ \A i \in 1..Len(blocks[c]) - 1 : Tail(blocks[c])[i] = blocks[c][i + 1]
  BY <1>1, AfterTail
<1>3. blocks'[c] = Tail(blocks[c]) /\ \A d \in Clients \ {c} : blocks'[d] = blocks[d]
  BY <1>1 DEF TypeOK, DbTypeOK
<1>4. BlocksAnswer(c) /\ By[b.caller] = c /\ b.answer \in {"ok", "refused"} /\ b.caller \in Writes
  <2>1. BlocksAnswer(c)
    BY DEF ClientsInvariant, ClientOK
  <2>2. By[b.caller] = c /\ b.answer # "value"
    BY <1>2, <2>1 DEF BlocksAnswer
  <2> QED BY <1>2, <2>1, <2>2, RealtimeClientsAssumption DEF Block
<1>5. TypeOK'
  <2>1. outcome' \in [Writes -> Outcomes]
    BY <1>1, <1>4 DEF TypeOK, Outcomes
  <2>2. blocks' \in [Clients -> Seq(Block)]
    BY <1>1, <1>2 DEF TypeOK, DbTypeOK
  <2> QED BY <1>1, <2>1, <2>2 DEF TypeOK, DbTypeOK
<1>6. IssuedOnce'
  BY <1>1 DEF IssuedOnce
<1>7. ASSUME NEW d \in Clients PROVE ClientOK(d)'
  <2>1. CASE d # c
    BY <1>1, <1>3, <2>1, OthersStay DEF ClientsInvariant, Unrefused
  <2>2. CASE d = c
    <3>1. ClientOK(c)
      BY DEF ClientsInvariant
    <3>2. BlocksAnswer(c)'
      BY <1>2, <1>3, <1>4 DEF BlocksAnswer
    <3>3. FramesFollow(c)'
      <4>1. PICK f : Answering(inbox[c], applied[c], f) /\ Truthful(c, f)
                     /\ (Unrefused => Showing(c, f))
        BY <3>1 DEF ClientOK, FramesFollow
      <4>2. Truthful(c, f)' /\ (Unrefused' => Showing(c, f)')
        BY <1>1, <4>1 DEF Truthful, Showing, Own, Unrefused
      <4> QED BY <1>1, <4>1, <4>2 DEF FramesFollow
    <3>4. PutsInOrder(c)' /\ LatestIsLast(c)'
      BY <1>1, <3>1 DEF ClientOK, PutsInOrder, LatestIsLast, Own
    <3>5. Unrefused' => TreeFollows(c)' /\ CacheFollows(c)'
      BY <1>1, <3>1 DEF ClientOK, TreeFollows, CacheFollows, NoPut, Own, Unrefused
    <3> QED BY <2>2, <3>2, <3>3, <3>4, <3>5 DEF ClientOK
  <2> QED BY <2>1, <2>2
<1>8. ASSUME NEW w \in Writes PROVE ReportedIsStored(w)'
  <2>1. ASSUME Reported(w)' PROVE Reported(w)
    <3>1. CASE outcome'[w] = "ok"
      <4>1. CASE outcome[w] = "ok"
        BY <4>1 DEF Reported
      <4>2. CASE w = b.caller /\ b.answer = "ok"
        BY <1>2, <1>4, <4>2 DEF Reported
      <4> QED BY <1>1, <3>1, <4>1, <4>2 DEF TypeOK
    <3>2. ASSUME NEW i \in 1..Len(blocks'[By[w]]), blocks'[By[w]][i].caller = w,
                 blocks'[By[w]][i].answer = "ok"
          PROVE  Reported(w)
      <4>1. By[w] \in Clients
        BY RealtimeClientsAssumption
      <4>2. CASE By[w] = c
        <5>1. i \in 1..Len(blocks[c]) - 1
          BY <1>2, <1>3, <4>2
        <5>2. i + 1 \in 1..Len(blocks[c]) /\ blocks'[c][i] = blocks[c][i + 1]
          BY <1>2, <1>3, <5>1
        <5> QED BY <3>2, <4>2, <5>2 DEF Reported
      <4>3. CASE By[w] # c
        BY <1>3, <3>2, <4>1, <4>3 DEF Reported
      <4> QED BY <4>2, <4>3
    <3> QED BY <2>1, <3>1, <3>2 DEF Reported
  <2> QED BY <1>1, <2>1, ReportedStays DEF ClientsInvariant
<1> QED BY <1>5, <1>6, <1>7, <1>8 DEF ClientsInvariant

-----------------------------------------------------------------------------
(* The server *)

\* A refused write is answered, and from then on nothing is promised but the
\* order of the writes and the truth of the answers.
LEMMA RefuseKeeps ==
    ASSUME ClientsInvariant, NEW c \in Clients, Refuse(c), UNCHANGED clientVars
    PROVE  ClientsInvariant'
<1> DEFINE x == Frame(tree, c, "refused")
           a == applied[c]
<1>1. /\ TypeOK /\ IssuedOnce
      /\ inbox' = [inbox EXCEPT ![c] = Append(inbox[c], x)]
      /\ applied' = [applied EXCEPT ![c] = a + 1]
      /\ a < Len(puts[c])
      /\ UNCHANGED <<tree, puts, cache, synced, online, blocks, issued, outcome>>
  BY DEF ClientsInvariant, Refuse, HasNextPut, clientVars
<1>2. TypeOK' /\ IssuedOnce'
  BY <1>1, RefuseType DEF TypeOK, IssuedOnce
<1>3. ~Unrefused'
  BY <1>1 DEF Refuse, Spend, Unrefused, TypeOK, DbTypeOK, FaultKinds
<1>4. ASSUME NEW d \in Clients PROVE ClientOK(d)'
  <2>1. CASE d # c
    BY <1>1, <1>3, <2>1, OthersStay DEF ClientsInvariant, TypeOK, DbTypeOK
  <2>2. CASE d = c
    <3>1. /\ ClientOK(c) /\ inbox[c] \in Seq(Frames) /\ Len(inbox[c]) \in Nat /\ a \in Nat
          /\ x \in Frames /\ x.answer = "refused" /\ Len(puts[c]) \in Nat
          /\ inbox'[c] = Append(inbox[c], x) /\ applied'[c] = a + 1
      BY <1>1, ShapesOf, FrameType DEF ClientsInvariant, TypeOK, DbTypeOK, Frame, Answers
    <3>2. PutsInOrder(c)' /\ LatestIsLast(c)' /\ BlocksAnswer(c)'
      BY <1>1, <3>1 DEF ClientOK, PutsInOrder, LatestIsLast, BlocksAnswer, Own
    <3>3. FramesFollow(c)'
      <4>1. PICK f : Answering(inbox[c], a, f) /\ Truthful(c, f)
        BY <3>1 DEF ClientOK, FramesFollow
      <4>1a. PICK g : g = WithAnswer(f, a, Len(inbox[c]) + 1)
        OBVIOUS
      <4>2. Answering(inbox'[c], a + 1, g)
        BY <3>1, <4>1, <4>1a, AnsweringMore
      <4>3. Truthful(c, g)'
        <5> SUFFICES ASSUME NEW i \in 1..a + 1, inbox'[c][g[i]].answer = "ok",
                            puts[c][i].path \in Own(c)
                     PROVE  Age(issued[puts[c][i].path], tree[puts[c][i].path])
                                >= PutAge(issued, puts[c][i])
          BY <1>1, <3>1 DEF Truthful, Own
        <5>1. inbox'[c][Len(inbox[c]) + 1] = x
              /\ \A k \in 1..Len(inbox[c]) : inbox'[c][k] = inbox[c][k]
          BY <3>1, AppendProperties
        <5>2. i # a + 1
          BY <3>1, <4>1a, <5>1 DEF WithAnswer
        <5>3. i \in 1..a /\ f[i] \in 1..Len(inbox[c])
          <6>1. f \in [1..a -> 1..Len(inbox[c])]
            BY <4>1 DEF Answering
          <6>2. i \in 1..a
            BY <3>1, <5>2
          <6> QED BY <6>1, <6>2
        <5>4. g[i] = f[i]
          BY <3>1, <4>1a, <5>3 DEF WithAnswer
        <5> QED BY <4>1, <5>1, <5>3, <5>4 DEF Truthful
      <4> QED BY <1>3, <3>1, <4>2, <4>3 DEF FramesFollow
    <3> QED BY <1>3, <2>2, <3>2, <3>3 DEF ClientOK
  <2> QED BY <2>1, <2>2
<1>5. ASSUME NEW w \in Writes PROVE ReportedIsStored(w)'
  <2>1. Reported(w)' => Reported(w)
    BY <1>1 DEF Reported
  <2> QED BY <1>1, <2>1, ReportedStays DEF ClientsInvariant
<1> QED BY <1>2, <1>4, <1>5 DEF ClientsInvariant

\* The server stores the next write, tells the listeners and answers: nobody
\* else's paths change, and no write outstanding is older.
LEMMA ApplyKeeps ==
    ASSUME ClientsInvariant, NEW c \in Clients, Apply(c), UNCHANGED clientVars
    PROVE  ClientsInvariant'
<1> DEFINE a == applied[c]
           put == NextPut(c)
           q == put.path
<1>1. /\ TypeOK /\ IssuedOnce /\ a < Len(puts[c])
      /\ tree' = [tree EXCEPT ![q] = put.value]
      /\ applied' = [applied EXCEPT ![c] = a + 1]
      /\ UNCHANGED <<puts, cache, synced, online, blocks, faults, issued, outcome>>
  BY DEF ClientsInvariant, Apply, HasNextPut, clientVars
<1>2. TypeOK' /\ IssuedOnce'
  BY <1>1, ApplyType DEF TypeOK, IssuedOnce
<1>3. /\ puts[c] \in Seq(Put) /\ Len(puts[c]) \in Nat /\ a \in Nat /\ tree \in Trees
      /\ a + 1 \in 1..Len(puts[c]) /\ put = puts[c][a + 1] /\ put \in Put
  <2>1. puts[c] \in Seq(Put) /\ Len(puts[c]) \in Nat /\ a \in Nat /\ tree \in Trees
    BY <1>1, ShapesOf
  <2>2. a + 1 \in 1..Len(puts[c])
    BY <1>1, <2>1
  <2> QED BY <2>1, <2>2 DEF NextPut
<1>4. /\ q \in Paths /\ tree'[q] = put.value
      /\ \A p \in Paths \ {q} : tree'[p] = tree[p]
  BY <1>1, <1>3 DEF Put, Trees
<1>5. PutsInOrder(c) /\ Genuine(c, put)
  BY <1>3 DEF ClientsInvariant, ClientOK, PutsInOrder
<1>6. \A d \in Clients : q \in Own(d) => d = c
  BY <1>5, OnlyTheOwnerWrites DEF Genuine
<1>7. ASSUME NEW d \in Clients
      PROVE  /\ inbox[d] \in Seq(Frames) /\ Len(inbox[d]) \in Nat /\ applied[d] \in Nat
             /\ \A answer \in Answers : Frame(tree', d, answer) \in Frames
  BY <1>1, <1>2, ShapesOf, FrameType DEF TypeOK, DbTypeOK
<1>8. ASSUME NEW d \in Clients, d # c PROVE ClientOK(d)'
  <2>0. PICK x : x = Frame(tree', d, "none")
    OBVIOUS
  <2>1. inbox'[d] = inbox[d] \/ inbox'[d] = Append(inbox[d], x)
    BY <1>8, <2>0 DEF Apply
  <2>2. /\ x \in Frames /\ x.answer = "none"
        /\ \A p \in Own(d) : tree'[p] = tree[p] /\ (p \in Watch[d] => x.data[p] = tree[p])
    BY <1>4, <1>6, <1>7, <1>8, <2>0 DEF Own, Frame, Watched, Answers
  <2>3. /\ \A k \in 1..Len(inbox[d]) : inbox'[d][k] = inbox[d][k]
        /\ \A k \in 1..Len(inbox'[d]) : k \in 1..Len(inbox[d])
                                        \/ (k = Len(inbox[d]) + 1 /\ inbox'[d][k] = x)
    <3>1. CASE inbox'[d] = inbox[d]
      BY <3>1
    <3>2. CASE inbox'[d] = Append(inbox[d], x)
      <4>1. /\ Len(inbox'[d]) = Len(inbox[d]) + 1 /\ inbox'[d][Len(inbox[d]) + 1] = x
            /\ \A k \in 1..Len(inbox[d]) : inbox'[d][k] = inbox[d][k]
        BY <1>7, <2>2, <3>2, AppendProperties
      <4> QED BY <1>7, <4>1
    <3> QED BY <2>1, <3>1, <3>2
  <2>4. ClientOK(d) /\ applied'[d] = applied[d]
    BY <1>1, <1>8 DEF ClientsInvariant, TypeOK, DbTypeOK
  <2>5. PutsInOrder(d)' /\ LatestIsLast(d)' /\ BlocksAnswer(d)'
    BY <1>1, <2>4 DEF ClientOK, PutsInOrder, LatestIsLast, BlocksAnswer, Own
  <2>6. Unrefused' => TreeFollows(d)'
    BY <1>1, <2>2, <2>4 DEF ClientOK, TreeFollows, NoPut, Own, Unrefused
  <2>7. Unrefused' => CacheFollows(d)'
    <3> SUFFICES ASSUME Unrefused, NEW p \in Own(d) \cap Watch[d], NoPut(d, p)
                 PROVE  /\ Age(issued[p], cache[d][p]) = Len(issued[p])
                        /\ \A k \in 1..Len(inbox'[d]) :
                               Age(issued[p], inbox'[d][k].data[p]) = Len(issued[p])
      BY <1>1 DEF CacheFollows, NoPut, Own, Unrefused
    <3>1. /\ Age(issued[p], cache[d][p]) = Len(issued[p])
          /\ \A k \in 1..Len(inbox[d]) : Age(issued[p], inbox[d][k].data[p]) = Len(issued[p])
          /\ Age(issued[p], tree[p]) = Len(issued[p])
      BY <2>4 DEF ClientOK, CacheFollows, TreeFollows
    <3> QED BY <2>2, <2>3, <3>1
  <2>8. FramesFollow(d)'
    <3>1. PICK f : Answering(inbox[d], applied[d], f) /\ Truthful(d, f)
                   /\ (Unrefused => Showing(d, f))
      BY <2>4 DEF ClientOK, FramesFollow
    <3>2. Answering(inbox'[d], applied[d], f)
      <4>1. inbox[d] \in Seq(Frames) /\ applied[d] \in Nat
        BY <1>7
      <4> QED BY <2>1, <2>2, <3>1, <4>1, AnsweringMore
    <3>3. \A i \in 1..applied[d] : f[i] \in 1..Len(inbox[d])
      BY <3>1 DEF Answering
    <3>4. Truthful(d, f)'
      BY <1>1, <2>2, <2>3, <2>4, <3>1, <3>3 DEF Truthful, Own
    <3>5. Unrefused' => Showing(d, f)'
      <4> SUFFICES ASSUME Unrefused, NEW p \in Own(d) \cap Watch[d],
                          NEW k \in 1..Len(inbox'[d]), NEW i \in 1..applied[d],
                          f[i] <= k, puts[d][i].path = p,
                          \A j \in i + 1..applied[d] : f[j] <= k => puts[d][j].path # p
                   PROVE  inbox'[d][k].data[p] = puts[d][i].value
        BY <1>1, <2>4 DEF Showing, Own, Unrefused
      <4>1. CASE k \in 1..Len(inbox[d])
        <5>1. Showing(d, f)
          BY <3>1
        <5>2. inbox[d][k].data[p] = puts[d][i].value
          BY <4>1, <5>1 DEF Showing
        <5> QED BY <2>3, <4>1, <5>2
      <4>2. CASE k = Len(inbox[d]) + 1 /\ inbox'[d][k] = x
        <5>1. \A j \in 1..applied[d] : f[j] <= k
          BY <1>7, <3>3, <4>2
        <5>2. LastAt(puts[d], p, i, applied[d])
          BY <1>7, <5>1 DEF LastAt
        <5>3. tree[p] = puts[d][i].value
          BY <2>4, <5>2 DEF ClientOK, TreeFollows
        <5> QED BY <2>2, <4>2, <5>3
      <4> QED BY <2>3, <4>1, <4>2
    <3> QED BY <2>4, <3>2, <3>4, <3>5 DEF FramesFollow
  <2> QED BY <2>5, <2>6, <2>7, <2>8 DEF ClientOK
<1>9. ClientOK(c)'
  <2> DEFINE n == Len(inbox[c])
  <2>0. PICK x : x = Frame(tree', c, "ok")
    OBVIOUS
  <2>1. inbox'[c] = Append(inbox[c], x)
    BY <2>0 DEF Apply
  <2>2. /\ x \in Frames /\ x.answer = "ok"
        /\ \A p \in Own(c) \cap Watch[c] : x.data[p] = tree'[p]
    BY <1>7, <2>0 DEF Own, Frame, Watched, Answers
  <2>3. /\ \A k \in 1..n : inbox'[c][k] = inbox[c][k]
        /\ Len(inbox'[c]) = n + 1 /\ inbox'[c][n + 1] = x
    BY <1>7, <2>1, <2>2, AppendProperties
  <2>4. ClientOK(c) /\ applied'[c] = a + 1
    BY <1>1 DEF ClientsInvariant, TypeOK, DbTypeOK
  <2>5. PutsInOrder(c)' /\ LatestIsLast(c)' /\ BlocksAnswer(c)'
    BY <1>1, <1>3, <2>4 DEF ClientOK, PutsInOrder, LatestIsLast, BlocksAnswer, Own
  <2>6. \A p : NoPut(c, p) => p # q
    BY <1>3 DEF NoPut
  <2>7. Unrefused' => TreeFollows(c)'
    <3> SUFFICES ASSUME Unrefused, NEW p \in Own(c)
                 PROVE  /\ NoPut(c, p) => Age(issued[p], tree'[p]) = Len(issued[p])
                        /\ \A i \in 1..a + 1 :
                               LastAt(puts[c], p, i, a + 1) => tree'[p] = puts[c][i].value
      BY <1>1, <2>4 DEF TreeFollows, NoPut, Own, Unrefused
    <3>1. TreeFollows(c) /\ p \in Paths
      BY <2>4 DEF ClientOK, Own
    <3>2. NoPut(c, p) => Age(issued[p], tree'[p]) = Len(issued[p])
      BY <1>4, <2>6, <3>1 DEF TreeFollows
    <3>3. ASSUME NEW i \in 1..a + 1, LastAt(puts[c], p, i, a + 1)
          PROVE  tree'[p] = puts[c][i].value
      <4>1. CASE p = q
        <5>1. i = a + 1
          BY <1>3, <3>3, <4>1 DEF LastAt
        <5> QED BY <1>3, <1>4, <4>1, <5>1
      <4>2. CASE p # q
        <5>1. i \in 1..a /\ LastAt(puts[c], p, i, a)
          BY <1>3, <3>3, <4>2 DEF LastAt
        <5> QED BY <1>4, <3>1, <4>2, <5>1 DEF TreeFollows
      <4> QED BY <4>1, <4>2
    <3> QED BY <3>2, <3>3
  <2>8. Unrefused' => CacheFollows(c)'
    <3> SUFFICES ASSUME Unrefused, NEW p \in Own(c) \cap Watch[c], NoPut(c, p)
                 PROVE  /\ Age(issued[p], cache[c][p]) = Len(issued[p])
                        /\ \A k \in 1..Len(inbox'[c]) :
                               Age(issued[p], inbox'[c][k].data[p]) = Len(issued[p])
      BY <1>1 DEF CacheFollows, NoPut, Own, Unrefused
    <3>1. /\ Age(issued[p], cache[c][p]) = Len(issued[p])
          /\ \A k \in 1..n : Age(issued[p], inbox[c][k].data[p]) = Len(issued[p])
          /\ Age(issued[p], tree[p]) = Len(issued[p])
      BY <2>4 DEF ClientOK, CacheFollows, TreeFollows
    <3>2. x.data[p] = tree[p]
      BY <1>4, <2>2, <2>6 DEF Own
    <3>3. n \in Nat /\ \A k \in 1..n + 1 : k \in 1..n \/ k = n + 1
      BY <1>7
    <3> QED BY <2>3, <3>1, <3>2, <3>3
  <2>9. FramesFollow(c)'
    <3>1. PICK f : Answering(inbox[c], a, f) /\ Truthful(c, f) /\ (Unrefused => Showing(c, f))
      BY <2>4 DEF ClientOK, FramesFollow
    <3>1a. PICK g : g = WithAnswer(f, a, n + 1)
      OBVIOUS
    <3>2. Answering(inbox'[c], a + 1, g)
      <4>1. inbox[c] \in Seq(Frames) /\ a \in Nat
        BY <1>3, <1>7
      <4>2. x \in Frames /\ x.answer # "none" /\ Answering(inbox[c], a, f)
        BY <2>2, <3>1
      <4>3. Answering(Append(inbox[c], x), a + 1, g)
        BY <3>1a, <4>1, <4>2, AnsweringMore
      <4> QED BY <2>1, <4>3
    <3>3. /\ g[a + 1] = n + 1
          /\ \A i \in 1..a : g[i] = f[i] /\ f[i] \in 1..n
      <4>1. g[a + 1] = n + 1 /\ \A i \in 1..a : g[i] = f[i]
        BY <1>3, <3>1a DEF WithAnswer
      <4>2. f \in [1..a -> 1..n]
        BY <3>1 DEF Answering
      <4> QED BY <4>1, <4>2
    <3>4. Truthful(c, g)'
      <4> SUFFICES ASSUME NEW i \in 1..a + 1, inbox'[c][g[i]].answer = "ok",
                          puts[c][i].path \in Own(c)
                   PROVE  Age(issued[puts[c][i].path], tree'[puts[c][i].path])
                              >= PutAge(issued, puts[c][i])
        BY <1>1, <2>4 DEF Truthful, Own
      <4> DEFINE p == puts[c][i].path
      <4>1. Age(issued[q], tree'[q]) = PutAge(issued, put)
        BY <1>4 DEF PutAge
      <4>2. p \in Paths /\ \A v : Age(issued[p], v) \in 0..Len(issued[p])
        <5>1. p \in Paths
          BY DEF Own
        <5> QED BY <1>1, <5>1, ShapesOf, AgeIsPlace
      <4>3. Len(issued[p]) \in Nat
        BY <1>1, <4>2, ShapesOf
      <4>4. CASE i = a + 1
        <5>1. puts[c][i] = put /\ p = q
          BY <1>3, <4>4
        <5>2. Age(issued[p], tree'[p]) \in Nat
          BY <4>2, <4>3
        <5> QED BY <4>1, <5>1, <5>2
      <4>5. CASE i \in 1..a /\ p = q
        <5>1. i \in 1..Len(puts[c]) /\ i < a + 1
          BY <1>3, <4>5
        <5>2. PutAge(issued, puts[c][i]) < PutAge(issued, put)
          BY <1>3, <1>5, <4>5, <5>1 DEF PutsInOrder
        <5>3. PutAge(issued, puts[c][i]) \in Nat /\ Age(issued[p], tree'[p]) \in Nat
          BY <4>2, <4>3 DEF PutAge
        <5> QED BY <4>1, <4>5, <5>2, <5>3
      <4>6. CASE i \in 1..a /\ p # q
        <5>1. inbox[c][f[i]].answer = "ok"
          BY <2>3, <3>3, <4>6
        <5>2. Age(issued[p], tree[p]) >= PutAge(issued, puts[c][i])
          BY <3>1, <4>6, <5>1 DEF Truthful
        <5> QED BY <1>4, <4>2, <4>6, <5>2
      <4> QED BY <1>3, <4>4, <4>5, <4>6
    <3>5. Unrefused' => Showing(c, g)'
      <4> SUFFICES ASSUME Unrefused, NEW p \in Own(c) \cap Watch[c],
                          NEW k \in 1..n + 1, NEW i \in 1..a + 1,
                          g[i] <= k, puts[c][i].path = p,
                          \A j \in i + 1..a + 1 : g[j] <= k => puts[c][j].path # p
                   PROVE  inbox'[c][k].data[p] = puts[c][i].value
        <5>1. Len(inbox'[c]) = n + 1 /\ applied'[c] = a + 1 /\ puts'[c] = puts[c]
              /\ (Unrefused' => Unrefused)
          BY <1>1, <2>3, <2>4 DEF Unrefused
        <5> QED BY <5>1 DEF Showing, Own
      <4>1. CASE k \in 1..n
        <5>1. i # a + 1
          BY <1>7, <3>3, <4>1
        <5>2. i \in 1..a /\ g[i] = f[i]
          BY <1>3, <3>3, <5>1
        <5>3. \A j \in i + 1..a : f[j] <= k => puts[c][j].path # p
          <6>1. \A j \in i + 1..a : j \in i + 1..a + 1 /\ j \in 1..a
            BY <1>3, <5>2
          <6> QED BY <3>3, <6>1
        <5>4. inbox[c][k].data[p] = puts[c][i].value
          BY <3>1, <4>1, <5>2, <5>3 DEF Showing
        <5> QED BY <2>3, <4>1, <5>4
      <4>2. CASE k = n + 1
        <5>1. \A j \in 1..a + 1 : g[j] <= k
          <6>1. \A j \in 1..a + 1 : j \in 1..a \/ j = a + 1
            BY <1>3
          <6>2. n \in Nat
            BY <1>7
          <6> QED BY <3>3, <4>2, <6>1, <6>2
        <5>2. LastAt(puts[c], p, i, a + 1)
          BY <1>3, <5>1 DEF LastAt
        <5>3. TreeFollows(c)'
          BY <1>1, <2>7 DEF Unrefused
        <5>4. tree'[p] = puts[c][i].value
          BY <1>1, <2>4, <5>2, <5>3 DEF TreeFollows, Own
        <5> QED BY <2>2, <2>3, <4>2, <5>4
      <4> QED BY <1>7, <4>1, <4>2
    <3> QED BY <2>4, <3>2, <3>4, <3>5 DEF FramesFollow
  <2> QED BY <2>5, <2>7, <2>8, <2>9 DEF ClientOK
<1>10. ASSUME NEW w \in Writes PROVE ReportedIsStored(w)'
  <2> SUFFICES ASSUME At[w] \in Own(By[w]), Reported(w)
               PROVE  /\ Age(issued[At[w]], w) > 0
                      /\ Age(issued[At[w]], tree'[At[w]]) >= Age(issued[At[w]], w)
                      /\ \A i \in 1..Len(puts[By[w]]) : puts[By[w]][i].path = At[w] =>
                             PutAge(issued, puts[By[w]][i]) > Age(issued[At[w]], w)
    BY <1>1 DEF ReportedIsStored, Reported, Own
  <2>1. /\ Age(issued[At[w]], w) > 0
        /\ Age(issued[At[w]], tree[At[w]]) >= Age(issued[At[w]], w)
        /\ \A i \in 1..Len(puts[By[w]]) : puts[By[w]][i].path = At[w] =>
               PutAge(issued, puts[By[w]][i]) > Age(issued[At[w]], w)
    BY DEF ClientsInvariant, ReportedIsStored
  <2>2. At[w] \in Paths /\ By[w] \in Clients
    BY RealtimeClientsAssumption
  <2>3. CASE At[w] = q
    <3>1. By[w] = c
      BY <1>6, <2>2, <2>3
    <3>2. PutAge(issued, put) > Age(issued[q], w)
      BY <1>3, <2>1, <2>3, <3>1
    <3>3. Age(issued[q], tree'[q]) = PutAge(issued, put)
      BY <1>4 DEF PutAge
    <3>4. /\ issued[q] \in Seq(Writes) /\ Len(issued[q]) \in Nat
          /\ \A v : Age(issued[q], v) \in 0..Len(issued[q])
      BY <1>1, <1>4, ShapesOf, AgeIsPlace
    <3>5. PutAge(issued, put) \in Nat /\ Age(issued[q], w) \in Nat
      BY <3>4 DEF PutAge
    <3> QED BY <2>1, <2>3, <3>2, <3>3, <3>5
  <2>4. CASE At[w] # q
    BY <1>4, <2>1, <2>2, <2>4
  <2> QED BY <2>1, <2>3, <2>4
<1> QED BY <1>2, <1>8, <1>9, <1>10 DEF ClientsInvariant

-----------------------------------------------------------------------------
(* Answers *)

\* A frame without an answer only brings what the tree held.
LEMMA DataKeeps ==
    ASSUME ClientsInvariant, NEW c \in Clients, Deliver(c), UNCHANGED clientVars,
           inbox[c][1].answer = "none"
    PROVE  ClientsInvariant'
<1> DEFINE n == Len(inbox[c])
           a == applied[c]
<1>1. /\ TypeOK /\ IssuedOnce
      /\ inbox[c] \in Seq(Frames) /\ inbox[c] # <<>> /\ n \in Nat /\ a \in Nat
      /\ Len(puts[c]) \in Nat
  BY ShapesOf DEF ClientsInvariant, Deliver
<1>2. /\ Head(inbox[c]) = inbox[c][1] /\ Tail(inbox[c]) \in Seq(Frames)
      /\ n # 0 /\ Len(Tail(inbox[c])) = n - 1
      /\ \A k \in 1..n - 1 : Tail(inbox[c])[k] = inbox[c][k + 1]
  BY <1>1, AfterTail
<1>3. UNCHANGED <<tree, puts, applied, blocks, faults, issued, outcome>>
  BY <1>2 DEF Deliver, clientVars
<1>4. /\ cache' = [cache EXCEPT ![c] = inbox[c][1].data]
      /\ inbox' = [inbox EXCEPT ![c] = Tail(inbox[c])]
  BY <1>2 DEF Deliver
<1>5. TypeOK' /\ IssuedOnce'
  BY <1>1, <1>3, DeliverType DEF TypeOK, IssuedOnce
<1>6. /\ cache'[c] = inbox[c][1].data /\ inbox'[c] = Tail(inbox[c])
      /\ \A d \in Clients \ {c} : cache'[d] = cache[d] /\ inbox'[d] = inbox[d]
  BY <1>1, <1>4 DEF TypeOK, DbTypeOK
<1>7. /\ Len(inbox'[c]) = n - 1
      /\ \A k \in 1..n - 1 : k + 1 \in 1..n /\ inbox'[c][k] = inbox[c][k + 1]
  BY <1>1, <1>2, <1>6
<1>8. ClientOK(c)
  BY DEF ClientsInvariant
<1>9. ClientOK(c)'
  <2>1. PutsInOrder(c)' /\ LatestIsLast(c)' /\ BlocksAnswer(c)'
    BY <1>3, <1>8 DEF ClientOK, PutsInOrder, LatestIsLast, BlocksAnswer, Own
  <2>2. Unrefused' => TreeFollows(c)'
    BY <1>3, <1>8 DEF ClientOK, TreeFollows, NoPut, Own, Unrefused
  <2>3. Unrefused' => CacheFollows(c)'
    <3> SUFFICES ASSUME Unrefused, NEW p \in Own(c) \cap Watch[c], NoPut(c, p)
                 PROVE  /\ Age(issued[p], cache'[c][p]) = Len(issued[p])
                        /\ \A k \in 1..Len(inbox'[c]) :
                               Age(issued[p], inbox'[c][k].data[p]) = Len(issued[p])
      BY <1>3 DEF CacheFollows, NoPut, Own, Unrefused
    <3>1. \A k \in 1..n : Age(issued[p], inbox[c][k].data[p]) = Len(issued[p])
      BY <1>8 DEF ClientOK, CacheFollows
    <3>2. 1 \in 1..n
      BY <1>1, <1>2
    <3> QED BY <1>6, <1>7, <3>1, <3>2
  <2>4. FramesFollow(c)'
    <3>1. PICK f : Answering(inbox[c], a, f) /\ Truthful(c, f) /\ (Unrefused => Showing(c, f))
      BY <1>8 DEF ClientOK, FramesFollow
    <3>2. PICK g : g = Handled(f, a, 0)
      OBVIOUS
    <3>3. Answering(inbox'[c], a, g)
      BY <1>1, <1>6, <3>1, <3>2, AnsweringLess
    <3>4. ASSUME NEW i \in 1..a
          PROVE  g[i] \in 1..n - 1 /\ f[i] = g[i] + 1 /\ inbox'[c][g[i]] = inbox[c][f[i]]
      <4>1. g[i] \in 1..n - 1 /\ f[i] \in 1..n
        BY <1>7, <3>1, <3>3 DEF Answering
      <4>2. g[i] = f[i] - 1
        BY <3>2, <4>1 DEF Handled
      <4>3. f[i] = g[i] + 1
        BY <1>1, <4>1, <4>2
      <4> QED BY <1>7, <4>1, <4>3
    <3>5. Truthful(c, g)'
      <4> SUFFICES ASSUME NEW i \in 1..a, inbox'[c][g[i]].answer = "ok",
                          puts[c][i].path \in Own(c)
                   PROVE  Age(issued[puts[c][i].path], tree[puts[c][i].path])
                              >= PutAge(issued, puts[c][i])
        BY <1>3 DEF Truthful, Own
      <4> QED BY <3>1, <3>4 DEF Truthful
    <3>6. Unrefused' => Showing(c, g)'
      <4> SUFFICES ASSUME Unrefused, NEW p \in Own(c) \cap Watch[c],
                          NEW k \in 1..n - 1, NEW i \in 1..a,
                          g[i] <= k, puts[c][i].path = p,
                          \A j \in i + 1..a : g[j] <= k => puts[c][j].path # p
                   PROVE  inbox'[c][k].data[p] = puts[c][i].value
        BY <1>3, <1>7 DEF Showing, Own, Unrefused
      <4>1. f[i] <= k + 1
        BY <1>1, <3>4
      <4>2. \A j \in i + 1..a : f[j] <= k + 1 => puts[c][j].path # p
        <5> SUFFICES ASSUME NEW j \in i + 1..a, f[j] <= k + 1 PROVE puts[c][j].path # p
          OBVIOUS
        <5>1. j \in 1..a
          BY <1>1
        <5>2. g[j] <= k
          <6>1. f[j] = g[j] + 1 /\ g[j] \in 1..n - 1
            BY <3>4, <5>1
          <6>2. g[j] \in Int /\ k \in Int
            BY <1>1, <6>1
          <6> QED BY <6>1, <6>2
        <5> QED BY <5>2
      <4>3. k + 1 \in 1..n /\ Showing(c, f)
        BY <1>7, <3>1
      <4>4. inbox[c][k + 1].data[p] = puts[c][i].value
        BY <4>1, <4>2, <4>3 DEF Showing
      <4> QED BY <1>7, <4>4
    <3> QED BY <1>3, <3>3, <3>5, <3>6 DEF FramesFollow
  <2> QED BY <2>1, <2>2, <2>3, <2>4 DEF ClientOK
<1>10. ASSUME NEW d \in Clients PROVE ClientOK(d)'
  <2>1. CASE d # c
    BY <1>3, <1>6, <2>1, OthersStay DEF ClientsInvariant, Unrefused
  <2>2. CASE d = c
    BY <1>9, <2>2
  <2> QED BY <2>1, <2>2
<1>11. ASSUME NEW w \in Writes PROVE ReportedIsStored(w)'
  <2>1. Reported(w)' => Reported(w)
    BY <1>3 DEF Reported
  <2> QED BY <1>3, <2>1, ReportedStays DEF ClientsInvariant
<1> QED BY <1>5, <1>10, <1>11 DEF ClientsInvariant

\* An answer settles the oldest outstanding write.  When it was the last one
\* at its path it is the last that was issued there, and it is what the tree
\* and the frames that are still on their way hold.
LEMMA AnswerKeeps ==
    ASSUME ClientsInvariant, NEW c \in Clients, Deliver(c), UNCHANGED clientVars,
           inbox[c][1].answer # "none"
    PROVE  ClientsInvariant'
<1> DEFINE n == Len(inbox[c])
           a == applied[c]
           m == Len(puts[c])
           w1 == puts[c][1]
           answer == inbox[c][1].answer
<1>1. /\ TypeOK /\ IssuedOnce
      /\ inbox[c] \in Seq(Frames) /\ inbox[c] # <<>> /\ n \in Nat /\ a \in Nat
      /\ puts[c] \in Seq(Put) /\ m \in Nat /\ blocks[c] \in Seq(Block)
  BY ShapesOf DEF ClientsInvariant, Deliver
<1>2. /\ Head(inbox[c]) = inbox[c][1] /\ inbox[c][1] \in Frames
      /\ Tail(inbox[c]) \in Seq(Frames)
      /\ n # 0 /\ Len(Tail(inbox[c])) = n - 1
      /\ \A k \in 1..n - 1 : Tail(inbox[c])[k] = inbox[c][k + 1]
  BY <1>1, AfterTail
<1>3. /\ UNCHANGED <<tree, faults, issued, outcome>>
      /\ cache' = [cache EXCEPT ![c] = inbox[c][1].data]
      /\ inbox' = [inbox EXCEPT ![c] = Tail(inbox[c])]
      /\ Settle(c, answer)
  BY <1>2 DEF Deliver, clientVars
<1>4. TypeOK' /\ IssuedOnce'
  BY <1>1, <1>3, DeliverType DEF TypeOK, IssuedOnce
<1>5. /\ puts[c] # <<>> /\ a > 0 /\ puts' = [puts EXCEPT ![c] = Tail(puts[c])]
      /\ applied' = [applied EXCEPT ![c] = a - 1]
  BY <1>3 DEF Settle
<1>6. /\ m # 0 /\ Head(puts[c]) = w1 /\ w1 \in Put
      /\ Len(Tail(puts[c])) = m - 1
      /\ \A i \in 1..m - 1 : Tail(puts[c])[i] = puts[c][i + 1]
  BY <1>1, <1>5, AfterTail
<1>7. \A d \in Clients \ {c} : /\ cache'[d] = cache[d] /\ inbox'[d] = inbox[d]
                               /\ puts'[d] = puts[d] /\ applied'[d] = applied[d]
  BY <1>1, <1>3, <1>5 DEF TypeOK, DbTypeOK
<1>8. /\ cache'[c] = inbox[c][1].data /\ inbox'[c] = Tail(inbox[c])
      /\ puts'[c] = Tail(puts[c]) /\ applied'[c] = a - 1
  BY <1>1, <1>3, <1>5 DEF TypeOK, DbTypeOK
<1>9. /\ Len(inbox'[c]) = n - 1
      /\ \A k \in 1..n - 1 : k + 1 \in 1..n /\ inbox'[c][k] = inbox[c][k + 1]
      /\ Len(puts'[c]) = m - 1
      /\ \A i \in 1..m - 1 : i + 1 \in 1..m /\ puts'[c][i] = puts[c][i + 1]
      /\ 1 \in 1..n /\ 1 \in 1..m /\ 1 \in 1..a /\ a - 1 \in Nat
  <2>1. /\ Len(inbox'[c]) = n - 1
        /\ \A k \in 1..n - 1 : k + 1 \in 1..n /\ inbox'[c][k] = inbox[c][k + 1]
    BY <1>1, <1>2, <1>8
  <2>2. /\ Len(puts'[c]) = m - 1
        /\ \A i \in 1..m - 1 : i + 1 \in 1..m /\ puts'[c][i] = puts[c][i + 1]
    BY <1>1, <1>6, <1>8
  <2>3. 1 \in 1..n /\ 1 \in 1..m /\ 1 \in 1..a /\ a - 1 \in Nat
    <3>1. a > 0 /\ m # 0 /\ n # 0
      BY <1>2, <1>5, <1>6
    <3> QED BY <1>1, <3>1
  <2> QED BY <2>1, <2>2, <2>3
<1>10. /\ answer \in {"ok", "refused"} /\ Genuine(c, w1) /\ PutAge(issued, w1) > 0
       /\ PutsInOrder(c) /\ a <= m
  <2>1. answer \in {"ok", "refused"}
    BY <1>2 DEF Frames, Answers
  <2>2. PutsInOrder(c)
    BY DEF ClientsInvariant, ClientOK
  <2> QED BY <1>9, <2>1, <2>2 DEF PutsInOrder
<1>11. /\ \A d \in Clients \ {c} : blocks'[d] = blocks[d]
       /\ \A i \in 1..Len(blocks'[c]) :
              \/ i \in 1..Len(blocks[c]) /\ blocks'[c][i] = blocks[c][i]
              \/ /\ w1.caller # Nobody
                 /\ blocks'[c][i].caller = w1.caller /\ blocks'[c][i].answer = answer
  <2> DEFINE b == [caller |-> w1.caller, answer |-> answer, value |-> Absent]
  <2>1. CASE w1.caller = Nobody
    BY <1>3, <1>6, <2>1 DEF Settle
  <2>2. CASE w1.caller # Nobody
    <3>1. blocks' = [blocks EXCEPT ![c] = Append(blocks[c], b)]
      BY <1>3, <1>6, <2>2 DEF Settle
    <3>2. /\ \A d \in Clients \ {c} : blocks'[d] = blocks[d]
          /\ blocks'[c] = Append(blocks[c], b)
      BY <1>1, <3>1 DEF TypeOK, DbTypeOK
    <3>3. b \in Block
      BY <1>6, <1>10, <2>2 DEF Block, Put, Stored
    <3>4. /\ Len(blocks[c]) \in Nat /\ Len(blocks'[c]) = Len(blocks[c]) + 1
          /\ \A i \in 1..Len(blocks[c]) : blocks'[c][i] = blocks[c][i]
          /\ blocks'[c][Len(blocks[c]) + 1] = b
      BY <1>1, <3>2, <3>3, AppendProperties, LenProperties
    <3> QED BY <2>2, <3>2, <3>4
  <2> QED BY <2>1, <2>2
<1>12. PICK f : Answering(inbox[c], a, f) /\ Truthful(c, f) /\ (Unrefused => Showing(c, f))
  BY DEF ClientsInvariant, ClientOK, FramesFollow
<1>13. PICK g : g = Handled(f, a - 1, 1)
  OBVIOUS
<1>14. f[1] = 1 /\ Answering(inbox'[c], a - 1, g)
  BY <1>1, <1>8, <1>12, <1>13, AnsweringLess
<1>15. ClientOK(c)'
  <2>1. PutsInOrder(c)'
    <3>1. \A i \in 1..m - 1 : Genuine(c, puts'[c][i]) /\ PutAge(issued, puts'[c][i]) > 0
      BY <1>9, <1>10 DEF PutsInOrder
    <3>2. ASSUME NEW i \in 1..m - 1, NEW j \in 1..m - 1, i < j,
                 puts'[c][i].path = puts'[c][j].path
          PROVE  PutAge(issued, puts'[c][i]) < PutAge(issued, puts'[c][j])
      <4>1. i + 1 \in 1..m /\ j + 1 \in 1..m /\ i + 1 < j + 1
        BY <1>9, <3>2
      <4> QED BY <1>9, <1>10, <3>2, <4>1 DEF PutsInOrder
    <3>3. a - 1 <= m - 1
      BY <1>1, <1>10
    <3> QED BY <1>3, <1>8, <1>9, <3>1, <3>2, <3>3 DEF PutsInOrder, Genuine
  <2>2. ASSUME NEW p, NEW i \in 1..m - 1, NEW l \in 1..m, LastAt(puts'[c], p, i, l - 1)
        PROVE  i + 1 \in 1..l /\ LastAt(puts[c], p, i + 1, l)
    <3>1. i \in 1..l - 1 /\ l - 1 <= m - 1
      BY <1>1, <2>2 DEF LastAt
    <3>2. i + 1 \in 1..l /\ puts[c][i + 1].path = p
      BY <1>9, <2>2, <3>1 DEF LastAt
    <3>3. ASSUME NEW j \in (i + 1) + 1..l PROVE puts[c][j].path # p
      <4>1. j - 1 \in i + 1..l - 1 /\ j - 1 \in 1..m - 1 /\ (j - 1) + 1 = j
        BY <1>1, <3>1
      <4>2. puts'[c][j - 1].path # p
        BY <2>2, <4>1 DEF LastAt
      <4> QED BY <1>9, <4>1, <4>2
    <3> QED BY <3>2, <3>3 DEF LastAt
  <2>3. LatestIsLast(c)'
    <3> SUFFICES ASSUME NEW p \in Own(c), NEW i \in 1..m - 1, LastAt(puts'[c], p, i, m - 1)
                 PROVE  PutAge(issued, puts'[c][i]) = Len(issued[p])
      BY <1>3, <1>9 DEF LatestIsLast, Own
    <3>1. i + 1 \in 1..m /\ LastAt(puts[c], p, i + 1, m)
      BY <1>1, <1>6, <2>2
    <3>2. LatestIsLast(c)
      BY DEF ClientsInvariant, ClientOK
    <3> QED BY <1>9, <3>1, <3>2 DEF LatestIsLast
  <2>4. ASSUME NEW p \in Own(c), NoPut(c, p)', ~NoPut(c, p)
        PROVE  /\ w1.path = p /\ PutAge(issued, w1) = Len(issued[p])
               /\ \A j \in 2..m : puts[c][j].path # p
    <3>1. \A j \in 2..m : puts[c][j].path # p
      <4> SUFFICES ASSUME NEW j \in 2..m PROVE puts[c][j].path # p
        OBVIOUS
      <4>1. j - 1 \in 1..m - 1 /\ (j - 1) + 1 = j
        BY <1>1
      <4>2. puts'[c][j - 1].path # p
        BY <1>9, <2>4, <4>1 DEF NoPut
      <4> QED BY <1>9, <4>1, <4>2
    <3>2. w1.path = p
      <4>1. PICK i \in 1..m : puts[c][i].path = p
        BY <2>4 DEF NoPut
      <4>2. i = 1
        BY <1>1, <3>1, <4>1
      <4> QED BY <4>1, <4>2
    <3>3. LastAt(puts[c], p, 1, m)
      BY <1>9, <3>1, <3>2 DEF LastAt
    <3>4. LatestIsLast(c)
      BY DEF ClientsInvariant, ClientOK
    <3> QED BY <1>9, <3>1, <3>2, <3>3, <3>4 DEF LatestIsLast
  <2>5. Unrefused' => TreeFollows(c)'
    <3> SUFFICES ASSUME Unrefused, NEW p \in Own(c)
                 PROVE  /\ NoPut(c, p)' => Age(issued[p], tree[p]) = Len(issued[p])
                        /\ \A i \in 1..a - 1 :
                               LastAt(puts'[c], p, i, a - 1) => tree[p] = puts'[c][i].value
      BY <1>3, <1>8 DEF TreeFollows, Own, Unrefused
    <3>1. TreeFollows(c)
      BY DEF ClientsInvariant, ClientOK
    <3>2. ASSUME NoPut(c, p)' PROVE Age(issued[p], tree[p]) = Len(issued[p])
      <4>1. CASE NoPut(c, p)
        BY <3>1, <4>1 DEF TreeFollows
      <4>2. CASE ~NoPut(c, p)
        <5>1. /\ w1.path = p /\ PutAge(issued, w1) = Len(issued[p])
              /\ \A j \in 2..m : puts[c][j].path # p
          BY <2>4, <3>2, <4>2
        <5>2. \A j \in 1 + 1..a : j \in 2..m
          BY <1>1, <1>10
        <5>3. LastAt(puts[c], p, 1, a)
          BY <1>9, <5>1, <5>2 DEF LastAt
        <5>4. tree[p] = w1.value
          BY <1>9, <3>1, <5>3 DEF TreeFollows
        <5> QED BY <5>1, <5>4 DEF PutAge
      <4> QED BY <4>1, <4>2
    <3>3. ASSUME NEW i \in 1..a - 1, LastAt(puts'[c], p, i, a - 1)
          PROVE  tree[p] = puts'[c][i].value
      <4>1. i \in 1..m - 1 /\ a \in 1..m
        BY <1>1, <1>5, <1>10
      <4>2. i + 1 \in 1..a /\ LastAt(puts[c], p, i + 1, a)
        BY <2>2, <3>3, <4>1
      <4> QED BY <1>9, <3>1, <4>1, <4>2 DEF TreeFollows
    <3> QED BY <3>2, <3>3
  <2>6. Unrefused' => CacheFollows(c)'
    <3> SUFFICES ASSUME Unrefused, NEW p \in Own(c) \cap Watch[c], NoPut(c, p)'
                 PROVE  /\ Age(issued[p], cache'[c][p]) = Len(issued[p])
                        /\ \A k \in 1..Len(inbox'[c]) :
                               Age(issued[p], inbox'[c][k].data[p]) = Len(issued[p])
      BY <1>3 DEF CacheFollows, Own, Unrefused
    <3>1. \A k \in 1..n : Age(issued[p], inbox[c][k].data[p]) = Len(issued[p])
      <4>1. CASE NoPut(c, p)
        BY <4>1 DEF ClientsInvariant, ClientOK, CacheFollows
      <4>2. CASE ~NoPut(c, p)
        <5>1. /\ w1.path = p /\ PutAge(issued, w1) = Len(issued[p])
              /\ \A j \in 2..m : puts[c][j].path # p
          BY <2>4, <4>2
        <5>2. \A j \in 1 + 1..a : puts[c][j].path # p
          BY <1>1, <1>10, <5>1
        <5>3. Showing(c, f)
          BY <1>12
        <5>4. ASSUME NEW k \in 1..n PROVE inbox[c][k].data[p] = w1.value
          <6>1. f[1] <= k
            BY <1>14
          <6> QED BY <1>9, <5>1, <5>2, <5>3, <6>1 DEF Showing
        <5> QED BY <5>1, <5>4 DEF PutAge
      <4> QED BY <4>1, <4>2
    <3> QED BY <1>8, <1>9, <3>1
  <2>7. FramesFollow(c)'
    <3>1. ASSUME NEW i \in 1..a - 1
          PROVE  /\ i + 1 \in 1..a /\ i \in 1..m - 1 /\ puts'[c][i] = puts[c][i + 1]
                 /\ g[i] \in 1..n - 1 /\ f[i + 1] = g[i] + 1
                 /\ inbox'[c][g[i]] = inbox[c][f[i + 1]]
      <4>1. i + 1 \in 1..a /\ i \in 1..m - 1
        BY <1>1, <1>10
      <4>2. g[i] \in 1..n - 1 /\ f[i + 1] \in 1..n
        <5>1. g \in [1..a - 1 -> 1..Len(inbox'[c])] /\ f \in [1..a -> 1..n]
          BY <1>12, <1>14 DEF Answering
        <5> QED BY <1>9, <4>1, <5>1
      <4>3. g[i] = f[i + 1] - 1
        BY <1>13 DEF Handled
      <4>4. f[i + 1] = g[i] + 1
        BY <1>1, <4>2, <4>3
      <4> QED BY <1>9, <4>1, <4>2, <4>4
    <3>2. Truthful(c, g)'
      <4> SUFFICES ASSUME NEW i \in 1..a - 1, inbox'[c][g[i]].answer = "ok",
                          puts'[c][i].path \in Own(c)
                   PROVE  Age(issued[puts'[c][i].path], tree[puts'[c][i].path])
                              >= PutAge(issued, puts'[c][i])
        BY <1>3, <1>8 DEF Truthful, Own
      <4> QED BY <1>12, <3>1 DEF Truthful
    <3>3. Unrefused' => Showing(c, g)'
      <4> SUFFICES ASSUME Unrefused, NEW p \in Own(c) \cap Watch[c],
                          NEW k \in 1..n - 1, NEW i \in 1..a - 1,
                          g[i] <= k, puts'[c][i].path = p,
                          \A j \in i + 1..a - 1 : g[j] <= k => puts'[c][j].path # p
                   PROVE  inbox'[c][k].data[p] = puts'[c][i].value
        <5>1. Len(inbox'[c]) = n - 1 /\ applied'[c] = a - 1 /\ (Unrefused' => Unrefused)
          BY <1>3, <1>8, <1>9 DEF Unrefused
        <5> HIDE DEF a, n
        <5> QED BY SMTT(30), <5>1 DEF Showing, Own
      <4>1. f[i + 1] <= k + 1
        <5>1. f[i + 1] = g[i] + 1 /\ g[i] \in Int /\ k \in Int
          BY <1>1, <3>1
        <5> QED BY <5>1
      <4>2. \A j \in (i + 1) + 1..a : f[j] <= k + 1 => puts[c][j].path # p
        <5> SUFFICES ASSUME NEW j \in (i + 1) + 1..a, f[j] <= k + 1 PROVE puts[c][j].path # p
          OBVIOUS
        <5>1. j - 1 \in i + 1..a - 1 /\ j - 1 \in 1..a - 1 /\ (j - 1) + 1 = j
          BY <1>1
        <5>2. f[j] = g[j - 1] + 1 /\ g[j - 1] \in 1..n - 1 /\ puts'[c][j - 1] = puts[c][j]
          BY <3>1, <5>1
        <5>3. g[j - 1] <= k
          BY <1>1, <5>2
        <5> QED BY <5>1, <5>2, <5>3
      <4>3. k + 1 \in 1..n /\ i + 1 \in 1..a /\ Showing(c, f) /\ puts[c][i + 1].path = p
        BY <1>9, <1>12, <3>1
      <4>4. inbox[c][k + 1].data[p] = puts[c][i + 1].value
        BY <4>1, <4>2, <4>3 DEF Showing
      <4> QED BY <1>9, <3>1, <4>4
    <3> QED BY <1>8, <1>14, <3>2, <3>3 DEF FramesFollow
  <2>8. BlocksAnswer(c)'
    <3>1. BlocksAnswer(c)
      BY DEF ClientsInvariant, ClientOK
    <3>2. w1.caller # Nobody => By[w1.caller] = c
      BY <1>10 DEF Genuine
    <3> QED BY <1>10, <1>11, <3>1, <3>2 DEF BlocksAnswer
  <2> QED BY <2>1, <2>3, <2>5, <2>6, <2>7, <2>8 DEF ClientOK
<1>16. ASSUME NEW d \in Clients PROVE ClientOK(d)'
  <2>1. CASE d # c
    BY <1>3, <1>7, <1>11, <2>1, OthersStay DEF ClientsInvariant, Unrefused
  <2>2. CASE d = c
    BY <1>15, <2>2
  <2> QED BY <2>1, <2>2
<1>17. ASSUME NEW w \in Writes PROVE ReportedIsStored(w)'
  <2>1. By[w] \in Clients
    BY RealtimeClientsAssumption
  <2>2. CASE Reported(w)' => Reported(w)
    <3>1. \A i \in 1..Len(puts'[By[w]]) : \E j \in 1..Len(puts[By[w]]) :
              /\ puts'[By[w]][i].path = puts[By[w]][j].path
              /\ puts'[By[w]][i].value = puts[By[w]][j].value
      <4>1. CASE By[w] = c
        BY <1>9, <4>1
      <4>2. CASE By[w] # c
        BY <1>7, <2>1, <4>2
      <4> QED BY <4>1, <4>2
    <3> QED BY <1>3, <2>2, <3>1, ReportedStays DEF ClientsInvariant
  <2>3. CASE Reported(w)' /\ ~Reported(w)
    <3>1. By[w] = c /\ w1.caller = w /\ w1.caller # Nobody /\ answer = "ok"
      <4>1. outcome'[w] = outcome[w] /\ outcome[w] # "ok"
        BY <1>3, <2>3 DEF Reported
      <4>2. PICK i \in 1..Len(blocks'[By[w]]) : /\ blocks'[By[w]][i].caller = w
                                                /\ blocks'[By[w]][i].answer = "ok"
        BY <2>3, <4>1 DEF Reported
      <4>3. By[w] = c
        BY <1>11, <2>1, <2>3, <4>2 DEF Reported
      <4>4. ~(i \in 1..Len(blocks[c]) /\ blocks'[c][i] = blocks[c][i])
        BY <2>3, <4>2, <4>3 DEF Reported
      <4> QED BY <1>11, <4>2, <4>3, <4>4
    <3>2. w1.value = w /\ w1.path = At[w]
      BY <1>10, <3>1 DEF Genuine
    <3> SUFFICES ASSUME At[w] \in Own(c)
                 PROVE  /\ Age(issued[At[w]], w) > 0
                        /\ Age(issued[At[w]], tree[At[w]]) >= Age(issued[At[w]], w)
                        /\ \A i \in 1..Len(puts'[c]) : puts'[c][i].path = At[w] =>
                               PutAge(issued, puts'[c][i]) > Age(issued[At[w]], w)
      BY <1>3, <3>1 DEF ReportedIsStored, Own
    <3>3. PutAge(issued, w1) = Age(issued[At[w]], w)
      BY <3>2 DEF PutAge
    <3>4. Age(issued[At[w]], tree[At[w]]) >= Age(issued[At[w]], w)
      BY <1>9, <1>12, <1>14, <3>1, <3>2, <3>3 DEF Truthful
    <3>5. ASSUME NEW i \in 1..m - 1, puts'[c][i].path = At[w]
          PROVE  PutAge(issued, puts'[c][i]) > Age(issued[At[w]], w)
      <4>1. i + 1 \in 1..m /\ 1 < i + 1 /\ puts'[c][i] = puts[c][i + 1]
        BY <1>9
      <4>2. PutAge(issued, w1) < PutAge(issued, puts[c][i + 1])
        BY <1>9, <1>10, <3>2, <3>5, <4>1 DEF PutsInOrder
      <4>3. At[w] \in Paths
        BY RealtimeClientsAssumption
      <4>4. \A v : Age(issued[At[w]], v) \in 0..Len(issued[At[w]]) /\ Len(issued[At[w]]) \in Nat
        BY <1>1, <4>3, ShapesOf, AgeIsPlace
      <4>5. PutAge(issued, puts[c][i + 1]) \in Nat /\ PutAge(issued, w1) \in Nat
        BY <3>3, <3>5, <4>1, <4>4 DEF PutAge
      <4> QED BY <3>3, <4>1, <4>2, <4>5
    <3> QED BY <1>9, <1>10, <3>3, <3>4, <3>5
  <2> QED BY <2>2, <2>3
<1> QED BY <1>4, <1>16, <1>17 DEF ClientsInvariant

\* The client handles a frame (FRepo onDataUpdate, ackWrite).
LEMMA DeliverKeeps ==
    ASSUME ClientsInvariant, NEW c \in Clients, Deliver(c), UNCHANGED clientVars
    PROVE  ClientsInvariant'
BY DataKeeps, AnswerKeeps

-----------------------------------------------------------------------------
(* The invariant *)

LEMMA ClientsInvariantInit == Init => ClientsInvariant
<1> SUFFICES ASSUME Init PROVE ClientsInvariant
  OBVIOUS
<1>1. TypeOK
  BY InitType DEF Init, TypeOK, Outcomes
<1>2. /\ \A p \in Paths : issued[p] = <<>> /\ Len(issued[p]) = 0
      /\ \A c \in Clients : /\ puts[c] = <<>> /\ Len(puts[c]) = 0 /\ applied[c] = 0
                            /\ inbox[c] = <<>> /\ Len(inbox[c]) = 0
                            /\ blocks[c] = <<>> /\ Len(blocks[c]) = 0
      /\ \A w \in Writes : outcome[w] = "none"
  BY DEF Init, DbInit
<1>3. ASSUME NEW p \in Paths, NEW v PROVE Age(issued[p], v) = 0
  BY <1>1, <1>2, AgeIsPlace DEF TypeOK
<1>4. IssuedOnce
  BY <1>2 DEF IssuedOnce
<1>5. ASSUME NEW c \in Clients PROVE ClientOK(c)
  <2>1. PutsInOrder(c) /\ LatestIsLast(c) /\ BlocksAnswer(c)
    BY <1>2 DEF PutsInOrder, LatestIsLast, BlocksAnswer
  <2>2. TreeFollows(c) /\ CacheFollows(c)
    <3>1. \A p \in Own(c) : p \in Paths
      BY DEF Own
    <3>2. TreeFollows(c)
      BY <1>2, <1>3, <3>1 DEF TreeFollows
    <3>3. CacheFollows(c)
      BY <1>2, <1>3, <3>1 DEF CacheFollows
    <3> QED BY <3>2, <3>3
  <2>3. FramesFollow(c)
    <3> DEFINE f == [i \in 1..0 |-> 1]
    <3>1. Answering(inbox[c], 0, f)
      BY <1>2 DEF Answering
    <3>2. Truthful(c, f) /\ Showing(c, f)
      BY <1>2 DEF Truthful, Showing
    <3> QED BY <1>2, <3>1, <3>2 DEF FramesFollow
  <2> QED BY <2>1, <2>2, <2>3 DEF ClientOK
<1>6. ASSUME NEW w \in Writes PROVE ReportedIsStored(w)
  <2>1. By[w] \in Clients
    BY RealtimeClientsAssumption
  <2> QED BY <1>2, <2>1 DEF ReportedIsStored, Reported
<1> QED BY <1>1, <1>4, <1>5, <1>6 DEF ClientsInvariant

LEMMA StutterKeeps ==
    ASSUME ClientsInvariant, UNCHANGED vars
    PROVE  ClientsInvariant'
<1>1. UNCHANGED <<tree, puts, applied, inbox, cache, synced, online, blocks, faults, issued, outcome>>
  BY DEF vars, dbVars, clientVars
<1>2. TypeOK' /\ IssuedOnce'
  BY <1>1 DEF ClientsInvariant, TypeOK, DbTypeOK, IssuedOnce
<1>3. \A c \in Clients : ClientOK(c)'
  BY <1>1, OthersStay DEF ClientsInvariant, Unrefused
<1>4. ASSUME NEW w \in Writes PROVE ReportedIsStored(w)'
  <2>1. Reported(w)' => Reported(w)
    BY <1>1 DEF Reported
  <2> QED BY <1>1, <2>1, ReportedStays DEF ClientsInvariant
<1> QED BY <1>2, <1>3, <1>4 DEF ClientsInvariant

LEMMA StepKeeps ==
    ASSUME ClientsInvariant, [Next]_vars
    PROVE  ClientsInvariant'
<1>1. CASE \E w \in Writes : Issue(w)
  BY <1>1, IssueKeeps
<1>2. CASE \E c \in Clients : Complete(c)
  BY <1>2, CompleteKeeps
<1>3. ASSUME NEW c \in Clients, Progress(c) \/ Fault(c) \/ Crash(c), UNCHANGED clientVars
      PROVE  ClientsInvariant'
  <2>1. CASE Connect(c)
    BY <1>3, <2>1, ConnectKeeps
  <2>2. CASE Apply(c)
    BY <1>3, <2>2, ApplyKeeps
  <2>3. CASE Deliver(c)
    BY <1>3, <2>3, DeliverKeeps
  <2>4. CASE Drop(c)
    BY <1>3, <2>4, DropKeeps
  <2>5. CASE Refuse(c)
    BY <1>3, <2>5, RefuseKeeps
  <2>6. CASE Crash(c)
    BY <1>3, <2>6, CrashKeeps
  <2> QED BY <1>3, <2>1, <2>2, <2>3, <2>4, <2>5, <2>6 DEF Progress, Fault
<1>4. CASE UNCHANGED vars
  BY <1>4, StutterKeeps
<1> QED BY <1>1, <1>2, <1>3, <1>4 DEF Next

\* Clients that write, lose connections, restart and are refused keep all of it.
LEMMA ClientsInvariantHolds == Spec => []ClientsInvariant
<1>1. ClientsInvariant /\ [Next]_vars => ClientsInvariant'
  BY StepKeeps
<1> QED BY <1>1, ClientsInvariantInit, PTL DEF Spec

-----------------------------------------------------------------------------
(* What the writers may rely on *)

\* The variables of the library and of its writers keep their types; no block
\* tells a writer anything but ok or refused (FRepo ackWrite).
THEOREM ClientsTypeCorrect == Spec => []TypeOK
<1>1. ClientsInvariant => TypeOK
  BY DEF ClientsInvariant
<1> QED BY <1>1, ClientsInvariantHolds, PTL

\* Once everything has settled the last write of a path's only writer is what
\* the server stores, although writes were sent again after every lost
\* connection and restart (FPersistentConnection restoreState).
THEOREM LastWriteWinsHolds == Spec => []LastWriteWins
<1>1. ASSUME ClientsInvariant PROVE LastWriteWins
  <2> SUFFICES ASSUME Quiet, Unrefused, NEW c \in Clients, NEW p \in Own(c), issued[p] # <<>>
               PROVE  tree[p] = Last(issued[p])
    BY DEF LastWriteWins, Unrefused
  <2>1. /\ issued[p] \in Seq(Writes) /\ Len(issued[p]) \in Nat /\ Len(issued[p]) # 0
    <3>1. TypeOK /\ p \in Paths
      BY <1>1 DEF ClientsInvariant, Own
    <3> QED BY <3>1, ShapesOf, EmptySeq
  <2>2. NoPut(c, p) /\ TreeFollows(c)
    BY <1>1 DEF Quiet, NoPut, ClientsInvariant, ClientOK
  <2>3. Age(issued[p], tree[p]) = Len(issued[p])
    BY <2>2 DEF TreeFollows
  <2>4. issued[p][Len(issued[p])] = tree[p]
    BY <2>1, <2>3, AgeIsPlace
  <2> QED BY <2>4 DEF Last
<1> QED BY <1>1, ClientsInvariantHolds, PTL

\* What a completion block reported as stored stays stored, or something newer
\* of the same writer does: no write that is sent again is older (FRepo
\* ackWrite removes it from the outstanding ones).
THEOREM AcknowledgedIsDurableHolds == Spec => []AcknowledgedIsDurable
<1>1. ClientsInvariant => AcknowledgedIsDurable
  BY DEF ClientsInvariant, AcknowledgedIsDurable, ReportedIsStored, Reported
<1> QED BY <1>1, ClientsInvariantHolds, PTL

\* The view of a path's only writer is always its own last write.
OwnViewsAreNewest ==
    Unrefused => \A c \in Clients : \A p \in Own(c) \cap Watch[c] :
                     Age(issued[p], View(c, p)) = Len(issued[p])

LEMMA OwnViewIsNewest ==
    ASSUME ClientsInvariant, Unrefused, NEW c \in Clients, NEW p \in Own(c) \cap Watch[c]
    PROVE  Age(issued[p], View(c, p)) = Len(issued[p])
<1>1. /\ TypeOK /\ p \in Paths /\ ClientOK(c)
      /\ DOMAIN puts[c] = 1..Len(puts[c]) /\ Len(puts[c]) \in Nat
  BY ShapesOf DEF ClientsInvariant, Own
<1>2. CASE Pending(c, p) = {}
  <2>1. NoPut(c, p)
    BY <1>1, <1>2 DEF Pending, NoPut
  <2> QED BY <1>1, <1>2, <2>1 DEF View, ClientOK, CacheFollows
<1>3. CASE Pending(c, p) # {}
  <2> DEFINE l == Latest(Pending(c, p))
  <2>1. Pending(c, p) \subseteq 1..Len(puts[c])
    BY <1>1 DEF Pending
  <2>2. \E i \in Pending(c, p) : \A j \in Pending(c, p) : j <= i
    BY <1>1, <1>3, <2>1, MaximumExists
  <2>3. l \in Pending(c, p) /\ \A j \in Pending(c, p) : j <= l
    BY <2>2 DEF Latest
  <2> HIDE DEF l
  <2>4. l \in 1..Len(puts[c]) /\ puts[c][l].path = p
    BY <1>1, <2>3 DEF Pending
  <2>5. LastAt(puts[c], p, l, Len(puts[c]))
    <3>1. ASSUME NEW j \in l + 1..Len(puts[c]) PROVE puts[c][j].path # p
      <4>1. j \in 1..Len(puts[c]) /\ ~(j <= l)
        BY <1>1, <2>4
      <4> QED BY <1>1, <2>3, <4>1 DEF Pending
    <3> QED BY <2>4, <3>1 DEF LastAt
  <2>6. PutAge(issued, puts[c][l]) = Len(issued[p])
    BY <1>1, <2>4, <2>5 DEF ClientOK, LatestIsLast
  <2>7. View(c, p) = puts[c][l].value
    BY <1>3 DEF View, l
  <2> QED BY <2>4, <2>6, <2>7 DEF PutAge
<1> QED BY <1>2, <1>3

\* What the only writer of a path sees there never goes back to an older write
\* of its own, while answers are lost, writes are sent again and the server's
\* value goes back (FWriteTree calculateCompleteEventCacheAtPath).
THEOREM OwnViewMovesForwardHolds == Spec => OwnViewMovesForward
<1>1. ClientsInvariant => TypeOK /\ OwnViewsAreNewest
  BY OwnViewIsNewest DEF ClientsInvariant, OwnViewsAreNewest
<1>2. ASSUME TypeOK, TypeOK', OwnViewsAreNewest, OwnViewsAreNewest', [Next]_vars,
             NEW c \in Clients, NEW p \in Own(c) \cap Watch[c], Unrefused'
      PROVE  Age(issued[p], View(c, p))' >= Age(issued[p], View(c, p))
  <2>1. TypeOK /\ p \in Paths
    BY <1>2 DEF Own
  <2>2. Unrefused
    <3>1. faults["refuse"] \in Nat /\ (faults'["refuse"] = faults["refuse"]
                                        \/ faults'["refuse"] = faults["refuse"] + 1)
      BY <1>2, <2>1 DEF TypeOK, DbTypeOK, FaultKinds, Next, vars, dbVars, Issue, Complete, RunBlock,
         Progress, Fault, Connect, Apply, Deliver, Drop, Refuse, Crash, Spend
    <3> QED BY <1>2, <3>1 DEF Unrefused
  <2>3. Len(issued[p]) \in Nat /\ Len(issued'[p]) >= Len(issued[p])
    <3>1. issued[p] \in Seq(Writes) /\ Len(issued[p]) \in Nat
      BY <2>1, ShapesOf
    <3>2. CASE UNCHANGED issued
      BY <3>1, <3>2
    <3>3. ASSUME NEW w \in Writes, Issue(w) PROVE Len(issued'[p]) >= Len(issued[p])
      <4>1. issued'[p] = issued[p] \/ issued'[p] = Append(issued[p], w)
        BY <2>1, <3>3 DEF Issue, TypeOK
      <4> QED BY <3>1, <4>1, AppendProperties
    <3> QED BY <1>2, <3>1, <3>2, <3>3 DEF Next, vars, clientVars, Complete
  <2>4. Age(issued[p], View(c, p)) = Len(issued[p])
    BY <1>2, <2>2 DEF OwnViewsAreNewest
  <2>5. Age(issued[p], View(c, p))' = Len(issued'[p])
    BY <1>2 DEF OwnViewsAreNewest, Own
  <2> QED BY <2>3, <2>4, <2>5
<1>3. /\ TypeOK /\ TypeOK' /\ OwnViewsAreNewest /\ OwnViewsAreNewest' /\ [Next]_vars
      => [\A c \in Clients : \A p \in Own(c) \cap Watch[c] :
             faults'["refuse"] = 0 =>
                 Age(issued[p], View(c, p))' >= Age(issued[p], View(c, p))]_vars
  BY <1>2 DEF Unrefused
<1> QED BY <1>1, <1>3, ClientsInvariantHolds, PTL DEF Spec, OwnViewMovesForward

\* No listener of any writer misses an update (FPersistentConnection
\* restoreState, FRepo onDataUpdate).
THEOREM ClientsConverge == Spec => []CacheConverges
<1>1. Init => CacheConverges
  BY InitConverges DEF Init
<1>2. ASSUME TypeOK, CacheConverges, [Next]_vars PROVE CacheConverges'
  <2>1. CASE \E w \in Writes : Issue(w)
    BY <1>2, <2>1, CallConverges DEF Issue
  <2>2. CASE \E c \in Clients : Complete(c)
    BY <1>2, <2>2, CallConverges DEF Complete, RunBlock
  <2>3. ASSUME NEW c \in Clients, Progress(c) \/ Fault(c) \/ Crash(c)
        PROVE  CacheConverges'
    BY <1>2, <2>3, ConnectConverges, OfflineConverges, DeliverConverges, ApplyConverges,
       RefuseConverges DEF TypeOK, Progress, Fault
  <2>4. CASE UNCHANGED vars
    BY <1>2, <2>4, CallConverges DEF vars, dbVars
  <2> QED BY <1>2, <2>1, <2>2, <2>3, <2>4 DEF Next
<1> QED BY <1>1, <1>2, ClientsTypeCorrect, PTL DEF Spec
=============================================================================

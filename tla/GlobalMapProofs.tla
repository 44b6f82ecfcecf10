-------------------------- MODULE GlobalMapProofs --------------------------
(***************************************************************************)
(* The shared server map, for any number of tasks, domains and servers:    *)
(* its types, the lock's exclusion, and the refinement of ServerTable.     *)
(***************************************************************************)
EXTENDS GlobalMap, SequenceTheorems, TLAPS

(* The lock excludes writers, a call knows its domain, only who is adding  *)
(* has something left to insert, and a connect uses the current entry.     *)
Exclusive  == \A w \in writers : readers = {} /\ writers = {w}
CallKnown  == \A c \in Connector : pc[c] # "idle" => domain[c] \in Domain
AddingOnly == \A w \in Writer : pc[w] # "adding" => adding[w] = Nothing

Inv == TypeOK /\ Exclusive /\ CallKnown /\ AddingOnly /\ EntryIsCurrent

----------------------------------------------------------------------------
(* RemoveAt takes one element out and keeps the order of the others. *)
LEMMA Removed ==
  ASSUME NEW S, NEW s \in Seq(S), NEW i \in 1 .. Len(s)
  PROVE  /\ RemoveAt(s, i) \in Seq(S)
         /\ Len(RemoveAt(s, i)) = Len(s) - 1
         /\ \A j \in 1 .. Len(s) - 1 :
              RemoveAt(s, i)[j] = IF j < i THEN s[j] ELSE s[j + 1]
<1> DEFINE front == SubSeq(s, 1, i - 1)
           back  == SubSeq(s, i + 1, Len(s))
<1>1. front \in Seq(S) /\ Len(front) = i - 1 /\ \A j \in 1 .. i - 1 : front[j] = s[j]
  OBVIOUS
<1>2. back \in Seq(S) /\ Len(back) = Len(s) - i /\ \A j \in 1 .. Len(s) - i : back[j] = s[i + j]
  OBVIOUS
<1> HIDE DEF front, back
<1>3. front \o back \in Seq(S) /\ Len(front \o back) = Len(s) - 1
  BY <1>1, <1>2
<1>4. \A j \in 1 .. Len(s) - 1 :
        (front \o back)[j] = IF j < i THEN s[j] ELSE s[j + 1]
  <2> TAKE j \in 1 .. Len(s) - 1
  <2>0. j \in 1 .. Len(front) + Len(back)
    BY <1>1, <1>2
  <2>1. (front \o back)[j] = IF j <= Len(front) THEN front[j] ELSE back[j - Len(front)]
    BY <2>0, <1>1, <1>2, ConcatProperties
  <2>2. CASE j < i
    BY <2>1, <2>2, <1>1
  <2>3. CASE ~ j < i
    <3>1. j - (i - 1) \in 1 .. Len(s) - i /\ i + (j - (i - 1)) = j + 1
      BY <2>3
    <3>2. back[j - (i - 1)] = s[i + (j - (i - 1))]
      BY <3>1, <1>2
    <3>3. ~ j <= Len(front) /\ j - Len(front) = j - (i - 1)
      BY <1>1, <2>3
    <3>5. (front \o back)[j] = back[j - (i - 1)]
      BY <2>1, <3>3
    <3>6. s[i + (j - (i - 1))] = s[j + 1]
      BY <3>1
    <3> QED BY <3>2, <2>3, <3>5, <3>6
  <2> QED BY <2>2, <2>3
<1> QED BY <1>3, <1>4 DEF RemoveAt, front, back

(* The part of the type invariant that is about the queue. *)
QueueOK ==
  /\ waiters \in Seq(Task)
  /\ \A i, j \in 1 .. Len(waiters) : waiters[i] = waiters[j] => i = j
  /\ \A t \in Task : pc[t] = "waiting" <=> Awaiting(t)

(* Asking puts a task at the end, being served takes it from the front,    *)
(* giving up takes it from where it is; what else changes pc starts and    *)
(* ends outside of the queue.                                              *)
LEMMA QueueAsk ==
  ASSUME Inv, NEW t \in Task, Ask(t)
  PROVE  QueueOK'
<1>1. waiters \in Seq(Task) /\ pc \in [Task -> Place] /\ ~Awaiting(t)
  BY DEF Inv, TypeOK, Ask
<1>2. Len(waiters') = Len(waiters) + 1 /\ waiters' \in Seq(Task) /\ waiters'[Len(waiters')] = t
  BY <1>1 DEF Ask
<1>3. \A i \in 1 .. Len(waiters) : waiters'[i] = waiters[i] /\ waiters[i] # t
  BY <1>1 DEF Ask, Awaiting
<1>4. \A u \in Task : pc'[u] = IF u = t THEN "waiting" ELSE pc[u]
  BY <1>1 DEF Ask
<1>5. \A u \in Task : Awaiting(u)' <=> (u = t \/ Awaiting(u))
  BY <1>1, <1>2, <1>3 DEF Awaiting
<1>6. \A i, j \in 1 .. Len(waiters') : waiters'[i] = waiters'[j] => i = j
  BY <1>1, <1>2, <1>3 DEF Inv, TypeOK
<1> QED BY <1>2, <1>4, <1>5, <1>6 DEF QueueOK, Inv, TypeOK

LEMMA QueueGrant ==
  ASSUME Inv, Grant
  PROVE  QueueOK'
<1> DEFINE t == Head(waiters)
<1>1. waiters \in Seq(Task) /\ pc \in [Task -> Place] /\ waiters # <<>>
  BY DEF Inv, TypeOK, Grant
<1>2. t \in Task /\ t = waiters[1] /\ Len(waiters) >= 1
  BY <1>1
<1>3. /\ waiters' \in Seq(Task) /\ Len(waiters') = Len(waiters) - 1
      /\ \A i \in 1 .. Len(waiters') : waiters'[i] = waiters[i + 1]
  BY <1>1, <1>2 DEF Grant
<1>4. \A u \in Task : pc'[u] = IF u = t THEN "holding" ELSE pc[u]
  BY <1>1, <1>2 DEF Grant
<1>5. \A i, j \in 1 .. Len(waiters) : waiters[i] = waiters[j] => i = j
  BY DEF Inv, TypeOK
<1>6. \A u \in Task : Awaiting(u)' <=> (u # t /\ Awaiting(u))
  <2> TAKE u \in Task
  <2>1. ASSUME Awaiting(u)' PROVE u # t /\ Awaiting(u)
    <3> PICK i \in 1 .. Len(waiters') : waiters'[i] = u
      BY <2>1 DEF Awaiting
    <3>1. i + 1 \in 1 .. Len(waiters) /\ waiters[i + 1] = u /\ i + 1 # 1
      BY <1>2, <1>3
    <3> HIDE DEF t
    <3> QED BY <3>1, <1>2, <1>5 DEF Awaiting
  <2>2. ASSUME u # t, Awaiting(u) PROVE Awaiting(u)'
    <3> PICK i \in 1 .. Len(waiters) : waiters[i] = u
      BY <2>2 DEF Awaiting
    <3>1. i - 1 \in 1 .. Len(waiters') /\ waiters'[i - 1] = u
      BY <1>2, <1>3, <2>2
    <3> QED BY <3>1 DEF Awaiting
  <2> QED BY <2>1, <2>2
<1>7. \A i, j \in 1 .. Len(waiters') : waiters'[i] = waiters'[j] => i = j
  BY <1>1, <1>3, <1>5
<1> HIDE DEF t
<1> QED BY <1>3, <1>4, <1>6, <1>7 DEF QueueOK, Inv, TypeOK

LEMMA QueueGiveUp ==
  ASSUME Inv, NEW t \in Task, GiveUp(t)
  PROVE  QueueOK'
<1> PICK k \in 1 .. Len(waiters) : waiters[k] = t /\ waiters' = RemoveAt(waiters, k)
  BY DEF GiveUp
<1>1. waiters \in Seq(Task) /\ pc \in [Task -> Place]
  BY DEF Inv, TypeOK
<1>2. /\ waiters' \in Seq(Task) /\ Len(waiters') = Len(waiters) - 1
      /\ \A i \in 1 .. Len(waiters') :
           waiters'[i] = IF i < k THEN waiters[i] ELSE waiters[i + 1]
  BY <1>1, Removed
<1>4. \A u \in Task : pc'[u] = IF u = t THEN "idle" ELSE pc[u]
  BY <1>1 DEF GiveUp, Release
<1>5. \A i, j \in 1 .. Len(waiters) : waiters[i] = waiters[j] => i = j
  BY DEF Inv, TypeOK
<1>6. \A u \in Task : Awaiting(u)' <=> (u # t /\ Awaiting(u))
  <2> TAKE u \in Task
  <2>1. ASSUME Awaiting(u)' PROVE u # t /\ Awaiting(u)
    <3> PICK i \in 1 .. Len(waiters') : waiters'[i] = u
      BY <2>1 DEF Awaiting
    <3> DEFINE j == IF i < k THEN i ELSE i + 1
    <3>1. j \in 1 .. Len(waiters) /\ waiters[j] = u /\ j # k
      BY <1>1, <1>2
    <3> HIDE DEF j
    <3> QED BY <3>1, <1>5 DEF Awaiting
  <2>2. ASSUME u # t, Awaiting(u) PROVE Awaiting(u)'
    <3> PICK i \in 1 .. Len(waiters) : waiters[i] = u
      BY <2>2 DEF Awaiting
    <3> DEFINE j == IF i < k THEN i ELSE i - 1
    <3>1. i # k
      BY <2>2
    <3>2. j \in 1 .. Len(waiters') /\ waiters'[j] = u
      BY <1>1, <1>2, <3>1
    <3> HIDE DEF j
    <3> QED BY <3>2 DEF Awaiting
  <2> QED BY <2>1, <2>2
<1>7. \A i, j \in 1 .. Len(waiters') : waiters'[i] = waiters'[j] => i = j
  BY <1>1, <1>2, <1>5
<1> QED BY <1>2, <1>4, <1>6, <1>7 DEF QueueOK, Inv, TypeOK

LEMMA QueueKept ==
  ASSUME Inv, UNCHANGED waiters, NEW t \in Task, NEW at \in Place,
         pc' = [pc EXCEPT ![t] = at], pc[t] # "waiting", at # "waiting"
  PROVE  QueueOK'
<1>1. \A u \in Task : Awaiting(u)' <=> Awaiting(u)
  BY DEF Awaiting
<1>2. \A u \in Task : pc'[u] = IF u = t THEN at ELSE pc[u]
  BY DEF Inv, TypeOK
<1> QED BY <1>1, <1>2 DEF QueueOK, Inv, TypeOK

----------------------------------------------------------------------------
(* Where a task that is past the queue gives its guard back, the lock, the *)
(* calls and the entries of the others stay as they were.                  *)
LEMMA ReleaseKeeps ==
  ASSUME Inv, NEW t \in Task, Release(t), QueueOK', UNCHANGED map,
         \/ UNCHANGED adding /\ pc[t] # "adding"
         \/ t \in Writer /\ adding' = [adding EXCEPT ![t] = Nothing]
  PROVE  Inv'
<1>1. pc \in [Task -> Place] /\ \A u \in Task : pc'[u] = IF u = t THEN "idle" ELSE pc[u]
  BY DEF Inv, TypeOK, Release
<1>2. pc' \in [Task -> Place]
  BY DEF Inv, TypeOK, Release, Place
<1>3. /\ domain' \in [Connector -> Domain \cup {None}]
      /\ entry' \in [Connector -> Endpoint \cup {None}]
      /\ exported' \in [Lister -> SUBSET [domains : SUBSET Domain, endpoint : Endpoint]]
  BY DEF Inv, TypeOK, Release
<1>0. Nothing \in [domains : SUBSET Domain, endpoint : Endpoint \cup {None}]
  BY DEF Nothing
<1>4. /\ adding' \in [Writer -> [domains : SUBSET Domain, endpoint : Endpoint \cup {None}]]
      /\ \A w \in Writer : adding'[w] = adding[w] \/ (w = t /\ adding'[w] = Nothing)
  <2>1. adding \in [Writer -> [domains : SUBSET Domain, endpoint : Endpoint \cup {None}]]
    BY DEF Inv, TypeOK
  <2>2. CASE UNCHANGED adding
    BY <2>1, <2>2
  <2>3. CASE t \in Writer /\ adding' = [adding EXCEPT ![t] = Nothing]
    BY <2>1, <2>3, <1>0
  <2> QED BY <2>2, <2>3
<1>5. /\ readers' = {u \in Connector \cup Lister : pc'[u] \in {"holding", "connecting", "listed"}}
      /\ writers' = {w \in Writer : pc'[w] \in {"holding", "adding"}}
  BY <1>1 DEF Inv, TypeOK, Release, Task
<1>6. TypeOK'
  BY <1>1, <1>2, <1>3, <1>4, <1>5 DEF Inv, TypeOK, QueueOK, Task
<1>7. Exclusive'
  BY DEF Inv, Exclusive, Release
<1>8. CallKnown'
  BY <1>1 DEF Inv, CallKnown, Release, Task
<1>9. AddingOnly'
  <2>1. CASE UNCHANGED adding /\ pc[t] # "adding"
    BY <2>1, <1>1 DEF Inv, AddingOnly, Task
  <2>2. CASE t \in Writer /\ adding' = [adding EXCEPT ![t] = Nothing]
    BY <2>2, <1>1 DEF Inv, TypeOK, AddingOnly, Task
  <2> QED BY <2>1, <2>2
<1>10. EntryIsCurrent'
  BY <1>1 DEF Inv, EntryIsCurrent, Release, Task
<1> QED BY <1>6, <1>7, <1>8, <1>9, <1>10 DEF Inv

LEMMA InvInit ==
  ASSUME Init, MapAssumption
  PROVE  Inv
<1>1. TypeOK
  BY DEF Init, TypeOK, MapAssumption, Task, Place, Nothing, Awaiting
<1>2. Exclusive /\ CallKnown /\ AddingOnly /\ EntryIsCurrent
  BY DEF Init, Exclusive, CallKnown, AddingOnly, EntryIsCurrent, Task
<1> QED BY <1>1, <1>2 DEF Inv

LEMMA InvNext ==
  ASSUME Inv, [Next]_vars, MapAssumption
  PROVE  Inv'
<1> USE DEF Task
<1>0. pc \in [Task -> Place] /\ waiters \in Seq(Task)
  BY DEF Inv, TypeOK
<1>1. ASSUME Grant PROVE Inv'
  <2> DEFINE t == Head(waiters)
  <2>1. QueueOK'
    BY <1>1, QueueGrant
  <2>2. t \in Task /\ Awaiting(t) /\ pc[t] = "waiting"
    BY <1>0, <1>1 DEF Grant, Awaiting, Inv, TypeOK
  <2>3. /\ pc' = [pc EXCEPT ![t] = "holding"] /\ Compatible(t)
        /\ readers' = readers \cup ({t} \ Writer)
        /\ writers' = writers \cup ({t} \cap Writer)
        /\ UNCHANGED <<map, domain, entry, exported, adding>>
    BY <1>1 DEF Grant
  <2> HIDE DEF t
  <2>4. pc' \in [Task -> Place] /\ \A u \in Task : pc'[u] = IF u = t THEN "holding" ELSE pc[u]
    BY <1>0, <2>3 DEF Place
  <2>5. /\ readers' = {u \in Connector \cup Lister : pc'[u] \in {"holding", "connecting", "listed"}}
        /\ writers' = {w \in Writer : pc'[w] \in {"holding", "adding"}}
    BY <2>2, <2>3, <2>4, MapAssumption DEF Inv, TypeOK, MapAssumption
  <2>6. TypeOK'
    BY <2>1, <2>2, <2>3, <2>4, <2>5 DEF Inv, TypeOK, QueueOK
  <2>7. Exclusive'
    BY <2>2, <2>3 DEF Inv, Exclusive, Compatible
  <2>8. CallKnown' /\ AddingOnly' /\ EntryIsCurrent'
    BY <2>2, <2>3, <2>4 DEF Inv, CallKnown, AddingOnly, EntryIsCurrent
  <2> QED BY <2>6, <2>7, <2>8 DEF Inv
<1>2. ASSUME NEW t \in Task, Ask(t), UNCHANGED adding,
             \/ UNCHANGED domain /\ t \notin Connector
             \/ \E d \in Domain : domain' = [domain EXCEPT ![t] = d]
      PROVE  Inv'
  <2>1. QueueOK'
    BY <1>2, QueueAsk
  <2>2. pc' \in [Task -> Place] /\ \A u \in Task : pc'[u] = IF u = t THEN "waiting" ELSE pc[u]
    BY <1>0, <1>2 DEF Ask, Place
  <2>3. /\ readers' = {u \in Connector \cup Lister : pc'[u] \in {"holding", "connecting", "listed"}}
        /\ writers' = {w \in Writer : pc'[w] \in {"holding", "adding"}}
    BY <1>2, <2>2 DEF Inv, TypeOK, Ask
  <2>4. domain' \in [Connector -> Domain \cup {None}]
    BY <1>2 DEF Inv, TypeOK
  <2>5. TypeOK'
    BY <1>2, <2>1, <2>2, <2>3, <2>4 DEF Inv, TypeOK, QueueOK, Ask
  <2>6. Exclusive'
    BY <1>2 DEF Inv, Exclusive, Ask
  <2>7. CallKnown'
    BY <1>2, <2>2 DEF Inv, CallKnown, Ask, TypeOK
  <2>8. AddingOnly'
    BY <1>2, <2>2 DEF Inv, AddingOnly, Ask
  <2>9. EntryIsCurrent'
    BY <1>2, <2>2 DEF Inv, EntryIsCurrent, Ask, TypeOK
  <2> QED BY <2>5, <2>6, <2>7, <2>8, <2>9 DEF Inv
<1>3. ASSUME NEW c \in Connector, LookUp(c) PROVE Inv'
  <2>1. QueueOK'
    BY <1>3, QueueKept DEF LookUp, Place
  <2>2. pc' \in [Task -> Place] /\ \A u \in Task : pc'[u] = IF u = c THEN "connecting" ELSE pc[u]
    BY <1>0, <1>3 DEF LookUp, Place
  <2>3. /\ readers' = {u \in Connector \cup Lister : pc'[u] \in {"holding", "connecting", "listed"}}
        /\ writers' = {w \in Writer : pc'[w] \in {"holding", "adding"}}
    BY <1>3, <2>2, MapAssumption DEF Inv, TypeOK, LookUp, MapAssumption
  <2>4. entry' \in [Connector -> Endpoint \cup {None}] /\ entry'[c] = map[domain[c]]
    BY <1>3 DEF Inv, TypeOK, CallKnown, LookUp
  <2>5. TypeOK'
    BY <1>3, <2>1, <2>2, <2>3, <2>4, MapAssumption DEF Inv, TypeOK, QueueOK, LookUp, MapAssumption
  <2>6. Exclusive' /\ CallKnown' /\ AddingOnly'
    BY <1>3, <2>2, MapAssumption DEF Inv, Exclusive, CallKnown, AddingOnly, LookUp, MapAssumption
  <2>7. EntryIsCurrent'
    BY <1>3, <2>2, <2>4 DEF Inv, EntryIsCurrent, LookUp, TypeOK
  <2> QED BY <2>5, <2>6, <2>7 DEF Inv
<1>4. ASSUME NEW l \in Lister, List(l) PROVE Inv'
  <2>1. QueueOK'
    BY <1>4, QueueKept DEF List, Place
  <2>2. pc' \in [Task -> Place] /\ \A u \in Task : pc'[u] = IF u = l THEN "listed" ELSE pc[u]
    BY <1>0, <1>4 DEF List, Place
  <2>3. /\ readers' = {u \in Connector \cup Lister : pc'[u] \in {"holding", "connecting", "listed"}}
        /\ writers' = {w \in Writer : pc'[w] \in {"holding", "adding"}}
    BY <1>4, <2>2, MapAssumption DEF Inv, TypeOK, List, MapAssumption
  <2>4. exported' \in [Lister -> SUBSET [domains : SUBSET Domain, endpoint : Endpoint]]
    BY <1>4 DEF Inv, TypeOK, List, servers
  <2>5. TypeOK'
    BY <1>4, <2>1, <2>2, <2>3, <2>4, MapAssumption DEF Inv, TypeOK, QueueOK, List, MapAssumption
  <2>6. Exclusive' /\ CallKnown' /\ AddingOnly' /\ EntryIsCurrent'
    BY <1>4, <2>2, MapAssumption
    DEF Inv, Exclusive, CallKnown, AddingOnly, EntryIsCurrent, List, MapAssumption
  <2> QED BY <2>5, <2>6 DEF Inv
<1>5. ASSUME NEW w \in Writer, NEW s \in Server, AddServer(w, s) PROVE Inv'
  <2>1. QueueOK'
    BY <1>5, QueueKept DEF AddServer, Place
  <2>2. pc' \in [Task -> Place] /\ \A u \in Task : pc'[u] = IF u = w THEN "adding" ELSE pc[u]
    BY <1>0, <1>5 DEF AddServer, Place
  <2>3. /\ readers' = {u \in Connector \cup Lister : pc'[u] \in {"holding", "connecting", "listed"}}
        /\ writers' = {u \in Writer : pc'[u] \in {"holding", "adding"}}
    BY <1>5, <2>2, MapAssumption DEF Inv, TypeOK, AddServer, MapAssumption
  <2>4. adding' \in [Writer -> [domains : SUBSET Domain, endpoint : Endpoint \cup {None}]]
    BY <1>5, MapAssumption DEF Inv, TypeOK, AddServer, MapAssumption
  <2>5. TypeOK'
    BY <1>5, <2>1, <2>2, <2>3, <2>4, MapAssumption DEF Inv, TypeOK, QueueOK, AddServer, MapAssumption
  <2>6. Exclusive' /\ CallKnown' /\ EntryIsCurrent'
    BY <1>5, <2>2, MapAssumption
    DEF Inv, Exclusive, CallKnown, EntryIsCurrent, AddServer, MapAssumption
  <2>7. AddingOnly'
    BY <1>5, <2>2 DEF Inv, AddingOnly, AddServer, TypeOK
  <2> QED BY <2>5, <2>6, <2>7 DEF Inv
<1>6. ASSUME NEW w \in Writer, NEW d \in Domain, Insert(w, d) PROVE Inv'
  <2>1. w \in writers /\ readers = {}
    BY <1>6 DEF Inv, TypeOK, Exclusive, Insert
  <2>2. \A c \in Connector : pc[c] # "connecting"
    BY <2>1 DEF Inv, TypeOK
  <2>3. adding[w].endpoint \in Endpoint \cup {None}
    BY DEF Inv, TypeOK
  <2>4. map' \in [Domain -> Endpoint \cup {None}]
    BY <1>6, <2>3 DEF Inv, TypeOK, Insert
  <2>5. adding' \in [Writer -> [domains : SUBSET Domain, endpoint : Endpoint \cup {None}]]
    BY <1>6 DEF Inv, TypeOK, Insert
  <2>6. TypeOK'
    BY <1>6, <2>4, <2>5 DEF Inv, TypeOK, Insert, Awaiting
  <2>7. Exclusive' /\ CallKnown' /\ EntryIsCurrent'
    BY <1>6, <2>2 DEF Inv, Exclusive, CallKnown, EntryIsCurrent, Insert
  <2>8. AddingOnly'
    BY <1>6 DEF Inv, AddingOnly, Insert, TypeOK
  <2> QED BY <2>6, <2>7, <2>8 DEF Inv
<1>7. ASSUME NEW t \in Task, Release(t), UNCHANGED <<map, waiters>>,
             pc[t] # "waiting",
             \/ UNCHANGED adding /\ pc[t] # "adding"
             \/ t \in Writer /\ adding' = [adding EXCEPT ![t] = Nothing]
      PROVE  Inv'
  <2>1. QueueOK'
    BY <1>7, QueueKept DEF Release, Place
  <2> QED BY <1>7, <2>1, ReleaseKeeps
<1>8. ASSUME NEW t \in Task, GiveUp(t) PROVE Inv'
  <2>1. QueueOK'
    BY <1>8, QueueGiveUp
  <2> QED BY <1>8, <2>1, ReleaseKeeps DEF GiveUp
<1>9. ASSUME UNCHANGED vars PROVE Inv'
  BY <1>9 DEF vars, Inv, TypeOK, Awaiting, Exclusive, CallKnown, AddingOnly, EntryIsCurrent
<1>10. ASSUME NEW c \in Connector, NEW d \in Domain, Connect(c, d) PROVE Inv'
  BY <1>10, <1>2 DEF Connect
<1>11. ASSUME NEW c \in Connector, ServerNotFound(c) \/ ConnectEnds(c) PROVE Inv'
  BY <1>11, <1>7 DEF ServerNotFound, ConnectEnds
<1>12. ASSUME NEW l \in Lister, Read(l) PROVE Inv'
  BY <1>12, <1>2, MapAssumption DEF Read, MapAssumption
<1>13. ASSUME NEW l \in Lister, ReadEnds(l) PROVE Inv'
  BY <1>13, <1>7 DEF ReadEnds
<1>14. ASSUME NEW w \in Writer, Write(w) PROVE Inv'
  BY <1>14, <1>2, MapAssumption DEF Write, MapAssumption
<1>15. ASSUME NEW w \in Writer, WriteEnds(w) PROVE Inv'
  BY <1>15, <1>7 DEF WriteEnds
<1>16. ASSUME NEW t \in Task, Drop(t) PROVE Inv'
  BY <1>16, <1>7 DEF Drop
<1> QED
  BY <1>1, <1>3, <1>4, <1>5, <1>6, <1>8, <1>9, <1>10, <1>11, <1>12, <1>13, <1>14, <1>15, <1>16
  DEF Next

----------------------------------------------------------------------------
(* Every variable keeps its type, and queue and guards agree with where    *)
(* the tasks are: nobody who gives up leaves a guard or a place behind.    *)
THEOREM MapTyped == Spec => []TypeOK
<1>1. Init => Inv
  BY InvInit, MapAssumption
<1>2. Inv /\ [Next]_vars => Inv'
  BY InvNext, MapAssumption
<1>3. Inv => TypeOK
  BY DEF Inv
<1> QED BY <1>1, <1>2, <1>3, PTL DEF Spec

(* A connect that is under way uses the entry that the map has for its     *)
(* domain, as the guard it holds keeps every writer out.                   *)
THEOREM MapEntryIsCurrent == Spec => []EntryIsCurrent
<1>1. Init => Inv
  BY InvInit, MapAssumption
<1>2. Inv /\ [Next]_vars => Inv'
  BY InvNext, MapAssumption
<1>3. Inv => EntryIsCurrent
  BY DEF Inv
<1> QED BY <1>1, <1>2, <1>3, PTL DEF Spec

----------------------------------------------------------------------------
(* The table while only w has something left to insert, and while no       *)
(* writer has.                                                             *)
LEMMA TableShape ==
  ASSUME NEW m, NEW a, NEW w \in Writer,
         \A u \in Writer : u # w => a[u].domains = {}
  PROVE  [d \in Domain |-> IF \E u \in Writer : d \in a[u].domains
                           THEN a[CHOOSE u \in Writer : d \in a[u].domains].endpoint
                           ELSE m[d]]
           = [d \in Domain |-> IF d \in a[w].domains THEN a[w].endpoint ELSE m[d]]
<1>1. ASSUME NEW d \in Domain, d \in a[w].domains
      PROVE  (CHOOSE u \in Writer : d \in a[u].domains) = w
  BY <1>1
<1>2. \A d \in Domain : (\E u \in Writer : d \in a[u].domains) <=> d \in a[w].domains
  OBVIOUS
<1> QED BY <1>1, <1>2

LEMMA TableOfWriter ==
  ASSUME Inv, NEW w \in writers
  PROVE  table = [d \in Domain |-> IF d \in adding[w].domains
                                   THEN adding[w].endpoint ELSE map[d]]
<1>1. w \in Writer /\ \A u \in Writer : u # w => adding[u].domains = {}
  BY DEF Inv, TypeOK, Exclusive, AddingOnly, Nothing
<1> QED BY <1>1, TableShape DEF table

LEMMA TableOfNextWriter ==
  ASSUME Inv', NEW w \in writers'
  PROVE  table' = [d \in Domain |-> IF d \in adding'[w].domains
                                    THEN adding'[w].endpoint ELSE map'[d]]
<1>1. w \in Writer /\ \A u \in Writer : u # w => adding'[u].domains = {}
  BY DEF Inv, TypeOK, Exclusive, AddingOnly, Nothing
<1> QED BY <1>1, TableShape DEF table

LEMMA TableOfReaders ==
  ASSUME Inv, \A w \in Writer : pc[w] # "adding"
  PROVE  table = map
<1>1. \A w \in Writer : adding[w].domains = {}
  BY DEF Inv, AddingOnly, Nothing
<1>2. map = [d \in Domain |-> map[d]]
  BY DEF Inv, TypeOK
<1> QED BY <1>1, <1>2 DEF table

LEMMA TableKept ==
  ASSUME UNCHANGED <<map, adding>>
  PROVE  UNCHANGED table
BY DEF table

(* Whoever releases a guard forgets what it saw. *)
LEMMA ReleaseForgets ==
  ASSUME Inv, NEW t \in Task, Release(t), UNCHANGED table, MapAssumption
  PROVE  [Table!Next]_(Table!vars)
<1>1. entry \in [Connector -> Endpoint \cup {None}]
  BY DEF Inv, TypeOK
<1>2. exported = [l \in Lister |-> exported[l]]
  BY DEF Inv, TypeOK
<1>3. CASE t \in Connector
  <2>1. entry' = [entry EXCEPT ![t] = None]
    BY <1>1 DEF Release
  <2>2. exported' = exported
    BY <1>2, <1>3, MapAssumption DEF Release, MapAssumption
  <2>3. Table!Forget(t)
    BY <2>1, <2>2 DEF Table!Forget
  <2> QED BY <2>3, <1>3 DEF Table!Next
<1>4. CASE t \in Lister
  <2>1. entry' = entry
    BY <1>1, <1>4, MapAssumption DEF Release, MapAssumption
  <2>2. exported' = [exported EXCEPT ![t] = {}]
    BY <1>2, <1>4 DEF Release
  <2>3. Table!Discard(t)
    BY <2>1, <2>2 DEF Table!Discard
  <2> QED BY <2>3, <1>4 DEF Table!Next
<1>5. CASE t \in Writer
  <2>1. entry' = entry /\ exported' = exported
    BY <1>1, <1>2, <1>5, MapAssumption DEF Release, MapAssumption
  <2> QED BY <2>1 DEF Table!vars
<1> QED BY <1>3, <1>4, <1>5 DEF Task

LEMMA TableNext ==
  ASSUME Inv, Inv', [Next]_vars, MapAssumption
  PROVE  [Table!Next]_(Table!vars)
<1>1. ASSUME UNCHANGED <<map, adding, entry, exported>> PROVE [Table!Next]_(Table!vars)
  BY <1>1, TableKept DEF Table!vars
<1>2. ASSUME NEW t \in Task, Release(t), UNCHANGED <<map, adding>>
      PROVE  [Table!Next]_(Table!vars)
  BY <1>2, TableKept, ReleaseForgets
<1>3. ASSUME NEW c \in Connector, LookUp(c) PROVE [Table!Next]_(Table!vars)
  <2>1. c \in readers /\ domain[c] \in Domain
    BY <1>3 DEF Inv, TypeOK, CallKnown, LookUp
  <2>2. \A w \in Writer : pc[w] # "adding"
    BY <2>1 DEF Inv, TypeOK, Exclusive
  <2>3. table = map /\ table' = table
    BY <1>3, <2>2, TableOfReaders, TableKept DEF LookUp
  <2>4. Table!LookUp(c, domain[c])
    BY <1>3, <2>3 DEF LookUp, Table!LookUp
  <2> QED BY <2>1, <2>4 DEF Table!Next
<1>4. ASSUME NEW l \in Lister, List(l) PROVE [Table!Next]_(Table!vars)
  <2>1. l \in readers
    BY <1>4 DEF Inv, TypeOK, List
  <2>2. \A w \in Writer : pc[w] # "adding"
    BY <2>1 DEF Inv, TypeOK, Exclusive
  <2>3. table = map /\ table' = table
    BY <1>4, <2>2, TableOfReaders, TableKept DEF List
  <2>4. exported' = [exported EXCEPT ![l] = servers] /\ exported'[l] = servers /\ entry' = entry
    BY <1>4 DEF List, Inv, TypeOK
  <2>5. Table!Denotes(servers, map)
    <3>1. \A g \in servers : \A d \in g.domains : map[d] = g.endpoint
      BY DEF servers
    <3>2. ASSUME NEW d \in Domain, map[d] # None
          PROVE  \E g \in servers : d \in g.domains
      <4> DEFINE g == [domains |-> {e \in Domain : map[e] = map[d]}, endpoint |-> map[d]]
      <4>1. g \in servers
        BY <3>2 DEF servers
      <4>2. d \in g.domains
        OBVIOUS
      <4> HIDE DEF g
      <4> QED BY <4>1, <4>2
    <3>3. \A g, h \in servers : g.endpoint = h.endpoint => g = h
      BY DEF servers
    <3> QED BY <3>1, <3>2, <3>3 DEF Table!Denotes
  <2>6. Table!Export(l)
    BY <2>3, <2>4, <2>5 DEF Table!Export
  <2> QED BY <2>6 DEF Table!Next
<1>5. ASSUME NEW w \in Writer, NEW s \in Server, AddServer(w, s)
      PROVE  [Table!Next]_(Table!vars)
  <2>1. w \in writers /\ w \in writers' /\ adding'[w] = s /\ map' = map
    BY <1>5 DEF Inv, TypeOK, AddServer
  <2>2. adding[w] = Nothing /\ map = [d \in Domain |-> map[d]]
    BY <1>5 DEF Inv, TypeOK, AddingOnly, AddServer
  <2>3. table = map
    BY <2>1, <2>2, TableOfWriter DEF Nothing
  <2>4. table' = [d \in Domain |-> IF d \in adding'[w].domains
                                   THEN adding'[w].endpoint ELSE map'[d]]
    BY <2>1, TableOfNextWriter
  <2>5. Table!Add(s)
    BY <1>5, <2>1, <2>3, <2>4 DEF Table!Add, Table!With, AddServer
  <2> QED BY <2>5 DEF Table!Next
<1>6. ASSUME NEW w \in Writer, NEW d \in Domain, Insert(w, d)
      PROVE  [Table!Next]_(Table!vars)
  <2>1. w \in writers /\ w \in writers'
    BY <1>6 DEF Inv, TypeOK, Insert
  <2>2. /\ \A e \in Domain : map'[e] = IF e = d THEN adding[w].endpoint ELSE map[e]
        /\ adding'[w].domains = adding[w].domains \ {d}
        /\ adding'[w].endpoint = adding[w].endpoint
        /\ d \in adding[w].domains
    BY <1>6 DEF Inv, TypeOK, Insert
  <2>3. table = [e \in Domain |-> IF e \in adding[w].domains
                                  THEN adding[w].endpoint ELSE map[e]]
    BY <2>1, TableOfWriter
  <2>4. table' = [e \in Domain |-> IF e \in adding'[w].domains
                                   THEN adding'[w].endpoint ELSE map'[e]]
    BY <2>1, TableOfNextWriter
  <2>5. table' = table
    BY <2>2, <2>3, <2>4
  <2> QED BY <1>6, <2>5 DEF Insert, Table!vars
<1>7. ASSUME NEW w \in Writer, WriteEnds(w) PROVE [Table!Next]_(Table!vars)
  <2>1. \A u \in Writer : adding'[u].domains = adding[u].domains
    BY <1>7 DEF Inv, TypeOK, WriteEnds, Nothing
  <2>2. \A u \in Writer : adding[u].domains = {} \/ adding'[u] = adding[u]
    BY <1>7 DEF Inv, TypeOK, WriteEnds
  <2>3. \A u \in Writer : adding[u].domains = {}
    BY <1>7 DEF WriteEnds, Inv, TypeOK, Exclusive, AddingOnly, Nothing
  <2>4. table' = table
    BY <1>7, <2>1, <2>3 DEF table, WriteEnds
  <2> QED BY <1>7, <2>4, ReleaseForgets DEF WriteEnds, Task
<1>8. ASSUME NEW c \in Connector, NEW d \in Domain, Connect(c, d)
      PROVE  [Table!Next]_(Table!vars)
  BY <1>8, <1>1 DEF Connect, Ask
<1>9. ASSUME NEW c \in Connector, ServerNotFound(c) \/ ConnectEnds(c)
      PROVE  [Table!Next]_(Table!vars)
  BY <1>9, <1>2 DEF ServerNotFound, ConnectEnds, Task
<1>10. ASSUME NEW l \in Lister, Read(l) \/ ReadEnds(l) PROVE [Table!Next]_(Table!vars)
  BY <1>10, <1>1, <1>2 DEF Read, Ask, ReadEnds, Task
<1>11. ASSUME NEW w \in Writer, Write(w) PROVE [Table!Next]_(Table!vars)
  BY <1>11, <1>1 DEF Write, Ask
<1>12. ASSUME NEW t \in Task, GiveUp(t) \/ Drop(t) PROVE [Table!Next]_(Table!vars)
  BY <1>12, <1>2 DEF GiveUp, Drop
<1>13. ASSUME Grant \/ UNCHANGED vars PROVE [Table!Next]_(Table!vars)
  BY <1>13, <1>1 DEF Grant, vars
<1> QED
  BY <1>3, <1>4, <1>5, <1>6, <1>7, <1>8, <1>9, <1>10, <1>11, <1>12, <1>13 DEF Next

(* The map behind its lock is the table of ServerTable: every step of it   *)
(* is one step of the table or none.                                       *)
THEOREM MapImplementsTable == Spec => ImplementsTable
<1>1. Init => Inv /\ Table!Init
  <2>1. ASSUME Init PROVE table = [d \in Domain |-> None]
    BY <2>1 DEF Init, table, Nothing
  <2> QED BY <2>1, InvInit, MapAssumption DEF Init, Table!Init
<1>2. Inv /\ [Next]_vars => Inv'
  BY InvNext, MapAssumption
<1>3. Inv /\ Inv' /\ [Next]_vars => [Table!Next]_(Table!vars)
  BY TableNext, MapAssumption
<1> QED BY <1>1, <1>2, <1>3, PTL DEF Spec, ImplementsTable, Table!Spec
============================================================================

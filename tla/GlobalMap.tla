----------------------------- MODULE GlobalMap -----------------------------
(***************************************************************************)
(* src/server_map.rs and connect_any_global_map of src/lib.rs: the map     *)
(* from mail domains to endpoints that all tasks of a program share, behind*)
(* tokio's RwLock.  Programs add servers to it and list them; a connect    *)
(* looks its domain up and keeps the read guard until it is done, and no   *)
(* connect has a timeout.                                                  *)
(***************************************************************************)
EXTENDS Integers, Sequences, SequencesExt

CONSTANTS
  Domain,     \* the domains of mailboxes
  Endpoint,   \* the endpoints, as values that may be equal or not
  Server,     \* the servers a program adds: records [domains, endpoint]
  Connector,  \* the tasks that call connect_any_global_map
  Lister,     \* the tasks that hold ArcMap::read and call servers
  Writer,     \* the tasks that hold ArcMap::write and call add_server
  Within,     \* Within[c]: the lister whose guard is held while c runs, or None
  Silent,     \* the connectors whose server never answers
  None

Task == Connector \cup Lister \cup Writer

ASSUME MapAssumption ==
  /\ Server \subseteq [domains : SUBSET Domain, endpoint : Endpoint]
  /\ None \notin Endpoint \cup Lister \cup Domain
  /\ Connector \cap Lister = {} /\ Connector \cap Writer = {} /\ Lister \cap Writer = {}
  /\ Within \in [Connector -> Lister \cup {None}]
  /\ Silent \subseteq Connector

VARIABLES
  map,        \* ServerMap.map, None where it has no key
  readers,    \* the tasks that hold a read guard
  writers,    \* the tasks that hold the write guard
  waiters,    \* the tasks that wait for a guard, as they came
  pc,         \* where each task is
  domain,     \* the domain each connector was called with
  entry,      \* the endpoints each connector is connecting to, or None
  exported,   \* the result of servers, for each lister
  adding      \* what each writer has left to insert

vars == <<map, readers, writers, waiters, pc, domain, entry, exported, adding>>

Place == {"idle", "waiting", "holding", "connecting", "listed", "adding"}

Nothing == [domains |-> {}, endpoint |-> None]

Init ==
  /\ map = [d \in Domain |-> None]
  /\ readers = {} /\ writers = {} /\ waiters = <<>>
  /\ pc = [t \in Task |-> "idle"]
  /\ domain = [c \in Connector |-> None]
  /\ entry = [c \in Connector |-> None]
  /\ exported = [l \in Lister |-> {}]
  /\ adding = [w \in Writer |-> Nothing]

----------------------------------------------------------------------------
(* The lock: guards are given in the order in which they were asked for.   *)

Ask(t) ==
  /\ pc[t] = "idle"
  /\ pc' = [pc EXCEPT ![t] = "waiting"]
  /\ waiters' = Append(waiters, t)
  /\ UNCHANGED <<map, readers, writers, entry, exported>>

(* mutant: a connect asks for the write guard *)
CompatibleAlone(t) == readers = {} /\ writers = {}

Compatible(t) == writers = {} /\ (t \in Writer => readers = {})

Grant ==
  /\ waiters # <<>>
  /\ LET t == Head(waiters)
     IN  /\ Compatible(t)
         /\ pc' = [pc EXCEPT ![t] = "holding"]
         /\ readers' = readers \cup ({t} \ Writer)
         /\ writers' = writers \cup ({t} \cap Writer)
  /\ waiters' = Tail(waiters)
  /\ UNCHANGED <<map, domain, entry, exported, adding>>

(* The guard, if t holds one, is dropped and its future is over. *)
Release(t) ==
  /\ readers' = readers \ {t}
  /\ writers' = writers \ {t}
  /\ pc' = [pc EXCEPT ![t] = "idle"]
  /\ domain' = [c \in Connector |-> IF c = t THEN None ELSE domain[c]]
  /\ entry' = [c \in Connector |-> IF c = t THEN None ELSE entry[c]]
  /\ exported' = [l \in Lister |-> IF l = t THEN {} ELSE exported[l]]

----------------------------------------------------------------------------
(* connect_any_global_map *)

Connect(c, d) ==
  /\ Within[c] # None => pc[Within[c]] = "listed"
  /\ Ask(c)
  /\ domain' = [domain EXCEPT ![c] = d]
  /\ UNCHANGED adding

(* mutant: the guard is dropped before the connect *)
LookUpAndRelease(c) ==
  /\ pc[c] = "holding"
  /\ map[domain[c]] # None
  /\ entry' = [entry EXCEPT ![c] = map[domain[c]]]
  /\ pc' = [pc EXCEPT ![c] = "connecting"]
  /\ readers' = readers \ {c}
  /\ UNCHANGED <<map, writers, waiters, domain, exported, adding>>

LookUp(c) ==
  /\ pc[c] = "holding"
  /\ map[domain[c]] # None
  /\ entry' = [entry EXCEPT ![c] = map[domain[c]]]
  /\ pc' = [pc EXCEPT ![c] = "connecting"]
  /\ UNCHANGED <<map, readers, writers, waiters, domain, exported, adding>>

ServerNotFound(c) ==
  /\ pc[c] = "holding"
  /\ map[domain[c]] = None
  /\ Release(c)
  /\ UNCHANGED <<map, waiters, adding>>

(* With a reader or with an error: the guard goes with the future. *)
ConnectEnds(c) ==
  /\ pc[c] = "connecting"
  /\ c \notin Silent
  /\ Release(c)
  /\ UNCHANGED <<map, waiters, adding>>

----------------------------------------------------------------------------
(* A program that reads the map, and may connect while it has the guard.   *)

Read(l) == Ask(l) /\ UNCHANGED <<domain, adding>>

(* mutant: each domain is a server of its own *)
servers_by_domain ==
  {[domains |-> {d}, endpoint |-> map[d]] : d \in {d \in Domain : map[d] # None}}

servers ==
  {[domains |-> {d \in Domain : map[d] = e}, endpoint |-> e] :
     e \in {map[d] : d \in Domain} \ {None}}

List(l) ==
  /\ pc[l] = "holding"
  /\ exported' = [exported EXCEPT ![l] = servers]
  /\ pc' = [pc EXCEPT ![l] = "listed"]
  /\ UNCHANGED <<map, readers, writers, waiters, domain, entry, adding>>

Inner(t) == {c \in Connector : Within[c] = t}

ReadEnds(l) ==
  /\ pc[l] = "listed"
  /\ \A c \in Inner(l) : pc[c] = "idle"
  /\ Release(l)
  /\ UNCHANGED <<map, waiters, adding>>

----------------------------------------------------------------------------
(* add_server under the write guard: the domains one after the other.      *)

Write(w) == Ask(w) /\ UNCHANGED <<domain, adding>>

AddServer(w, s) ==
  /\ pc[w] = "holding"
  /\ pc' = [pc EXCEPT ![w] = "adding"]
  /\ adding' = [adding EXCEPT ![w] = s]
  /\ UNCHANGED <<map, readers, writers, waiters, domain, entry, exported>>

Insert(w, d) ==
  /\ pc[w] = "adding"
  /\ d \in adding[w].domains
  /\ map' = [map EXCEPT ![d] = adding[w].endpoint]
  /\ adding' = [adding EXCEPT ![w].domains = @ \ {d}]
  /\ UNCHANGED <<readers, writers, waiters, pc, domain, entry, exported>>

WriteEnds(w) ==
  /\ pc[w] = "adding"
  /\ adding[w].domains = {}
  /\ adding' = [adding EXCEPT ![w] = Nothing]
  /\ Release(w)
  /\ UNCHANGED <<map, waiters>>

----------------------------------------------------------------------------
(* mutant: who gave up keeps its place in the queue *)
GiveUpInQueue(t) ==
  /\ pc[t] = "waiting"
  /\ Release(t)
  /\ UNCHANGED <<map, waiters, adding>>

(* The future that waits for a guard is dropped. *)
GiveUp(t) ==
  /\ pc[t] = "waiting"
  /\ \E i \in 1 .. Len(waiters) : waiters[i] = t /\ waiters' = RemoveAt(waiters, i)
  /\ Release(t)
  /\ UNCHANGED <<map, adding>>

(* The future that holds a guard is dropped, after those of the calls made *)
(* inside of it.  add_server awaits nothing.                               *)
Drop(t) ==
  /\ pc[t] \in {"holding", "connecting", "listed"}
  /\ \A c \in Inner(t) : pc[c] = "idle"
  /\ Release(t)
  /\ UNCHANGED <<map, waiters, adding>>

Next ==
  \/ Grant
  \/ \E c \in Connector :
       LookUp(c) \/ ServerNotFound(c) \/ ConnectEnds(c) \/ \E d \in Domain : Connect(c, d)
  \/ \E l \in Lister : Read(l) \/ List(l) \/ ReadEnds(l)
  \/ \E w \in Writer :
       Write(w) \/ WriteEnds(w) \/ (\E s \in Server : AddServer(w, s))
                \/ \E d \in Domain : Insert(w, d)
  \/ \E t \in Task : GiveUp(t) \/ Drop(t)

Spec == Init /\ [][Next]_vars

(* The executor polls a task that can go on, tokio wakes the next in line, *)
(* and a connect ends unless its server is silent.  Nobody has to call,    *)
(* but who holds a guard makes finitely many calls inside of it.           *)
FairSpec ==
  /\ Spec
  /\ WF_vars(Grant)
  /\ \A c \in Connector : WF_vars(LookUp(c) \/ ServerNotFound(c) \/ ConnectEnds(c))
  /\ \A l \in Lister : WF_vars(List(l)) /\ SF_vars(ReadEnds(l))
  /\ \A w \in Writer : WF_vars((\E s \in Server : AddServer(w, s)) \/ WriteEnds(w)
                               \/ \E d \in Domain : Insert(w, d))

----------------------------------------------------------------------------
Awaiting(t) == \E i \in 1 .. Len(waiters) : waiters[i] = t

(* Every variable has its type; a task is in the queue exactly when it     *)
(* waits and holds a guard of its kind exactly when it is past the queue,  *)
(* whoever gave up in between.                                             *)
TypeOK ==
  /\ map \in [Domain -> Endpoint \cup {None}]
  /\ waiters \in Seq(Task)
  /\ \A i, j \in 1 .. Len(waiters) : waiters[i] = waiters[j] => i = j
  /\ pc \in [Task -> Place]
  /\ \A c \in Connector : pc[c] \notin {"listed", "adding"}
  /\ \A l \in Lister : pc[l] \notin {"connecting", "adding"}
  /\ \A w \in Writer : pc[w] \notin {"connecting", "listed"}
  /\ \A t \in Task : pc[t] = "waiting" <=> Awaiting(t)
  /\ readers = {t \in Connector \cup Lister : pc[t] \in {"holding", "connecting", "listed"}}
  /\ writers = {w \in Writer : pc[w] \in {"holding", "adding"}}
  /\ domain \in [Connector -> Domain \cup {None}]
  /\ entry \in [Connector -> Endpoint \cup {None}]
  /\ exported \in [Lister -> SUBSET [domains : SUBSET Domain, endpoint : Endpoint]]
  /\ adding \in [Writer -> [domains : SUBSET Domain, endpoint : Endpoint \cup {None}]]

(* A connect uses what the map says about its domain, for as long as it    *)
(* takes: no server is added under its feet, whoever else comes and goes.  *)
EntryIsCurrent ==
  \A c \in Connector : pc[c] = "connecting" => entry[c] = map[domain[c]]

(* What the map stands for while a server is being added. *)
table ==
  [d \in Domain |->
     IF \E w \in Writer : d \in adding[w].domains
     THEN adding[CHOOSE w \in Writer : d \in adding[w].domains].endpoint
     ELSE map[d]]

Table == INSTANCE ServerTable

(* The shared map is the table of ServerTable: nobody sees a server with   *)
(* some of its domains, and what servers returns denotes the table, each   *)
(* endpoint once, so that adding it to an empty map restores it.           *)
ImplementsTable == Table!Spec

(* A task waits for ever only behind a writer at the head of the queue,    *)
(* and that writer only for a connect whose server is silent, or for a     *)
(* guard whose owner connects and so waits for the writer itself.          *)
Hung(c)        == c \in Silent /\ pc[c] = "connecting"
SelfBlocked(c) == Within[c] # None /\ pc[c] = "waiting"
Jammed ==
  /\ waiters # <<>> /\ Head(waiters) \in Writer
  /\ \E c \in Connector : Hung(c) \/ SelfBlocked(c)

Served == \A t \in Task : <>[](pc[t] = "waiting") => <>[]Jammed
============================================================================

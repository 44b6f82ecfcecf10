---------------------------- MODULE ServerTable ----------------------------
(***************************************************************************)
(* What the server map promises to the tasks that share it: a table from   *)
(* domains to endpoints on which every operation takes effect at once.  A  *)
(* server is there with all of its domains or with none, and a list of the *)
(* servers is the table at one moment.                                     *)
(***************************************************************************)
CONSTANTS
  Domain,     \* the domains of mailboxes
  Server,     \* records [domains, endpoint]
  Connector,  \* the tasks that look a domain up
  Lister,     \* the tasks that ask for all servers
  None        \* no endpoint

VARIABLES
  table,      \* the endpoint of each domain, or None
  entry,      \* what each connector is using, None when it is not connecting
  exported    \* the servers each lister was given

vars == <<table, entry, exported>>

Init ==
  /\ table = [d \in Domain |-> None]
  /\ entry = [c \in Connector |-> None]
  /\ exported = [l \in Lister |-> {}]

With(tab, s) == [d \in Domain |-> IF d \in s.domains THEN s.endpoint ELSE tab[d]]

(* The servers say the same as the table, each endpoint once. *)
Denotes(servers, tab) ==
  /\ \A s \in servers : \A d \in s.domains : tab[d] = s.endpoint
  /\ \A d \in Domain : tab[d] # None => \E s \in servers : d \in s.domains
  /\ \A s1, s2 \in servers : s1.endpoint = s2.endpoint => s1 = s2

Add(s) ==
  /\ table' = With(table, s)
  /\ UNCHANGED <<entry, exported>>

LookUp(c, d) ==
  /\ entry' = [entry EXCEPT ![c] = table[d]]
  /\ UNCHANGED <<table, exported>>

Export(l) ==
  /\ \E servers \in {exported'[l]} :
       Denotes(servers, table) /\ exported' = [exported EXCEPT ![l] = servers]
  /\ UNCHANGED <<table, entry>>

Forget(c) ==
  /\ entry' = [entry EXCEPT ![c] = None]
  /\ UNCHANGED <<table, exported>>

Discard(l) ==
  /\ exported' = [exported EXCEPT ![l] = {}]
  /\ UNCHANGED <<table, entry>>

Next ==
  \/ \E s \in Server : Add(s)
  \/ \E c \in Connector : Forget(c) \/ \E d \in Domain : LookUp(c, d)
  \/ \E l \in Lister : Export(l) \/ Discard(l)

Spec == Init /\ [][Next]_vars
============================================================================

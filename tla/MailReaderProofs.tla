-------------------------- MODULE MailReaderProofs --------------------------
(***************************************************************************)
(* What connect_any and the two readers guarantee for every mailbox,       *)
(* filter and number of changes that the server makes meanwhile.           *)
(***************************************************************************)
EXTENDS MailReader, FiniteSetTheorems, TLAPS

overPop3 == outcome["pop3"] = "connected"
Reading  == {"list", "select", "fetch"}
Looping  == {"stat", "retr"}

(* Where connect_any is tells what it has tried. *)
ConnInv ==
  /\ outcome \in [Protocol -> {"untried", "connected", "refused"}]
  /\ pc \in {"lookup", "imap"} => outcome["imap"] = "untried" /\ outcome["pop3"] = "untried"
  /\ pc = "imap" => get_imap
  /\ pc = "pop3" => get_pop3 /\ outcome["pop3"] = "untried" /\ ~overImap
  /\ pc = "pop3" /\ get_imap => outcome["imap"] = "refused"
  /\ pc \in Reading => overImap
  /\ pc \in Looping => overPop3
  /\ pc = "idle" => overImap \/ overPop3
  /\ ~(overImap /\ overPop3)
  /\ ConnectIsBest

TypeInv ==
  /\ account \in [Mail -> Folder \cup {Nowhere}] /\ attributes \in Listings
  /\ entry \in Entry \cup {"no_domain", "not_found"}
  /\ pc \in {"lookup", "imap", "pop3", "failed", "idle"} \cup Looping \cup Reading
  /\ filter \in SUBSET Mail
  /\ maildrop \in Seq(Mail) /\ next \in 0 .. Len(maildrop)
  /\ pending \in Seq(0 .. Len(maildrop))
  /\ folders \in SUBSET Folder /\ folder \in Folder \cup {Nowhere} /\ selected \in SUBSET Mail
  /\ emails \in [Mail -> Nat]
  /\ result \in {"none", "ok", "error"}
  /\ reads \in 0 .. MaxReads /\ changes \in 0 .. MaxChanges
  /\ moved \in [Mail -> Nat]

(* The variables of a reader have their resting values outside of a read,  *)
(* and no mail changed its place more often than the server made changes.  *)
RestInv ==
  /\ pc \notin {"select", "fetch"} => folders = {}
  /\ pc # "retr" => next = 0
  /\ ~overPop3 => pending = <<>>
  /\ pc \notin {"idle", "select", "fetch", "retr"} => \A m \in Mail : emails[m] = 0
  /\ pc # "idle" => result # "ok"
  /\ result # "ok" /\ pc = "idle" => \A m \in Mail : emails[m] = 0
  /\ \A m \in Mail : emails[m] > 0 => m \in filter
  /\ \A m \in Mail : moved[m] <= changes

(* IMAP: a mail is in the result once at most for every place it was in,   *)
(* and not yet for the folder it is in when that is still to be crawled.   *)
ImapInv ==
  overImap =>
    /\ folders \subseteq Scope
    /\ pc = "fetch" => folder \in folders
    /\ \A m \in Mail :
         /\ emails[m] <= moved[m] + 1
         /\ account[m] \in folders => emails[m] <= moved[m]
         /\ moved[m] = 0 /\ emails[m] > 0 => account[m] \in Scope \ folders
         /\ pc \in {"select", "fetch"} \/ result = "ok" =>
              (moved[m] = 0 /\ m \in filter /\ account[m] \in Scope \ folders => emails[m] > 0)
         /\ pc = "fetch" =>
              /\ m \in selected => emails[m] <= moved[m]
              /\ m \in selected /\ account[m] # folder => emails[m] < moved[m]
              /\ moved[m] = 0 => (m \in selected <=> account[m] = folder)

(* POP3: the result has the mails of the maildrop behind which the loop    *)
(* is, each once, and a mail that was not moved is in the maildrop exactly *)
(* when it is in the inbox.                                                *)
PopInv ==
  overPop3 =>
    /\ \A i, j \in 1 .. Len(maildrop) : maildrop[i] = maildrop[j] => i = j
    /\ \A m \in Mail : moved[m] = 0 =>
         (account[m] = Inbox <=> \E j \in 1 .. Len(maildrop) : maildrop[j] = m)
    /\ pc = "retr" => next \in 1 .. Len(maildrop)
    /\ \A m \in Mail :
         /\ emails[m] <= 1
         /\ emails[m] > 0 => \E j \in 1 .. Len(maildrop) : maildrop[j] = m
    /\ pc = "retr" =>
         \A j \in 1 .. Len(maildrop) :
           /\ j >= next => emails[maildrop[j]] = 0
           /\ j < next /\ maildrop[j] \in filter => emails[maildrop[j]] > 0
    /\ result = "ok" =>
         \A j \in 1 .. Len(maildrop) : maildrop[j] \in filter => emails[maildrop[j]] > 0

(* The replies owed to dropped reads are runs of what a read asks for, in  *)
(* its order, STAT first; a read that is in its loop took a reply of its   *)
(* own kind before each request, so that it finds the next of that run, or *)
(* the start of another, in front.                                         *)
Run(s) == \A i \in 2 .. Len(s) : s[i] = 0 \/ s[i] = s[i - 1] + 1

PendInv ==
  /\ Run(pending)
  /\ pc = "retr" /\ Len(pending) > 0 =>
       pending[Len(pending)] = next - 1 /\ pending[1] \in {0, next}

Inv == ConnInv /\ TypeInv /\ RestInv /\ ImapInv /\ PopInv /\ PendInv

USE DEF account_, mailbox, pop3_read, imap_read

----------------------------------------------------------------------------
LEMMA NoMails == None \in [Mail -> Nat] /\ \A m \in Mail : None[m] = 0
BY DEF None

LEMMA InvInit ==
  ASSUME Init, ReaderAssumption
  PROVE  Inv
<1>1. ConnInv
  BY DEF Init, ConnInv, ConnectIsBest, overImap, overPop3, Protocol, Reading, Looping
<1>2. TypeInv
  <2>1. account \in [Mail -> Folder \cup {Nowhere}]
    BY DEF Init, ReaderAssumption
  <2> QED BY <2>1, NoMails DEF Init, TypeInv, ReaderAssumption, Looping, Reading
<1>3. RestInv
  BY NoMails DEF Init, RestInv
<1>4. ImapInv /\ PopInv
  BY DEF Init, ImapInv, PopInv, overImap, overPop3, Protocol
<1>5. PendInv
  BY DEF Init, PendInv, Run
<1> QED BY <1>1, <1>2, <1>3, <1>4, <1>5 DEF Inv

(* connect_any tries each endpoint, and a read changes nothing about it. *)
LEMMA ConnStep ==
  ASSUME Inv, [Next]_vars
  PROVE  ConnInv'
<1> USE DEF Inv, ConnInv, ConnectIsBest, overImap, overPop3, get_imap, get_pop3, Reading, Looping
<1>1. ASSUME LookUp PROVE ConnInv'
  BY <1>1 DEF LookUp
<1>2. ASSUME ImapConnects PROVE ConnInv'
  BY <1>2 DEF ImapConnects, Protocol
<1>3. ASSUME ImapRefused PROVE ConnInv'
  BY <1>3 DEF ImapRefused, Protocol
<1>4. ASSUME Pop3Connects PROVE ConnInv'
  BY <1>4 DEF Pop3Connects, Protocol
<1>5. ASSUME Pop3Refused PROVE ConnInv'
  BY <1>5 DEF Pop3Refused, Protocol
<1>6. ASSUME Begin PROVE ConnInv'
  BY <1>6 DEF Begin
<1>7. ASSUME Stat \/ Retr PROVE ConnInv'
  BY <1>7 DEF Stat, Retr
<1>8. ASSUME GetFolders PROVE ConnInv'
  BY <1>8 DEF GetFolders, CrawlOn
<1>9. ASSUME Select PROVE ConnInv'
  BY <1>9 DEF Select
<1>10. ASSUME Fetch PROVE ConnInv'
  BY <1>10 DEF Fetch, CrawlOn
<1>11. ASSUME RequestFails \/ DropRead PROVE ConnInv'
  BY <1>11 DEF RequestFails, DropRead, Awaits, ReadFails
<1>12. ASSUME Change \/ UNCHANGED vars PROVE ConnInv'
  BY <1>12 DEF Change, vars
<1> QED
  BY <1>1, <1>2, <1>3, <1>4, <1>5, <1>6, <1>7, <1>8, <1>9, <1>10, <1>11, <1>12
  DEF Next, Connect, Read

(* What the mails that are pushed do to the result. *)
LEMMA Pushed ==
  ASSUME TypeInv, NEW mails \in SUBSET Mail, Push(mails)
  PROVE  /\ emails' \in [Mail -> Nat]
         /\ \A m \in Mail :
              emails'[m] = IF m \in mails /\ m \in filter THEN emails[m] + 1 ELSE emails[m]
<1>1. emails \in [Mail -> Nat]
  BY DEF TypeInv
<1>2. emails' = [m \in Mail |-> IF m \in mails \cap filter THEN emails[m] + 1 ELSE emails[m]]
  BY DEF Push, Matching
<1> QED BY <1>1, <1>2

(* What a FETCH returns: of the mails that were there at the SELECT, all   *)
(* that are still there; from an empty folder, at most what has arrived.   *)
LEMMA FetchedMails ==
  ASSUME TypeInv, NEW mails \in Fetched
  PROVE  /\ mails \in SUBSET Mail
         /\ selected # {} =>
              /\ \A m \in mails : m \in selected
              /\ \A m \in selected : account[m] = folder => m \in mails
         /\ selected = {} => \A m \in mails : account[m] = folder
<1>1. selected \in SUBSET Mail
  BY DEF TypeInv
<1>2. CASE selected = {}
  BY <1>2 DEF Fetched, Holds
<1>3. CASE selected # {}
  <2> PICK gone \in SUBSET (selected \ Holds(folder)) : mails = selected \ gone
    BY <1>3 DEF Fetched
  <2> QED BY <1>1, <1>3 DEF Holds
<1> QED BY <1>2, <1>3

(* The maildrop of a session has each mail of the inbox under one number. *)
LEMMA Maildrop ==
  ASSUME ReaderAssumption, NEW s \in Orders(Holds(Inbox))
  PROVE  /\ s \in Seq(Mail)
         /\ \A i, j \in 1 .. Len(s) : s[i] = s[j] => i = j
         /\ \A m \in Mail : account[m] = Inbox <=> \E j \in 1 .. Len(s) : s[j] = m
<1>1. IsFiniteSet(Holds(Inbox)) /\ Holds(Inbox) \subseteq Mail
  BY FS_Subset DEF Holds, ReaderAssumption
<1>2. Cardinality(Holds(Inbox)) \in Nat
  BY <1>1, FS_CardinalityType
<1>3. s \in [1 .. Cardinality(Holds(Inbox)) -> Holds(Inbox)]
  BY DEF Orders
<1>4. s \in Seq(Mail) /\ Len(s) = Cardinality(Holds(Inbox))
  BY <1>1, <1>2, <1>3
<1>5. \A i, j \in 1 .. Len(s) : s[i] = s[j] => i = j
  BY <1>4 DEF Orders
<1>6. \A m \in Holds(Inbox) : \E j \in 1 .. Len(s) : s[j] = m
  BY <1>4 DEF Orders
<1>7. \A j \in 1 .. Len(s) : s[j] \in Holds(Inbox)
  BY <1>3, <1>4
<1> QED BY <1>4, <1>5, <1>6, <1>7 DEF Holds

(* A change moves one mail to another place. *)
LEMMA Changed ==
  ASSUME TypeInv, ReaderAssumption, Change
  PROVE  /\ account' \in [Mail -> Folder \cup {Nowhere}] /\ moved' \in [Mail -> Nat]
         /\ changes' = changes + 1 /\ changes' \in 0 .. MaxChanges
         /\ \A m \in Mail : \/ account'[m] = account[m] /\ moved'[m] = moved[m]
                            \/ moved'[m] = moved[m] + 1
<1> USE DEF TypeInv, ReaderAssumption
<1> PICK m \in Mail, f \in Folder \cup {Nowhere} :
      account' = [account EXCEPT ![m] = f] /\ moved' = [moved EXCEPT ![m] = moved[m] + 1]
  BY DEF Change
<1>1. account' \in [Mail -> Folder \cup {Nowhere}] /\ moved' \in [Mail -> Nat]
  OBVIOUS
<1>2. changes' = changes + 1 /\ changes' \in 0 .. MaxChanges
  BY DEF Change
<1> QED BY <1>1, <1>2

(* The replies a read finds are those owed to dropped reads and its own. *)
LEMMA Due ==
  ASSUME Inv
  PROVE  /\ due \in Seq(0 .. Len(maildrop)) /\ Len(due) = Len(pending) + 1
         /\ Head(due) \in 0 .. Len(maildrop) /\ Head(due) = due[1]
         /\ Tail(due) \in Seq(0 .. Len(maildrop)) /\ Len(Tail(due)) = Len(pending)
         /\ \A i \in 1 .. Len(pending) : Tail(due)[i] = due[i + 1] /\ due[i] = pending[i]
         /\ due[Len(pending) + 1] = next
         /\ Len(pending) \in Nat
<1>1. pending \in Seq(0 .. Len(maildrop)) /\ next \in 0 .. Len(maildrop)
  BY DEF Inv, TypeInv
<1> QED BY <1>1 DEF due

LEMMA DueFollows ==
  ASSUME Inv
  PROVE  /\ Run(due) /\ Run(Tail(due))
         /\ pc = "retr" => Head(due) \in {0, next}
         /\ pc # "retr" => next = 0
<1> DEFINE n == Len(pending)
<1>1. pc # "retr" => next = 0
  BY DEF Inv, RestInv
<1>2. n > 0 => due[n + 1] = 0 \/ due[n + 1] = due[n] + 1
  <2>1. CASE pc = "retr"
    <3>1. n > 0 => pending[n] = next - 1
      BY <2>1 DEF Inv, PendInv
    <3>2. next \in Nat
      BY DEF Inv, TypeInv
    <3> QED BY <3>1, <3>2, Due
  <2> QED BY <1>1, <2>1, Due
<1>3. Run(due)
  <2> SUFFICES ASSUME NEW i \in 2 .. Len(due)
               PROVE  due[i] = 0 \/ due[i] = due[i - 1] + 1
    BY DEF Run
  <2>1. CASE i <= n
    <3>1. i \in 2 .. n /\ i - 1 \in 1 .. n /\ i \in 1 .. n
      BY <2>1, Due
    <3>2. pending[i] = 0 \/ pending[i] = pending[i - 1] + 1
      BY <3>1 DEF Inv, PendInv, Run
    <3> QED BY <3>1, <3>2, Due
  <2>2. CASE i = n + 1
    BY <1>2, <2>2, Due
  <2> QED BY <2>1, <2>2, Due
<1>4. Run(Tail(due))
  <2> SUFFICES ASSUME NEW i \in 2 .. Len(Tail(due))
               PROVE  Tail(due)[i] = 0 \/ Tail(due)[i] = Tail(due)[i - 1] + 1
    BY DEF Run
  <2>1. i \in 2 .. n /\ i - 1 \in 1 .. n /\ i + 1 \in 2 .. Len(due)
    BY Due
  <2>2. Tail(due)[i] = due[i + 1] /\ Tail(due)[i - 1] = due[i]
    BY <2>1, Due
  <2> QED BY <1>3, <2>1, <2>2 DEF Run
<1>5. pc = "retr" => Head(due) \in {0, next}
  <2>1. CASE n = 0
    BY <2>1, Due
  <2>2. CASE n > 0
    BY <2>2, Due DEF Inv, PendInv
  <2> QED BY <2>1, <2>2, Due
<1> QED BY <1>1, <1>3, <1>4, <1>5

(* What a step of the loop finds is the reply to its own request. *)
LEMMA OwnMail ==
  ASSUME Inv, pc = "retr", Head(due) # 0
  PROVE  Head(due) = next /\ next \in 1 .. Len(maildrop) /\ {maildrop[next]} \in SUBSET Mail
<1>1. next \in 1 .. Len(maildrop) /\ maildrop \in Seq(Mail)
  BY DEF Inv, PopInv, ConnInv, Looping, TypeInv
<1> QED BY <1>1, DueFollows

LEMMA TypeStep ==
  ASSUME Inv, [Next]_vars, ReaderAssumption
  PROVE  TypeInv'
<1> USE DEF Inv, TypeInv, Reading, Looping
<1>1. ASSUME LookUp PROVE TypeInv'
  BY <1>1 DEF LookUp
<1>2. ASSUME ImapConnects \/ ImapRefused \/ Pop3Refused PROVE TypeInv'
  BY <1>2 DEF ImapConnects, ImapRefused, Pop3Refused
<1>4. ASSUME Pop3Connects PROVE TypeInv'
  <2> PICK s \in Orders(Holds(Inbox)) : maildrop' = s
    BY <1>4 DEF Pop3Connects
  <2>1. maildrop' \in Seq(Mail)
    BY Maildrop
  <2>2. next = 0 /\ pending = <<>>
    BY <1>4 DEF Pop3Connects, RestInv, ConnInv, overPop3
  <2> QED BY <1>4, <2>1, <2>2, NoMails DEF Pop3Connects
<1>6. ASSUME Begin PROVE TypeInv'
  <2>2. filter' \in SUBSET Mail /\ reads' \in 0 .. MaxReads
    BY <1>6 DEF Begin, ReaderAssumption
  <2> QED BY NoMails, <1>6, <2>2 DEF Begin
<1>7. ASSUME Stat PROVE TypeInv'
  <2>1. pending' \in Seq(0 .. Len(maildrop)) /\ maildrop' = maildrop
    BY Due, <1>7 DEF Stat
  <2> QED BY <1>7, <2>1 DEF Stat, total_msg_count
<1>8. ASSUME Retr PROVE TypeInv'
  <2>1. Head(due) = next /\ next \in 1 .. Len(maildrop) /\ {maildrop[next]} \in SUBSET Mail
    BY <1>8, OwnMail DEF Retr
  <2>2. emails' \in [Mail -> Nat]
    BY <1>8, <2>1, Pushed DEF Retr
  <2>3. next' \in 0 .. Len(maildrop') /\ pc' \in {"retr", "idle"} /\ result' \in {result, "ok"}
    BY <1>8, <2>1 DEF Retr, total_msg_count
  <2> QED BY <1>8, <2>2, <2>3, Due DEF Retr
<1>9. ASSUME GetFolders PROVE TypeInv'
  BY <1>9 DEF GetFolders, CrawlOn
<1>10. ASSUME Select PROVE TypeInv'
  BY <1>10 DEF Select, Holds
<1>11. ASSUME Fetch PROVE TypeInv'
  <2> PICK mails \in Fetched : Push(mails)
    BY <1>11 DEF Fetch
  <2>2. emails' \in [Mail -> Nat]
    BY FetchedMails, Pushed
  <2> QED BY <1>11, <2>2 DEF Fetch, CrawlOn
<1>12. ASSUME RequestFails \/ DropRead PROVE TypeInv'
  <2>1. pending' \in Seq(0 .. Len(maildrop)) /\ maildrop' = maildrop /\ next' = 0
    BY Due, <1>12 DEF RequestFails, DropRead, ReadFails
  <2> QED BY NoMails, <1>12, <2>1 DEF RequestFails, DropRead, ReadFails
<1>13. ASSUME Change PROVE TypeInv'
  BY <1>13, Changed DEF Change
<1>14. ASSUME UNCHANGED vars PROVE TypeInv'
  BY <1>14 DEF vars
<1> QED
  BY <1>1, <1>2, <1>4, <1>6, <1>7, <1>8, <1>9, <1>10, <1>11, <1>12, <1>13, <1>14
  DEF Next, Connect, Read

LEMMA RestStep ==
  ASSUME Inv, [Next]_vars, ReaderAssumption
  PROVE  RestInv'
<1> USE DEF Inv, RestInv, overPop3
<1>0. changes \in Nat /\ moved \in [Mail -> Nat]
  BY DEF TypeInv, ReaderAssumption
<1>1. ASSUME LookUp PROVE RestInv'
  BY <1>1 DEF LookUp
<1>2. ASSUME ImapConnects \/ ImapRefused \/ Pop3Refused PROVE RestInv'
  BY <1>2 DEF ImapConnects, ImapRefused, Pop3Refused, ConnInv
<1>4. ASSUME Pop3Connects PROVE RestInv'
  BY <1>0, <1>4, NoMails DEF Pop3Connects, ConnInv
<1>6. ASSUME Begin PROVE RestInv'
  BY <1>0, NoMails, <1>6 DEF Begin
<1>7. ASSUME Stat PROVE RestInv'
  BY <1>7 DEF Stat, ConnInv, Looping
<1>8. ASSUME Retr PROVE RestInv'
  <2>1. Head(due) = next /\ next \in 1 .. Len(maildrop) /\ {maildrop[next]} \in SUBSET Mail
    BY <1>8, OwnMail DEF Retr
  <2>2. \A m \in Mail : emails'[m] > 0 => m \in filter
    BY <1>8, <2>1, Pushed DEF Retr
  <2> QED BY <1>8, <2>2 DEF Retr, ConnInv, Looping
<1>9. ASSUME GetFolders PROVE RestInv'
  BY <1>9 DEF GetFolders, CrawlOn
<1>10. ASSUME Select PROVE RestInv'
  BY <1>10 DEF Select
<1>11. ASSUME Fetch PROVE RestInv'
  <2> PICK mails \in Fetched : Push(mails)
    BY <1>11 DEF Fetch
  <2>2. \A m \in Mail : emails'[m] > 0 => m \in filter
    BY FetchedMails, Pushed
  <2> QED BY <1>11, <2>2 DEF Fetch, CrawlOn
<1>12. ASSUME RequestFails PROVE RestInv'
  <2>1. ~overPop3 => Tail(due) = <<>>
    BY Due
  <2> QED BY NoMails, <1>12, <2>1 DEF RequestFails, Awaits, ReadFails
<1>15. ASSUME DropRead PROVE RestInv'
  BY NoMails, <1>15 DEF DropRead, Awaits, ReadFails, ConnInv, overImap, Looping, Reading
<1>13. ASSUME Change PROVE RestInv'
  <2>1. \A m \in Mail : moved'[m] <= changes'
    BY <1>0, <1>13, Changed
  <2> QED BY <1>13, <2>1 DEF Change
<1>14. ASSUME UNCHANGED vars PROVE RestInv'
  BY <1>14 DEF vars
<1> QED
  BY <1>1, <1>2, <1>4, <1>6, <1>7, <1>8, <1>9, <1>10, <1>11, <1>12, <1>13, <1>14, <1>15
  DEF Next, Connect, Read
(* The readers of IMAP: no step takes a mail twice from one place. *)
LEMMA ImapStep ==
  ASSUME Inv, [Next]_vars, ReaderAssumption
  PROVE  ImapInv'
<1> USE DEF Inv, ImapInv, Scope
<1>0. /\ account \in [Mail -> Folder \cup {Nowhere}] /\ moved \in [Mail -> Nat]
      /\ emails \in [Mail -> Nat] /\ folders \in SUBSET Folder /\ Nowhere \notin Folder
      /\ pc \in {"lookup", "imap", "pop3", "failed", "idle", "stat", "retr"} \cup Reading
      /\ selected \in SUBSET Mail
  BY DEF TypeInv, ReaderAssumption, Looping
<1>1. ASSUME LookUp \/ ImapRefused \/ Pop3Refused PROVE ImapInv'
  BY <1>1 DEF LookUp, ImapRefused, Pop3Refused, overImap, ConnInv, Protocol
<1>2. ASSUME ImapConnects PROVE ImapInv'
  BY <1>0, <1>2 DEF ImapConnects, overImap, RestInv
<1>4. ASSUME Pop3Connects PROVE ImapInv'
  BY <1>4 DEF Pop3Connects, overImap, ConnInv, Protocol
<1>6. ASSUME Begin PROVE ImapInv'
  BY <1>0, NoMails, <1>6 DEF Begin, RestInv, overImap
<1>7. ASSUME Stat \/ Retr PROVE ImapInv'
  BY <1>7 DEF Stat, Retr, ConnInv, overImap, overPop3, Looping
<1>9. ASSUME GetFolders PROVE ImapInv'
  BY <1>0, <1>9 DEF GetFolders, CrawlOn, RestInv, is_ok_folder, overImap
<1>10. ASSUME Select PROVE ImapInv'
  BY <1>0, <1>10 DEF Select, Holds, overImap
<1>11. ASSUME Fetch PROVE ImapInv'
  <2> PICK mails \in Fetched : Push(mails)
    BY <1>11 DEF Fetch
  <2>1. /\ pc = "fetch" /\ folders' = folders \ {folder} /\ pc' \in {"select", "idle"}
        /\ UNCHANGED <<account, attributes, outcome, filter, moved>>
    BY <1>11 DEF Fetch, CrawlOn
  <2>2. \A m \in Mail :
          emails'[m] = IF m \in mails /\ m \in filter THEN emails[m] + 1 ELSE emails[m]
    BY FetchedMails, Pushed
  <2> SUFFICES ASSUME overImap PROVE ImapInv'
    BY <2>1 DEF overImap
  <2>3. folder \in folders /\ folder \in Scope
    BY <2>1
  <2>4. \A m \in mails : emails[m] <= moved[m] /\ (account[m] # folder => emails[m] < moved[m])
    <3>1. CASE selected = {}
      BY <1>0, <2>1, <2>3, <3>1, FetchedMails
    <3>2. CASE selected # {}
      BY <1>0, <2>1, <3>2, FetchedMails
    <3> QED BY <3>1, <3>2
  <2>5. \A m \in mails : moved[m] = 0 => account[m] = folder
    BY <1>0, <2>4, FetchedMails
  <2>6. \A m \in Mail : moved[m] = 0 /\ account[m] = folder => m \in selected /\ m \in mails
    BY <2>1, FetchedMails
  <2>7. \A m \in Mail :
          /\ emails'[m] <= moved[m] + 1
          /\ account[m] \in folders' => emails'[m] <= moved[m]
    BY <1>0, <2>1, <2>2, <2>4
  <2>8. \A m \in Mail : moved[m] = 0 /\ emails'[m] > 0 => account[m] \in Scope \ folders'
    BY <1>0, <2>1, <2>2, <2>3, <2>5
  <2>9. \A m \in Mail : moved[m] = 0 /\ m \in filter /\ account[m] \in Scope \ folders' => emails'[m] > 0
    BY <1>0, <2>1, <2>2, <2>3, <2>6
  <2>10. folders' \subseteq Scope /\ Scope' = Scope
    BY <2>1 DEF overImap
  <2> HIDE DEF Scope
  <2> QED BY <2>1, <2>7, <2>8, <2>9, <2>10
<1>12. ASSUME RequestFails \/ DropRead PROVE ImapInv'
  BY <1>0, NoMails, <1>12 DEF RequestFails, DropRead, Awaits, ReadFails, overImap
<1>13. ASSUME Change PROVE ImapInv'
  <2>1. UNCHANGED <<attributes, outcome, pc, filter, folders, folder, selected, emails, result>>
    BY <1>13 DEF Change
  <2>2. Scope' = Scope /\ overImap' = overImap
    BY <2>1 DEF overImap
  <2> HIDE DEF Scope
  <2>3. \A m \in Mail : \/ account'[m] = account[m] /\ moved'[m] = moved[m]
                        \/ moved'[m] = moved[m] + 1
    BY <1>13, Changed
  <2> QED BY <1>0, <2>1, <2>2, <2>3
<1>14. ASSUME UNCHANGED vars PROVE ImapInv'
  BY <1>14 DEF vars, overImap
<1> QED
  BY <1>1, <1>2, <1>4, <1>6, <1>7, <1>9, <1>10, <1>11, <1>12, <1>13, <1>14
  DEF Next, Connect, Read

(* The reader of POP3: each number of the maildrop is fetched once. *)
LEMMA PopStep ==
  ASSUME Inv, [Next]_vars, ReaderAssumption
  PROVE  PopInv'
<1> USE DEF Inv, PopInv
<1>0. /\ moved \in [Mail -> Nat] /\ emails \in [Mail -> Nat] /\ changes \in Nat
      /\ maildrop \in Seq(Mail) /\ next \in 0 .. Len(maildrop) /\ filter \in SUBSET Mail
      /\ Len(maildrop) \in Nat /\ \A j \in 1 .. Len(maildrop) : maildrop[j] \in Mail
  BY DEF TypeInv, ReaderAssumption
<1>1. ASSUME LookUp \/ ImapRefused \/ Pop3Refused PROVE PopInv'
  BY <1>1 DEF LookUp, ImapRefused, Pop3Refused, overPop3, overImap, ConnInv, Protocol
<1>2. ASSUME ImapConnects PROVE PopInv'
  BY <1>2 DEF ImapConnects, overPop3, ConnInv, Protocol
<1>4. ASSUME Pop3Connects PROVE PopInv'
  <2> PICK s \in Orders(Holds(Inbox)) : maildrop' = s
    BY <1>4 DEF Pop3Connects
  <2>1. /\ pc' = "idle" /\ result' # "ok" /\ account' = account /\ emails' = emails
        /\ \A m \in Mail : emails[m] = 0
    BY <1>4 DEF Pop3Connects, RestInv
  <2> QED BY <2>1, Maildrop
<1>6. ASSUME Begin PROVE PopInv'
  BY <1>0, NoMails, <1>6 DEF Begin, overPop3, overImap, ConnInv
<1>7. ASSUME Stat PROVE PopInv'
  <2>1. /\ UNCHANGED <<outcome, maildrop, account, moved, emails, filter>>
        /\ \A m \in Mail : emails[m] = 0
        /\ pc' = "retr" => next' = 1 /\ Len(maildrop) >= 1
        /\ result' = "ok" => Len(maildrop) < 1
    BY <1>0, <1>7 DEF Stat, total_msg_count, RestInv
  <2>2. pc' = "retr" => next' \in 1 .. Len(maildrop)
    BY <1>0, <2>1
  <2> QED BY <1>0, <2>1, <2>2 DEF overPop3
<1>8. ASSUME Retr PROVE PopInv'
  <2>1. overPop3 /\ next \in 1 .. Len(maildrop)
    BY <1>8, OwnMail DEF Retr, ConnInv, Looping
  <2>2. \A m \in Mail :
          emails'[m] = IF m = maildrop[next] /\ m \in filter THEN emails[m] + 1 ELSE emails[m]
    BY <1>0, <1>8, <2>1, OwnMail, Pushed DEF Retr
  <2>3. UNCHANGED <<maildrop, account, moved, filter, outcome>> /\ pc = "retr"
    BY <1>8 DEF Retr
  <2>4. /\ pc' = "retr" => next' = next + 1 /\ next < Len(maildrop)
        /\ result' = "ok" => next = Len(maildrop)
    BY <1>0, <1>8, <2>1 DEF Retr, total_msg_count, RestInv
  <2>5. \A m \in Mail :
          /\ emails'[m] <= 1
          /\ emails'[m] > 0 => \E j \in 1 .. Len(maildrop) : maildrop[j] = m
    <3>1. emails[maildrop[next]] = 0
      BY <1>0, <2>1, <2>3
    <3>2. \A m \in Mail :
            /\ emails[m] <= 1
            /\ emails[m] > 0 => \E j \in 1 .. Len(maildrop) : maildrop[j] = m
      BY <2>1
    <3> HIDE DEF PopInv
    <3> QED BY <1>0, <2>1, <2>2, <3>1, <3>2
  <2>6. \A j \in 1 .. Len(maildrop) :
          /\ j > next => emails'[maildrop[j]] = 0
          /\ j <= next /\ maildrop[j] \in filter => emails'[maildrop[j]] > 0
    BY <1>0, <2>1, <2>2, <2>3
  <2>7. pc' = "retr" => next' \in 1 .. Len(maildrop)
    BY <1>0, <2>1, <2>4
  <2>8. pc' = "retr" =>
          \A j \in 1 .. Len(maildrop) :
            /\ j >= next' => emails'[maildrop[j]] = 0
            /\ j < next' /\ maildrop[j] \in filter => emails'[maildrop[j]] > 0
    BY <1>0, <2>1, <2>4, <2>6
  <2>9. result' = "ok" =>
          \A j \in 1 .. Len(maildrop) : maildrop[j] \in filter => emails'[maildrop[j]] > 0
    BY <1>0, <2>1, <2>4, <2>6
  <2> QED BY <2>1, <2>3, <2>5, <2>7, <2>8, <2>9
<1>9. ASSUME GetFolders \/ Select \/ Fetch PROVE PopInv'
  BY <1>9 DEF GetFolders, Select, Fetch, ConnInv, overImap, overPop3, Reading
<1>12. ASSUME RequestFails \/ DropRead PROVE PopInv'
  <2>1. /\ UNCHANGED <<outcome, filter, maildrop, account, moved>>
        /\ pc' = "idle" /\ result' # "ok" /\ emails' = None
    BY <1>12 DEF RequestFails, DropRead, ReadFails
  <2> QED BY NoMails, <2>1 DEF overPop3
<1>13. ASSUME Change PROVE PopInv'
  <2>1. UNCHANGED <<outcome, pc, filter, maildrop, next, emails, result>>
    BY <1>13 DEF Change
  <2>2. \A m \in Mail : moved'[m] = 0 => account'[m] = account[m] /\ moved[m] = 0
    BY <1>0, <1>13, Changed
  <2> QED BY <2>1, <2>2 DEF overPop3
<1>14. ASSUME UNCHANGED vars PROVE PopInv'
  BY <1>14 DEF vars, overPop3
<1> QED
  BY <1>1, <1>2, <1>4, <1>6, <1>7, <1>8, <1>9, <1>12, <1>13, <1>14
  DEF Next, Connect, Read

(* What dropped reads leave behind stays in the order of their requests. *)
LEMMA PendStep ==
  ASSUME Inv, [Next]_vars, ReaderAssumption
  PROVE  PendInv'
<1> USE DEF Inv, PendInv
<1>0. /\ pending \in Seq(0 .. Len(maildrop)) /\ next \in 0 .. Len(maildrop)
      /\ Len(pending) \in Nat
  BY DEF TypeInv
<1>1. ASSUME Connect \/ Begin PROVE PendInv'
  BY <1>1 DEF Connect, LookUp, ImapConnects, ImapRefused, Pop3Connects, Pop3Refused, Begin, Run
<1>2. ASSUME Stat PROVE PendInv'
  <2>1. pending' = Tail(due) /\ Head(due) = 0 /\ (pc' = "retr" => next' = 1) /\ next = 0
    BY <1>2, DueFollows DEF Stat
  <2>2. Len(pending) > 0 => pending'[1] = due[2] /\ pending'[Len(pending)] = 0
    BY <1>0, <2>1, Due
  <2>3. Len(pending) > 0 => due[2] \in {0, 1}
    BY <1>0, <2>1, Due, DueFollows DEF Run
  <2> QED BY <1>0, <2>1, <2>2, <2>3, Due, DueFollows
<1>3. ASSUME Retr PROVE PendInv'
  <2>1. pending' = Tail(due) /\ Head(due) = next /\ (pc' = "retr" => next' = next + 1)
    BY <1>3, OwnMail DEF Retr
  <2>2. Len(pending) > 0 => pending'[1] = due[2] /\ pending'[Len(pending)] = next
    BY <1>0, <2>1, Due
  <2>3. Len(pending) > 0 => due[2] \in {0, next + 1}
    <3>1. due[1] = next /\ (Len(pending) > 0 => 2 \in 2 .. Len(due))
      BY <1>0, <2>1, Due
    <3>2. \A i \in 2 .. Len(due) : due[i] = 0 \/ due[i] = due[i - 1] + 1
      BY DueFollows DEF Run
    <3> QED BY <3>1, <3>2
  <2> QED BY <1>0, <2>1, <2>2, <2>3, Due, DueFollows
<1>4. ASSUME GetFolders \/ Select \/ Fetch PROVE PendInv'
  BY <1>4 DEF GetFolders, Select, Fetch, CrawlOn, Run
<1>5. ASSUME RequestFails \/ DropRead PROVE PendInv'
  <2>1. pc' # "retr" /\ pending' \in {Tail(due), due, pending}
    BY <1>5 DEF RequestFails, DropRead, ReadFails
  <2> QED BY <2>1, DueFollows
<1>6. ASSUME Change \/ UNCHANGED vars PROVE PendInv'
  BY <1>6 DEF Change, vars, Run
<1> QED BY <1>1, <1>2, <1>3, <1>4, <1>5, <1>6 DEF Next, Read

THEOREM InvHolds == Spec => []Inv
<1>1. Init => Inv
  BY InvInit, ReaderAssumption
<1>2. Inv /\ [Next]_vars => Inv'
  BY ConnStep, TypeStep, RestStep, ImapStep, PopStep, PendStep, ReaderAssumption DEF Inv
<1> QED BY <1>1, <1>2, PTL DEF Spec

----------------------------------------------------------------------------
(* A mail is in the result once more than it was moved at most. *)
LEMMA MailsBounded ==
  ASSUME Inv, ReaderAssumption
  PROVE  \A m \in Mail : emails[m] <= 1 + moved[m] /\ moved[m] <= MaxChanges
<1> USE DEF Inv
<1>0. /\ moved \in [Mail -> Nat] /\ emails \in [Mail -> Nat]
      /\ changes \in 0 .. MaxChanges /\ MaxChanges \in Nat
  BY DEF TypeInv, ReaderAssumption
<1>1. \A m \in Mail : moved[m] <= MaxChanges
  BY <1>0 DEF RestInv
<1>2. CASE overImap
  BY <1>0, <1>1, <1>2 DEF ImapInv
<1>3. CASE overPop3
  BY <1>0, <1>1, <1>3 DEF PopInv
<1>4. CASE ~overImap /\ ~overPop3
  <2>1. pc \in {"lookup", "imap", "pop3", "failed"}
    BY <1>4 DEF ConnInv, TypeInv
  <2> QED BY <1>0, <1>1, <2>1 DEF RestInv
<1> QED BY <1>2, <1>3, <1>4

(* The variables keep their types; no mail is in a result more often than  *)
(* the changes of the server allow.                                        *)
THEOREM ReaderTyped == Spec => []TypeOK
<1>1. Inv => TypeOK
  <2> SUFFICES ASSUME Inv PROVE TypeOK
    OBVIOUS
  <2>0. TypeInv /\ ConnInv /\ MaxChanges \in Nat
    BY ReaderAssumption DEF Inv, ReaderAssumption
  <2>1. \A m \in Mail : emails[m] \in 0 .. MaxChanges + 1 /\ moved[m] \in 0 .. MaxChanges
    BY <2>0, MailsBounded, ReaderAssumption DEF TypeInv
  <2>2. emails \in [Mail -> 0 .. MaxChanges + 1] /\ moved \in [Mail -> 0 .. MaxChanges]
    BY <2>0, <2>1 DEF TypeInv
  <2> QED BY <2>0, <2>2 DEF TypeOK, TypeInv, ConnInv, Looping, Reading
<1> QED BY <1>1, InvHolds, PTL

(* connect_any tries IMAP before POP3 and gives up on neither untried:     *)
(* whatever an endpoint answers and whichever endpoints a server has.      *)
THEOREM BestConnection == Spec => []ConnectIsBest
<1>1. Inv => ConnectIsBest
  BY DEF Inv, ConnInv
<1> QED BY <1>1, InvHolds, PTL

(* A read returns no mail that the filter refuses, none twice that stayed  *)
(* in its place, and none from a place that is not to be read: for every   *)
(* account, every filter and every order of the server's changes.          *)
THEOREM ResultIsExact == Spec => []ReadIsExact
<1>1. Inv => ReadIsExact
  <2> SUFFICES ASSUME Inv PROVE ReadIsExact
    OBVIOUS
  <2> USE DEF Inv
  <2>1. \A m \in Mail : emails[m] > 0 => m \in filter
    BY DEF RestInv
  <2>2. \A m \in Mail : moved[m] = 0 /\ emails[m] > 0 => account[m] \in Scope
    <3>1. CASE overImap
      BY <3>1 DEF ImapInv
    <3>2. CASE overPop3
      BY <3>2 DEF PopInv, Scope, ConnInv
    <3>3. CASE ~overImap /\ ~overPop3
      <4>1. pc \in {"lookup", "imap", "pop3", "failed"}
        BY <3>3 DEF ConnInv, TypeInv
      <4>2. emails \in [Mail -> Nat] /\ \A m \in Mail : emails[m] = 0
        BY <4>1 DEF RestInv, TypeInv
      <4> QED BY <4>2
    <3> QED BY <3>1, <3>2, <3>3
  <2> QED BY <2>1, <2>2, MailsBounded, ReaderAssumption DEF ReadIsExact
<1> QED BY <1>1, InvHolds, PTL

(* A read that returns Ok has every mail that the filter accepts and that  *)
(* stayed, during the read (POP3: the session), in a place that is read.   *)
THEOREM ResultIsComplete == Spec => []ReadIsComplete
<1>1. Inv => ReadIsComplete
  <2> SUFFICES ASSUME Inv, result = "ok" PROVE ReadIsComplete
    BY DEF ReadIsComplete
  <2> USE DEF Inv
  <2>1. pc = "idle" /\ folders = {} /\ filter \in SUBSET Mail
    BY DEF RestInv, TypeInv
  <2>2. CASE overImap
    BY <2>1, <2>2 DEF ImapInv, ReadIsComplete
  <2>3. CASE ~overImap
    <3>1. overPop3 /\ Scope = {Inbox}
      BY <2>1, <2>3 DEF ConnInv, Scope
    <3> QED BY <2>1, <3>1 DEF PopInv, ReadIsComplete
  <2> QED BY <2>2, <2>3
<1> QED BY <1>1, InvHolds, PTL
============================================================================

---------------------------- MODULE MailReader ----------------------------
(***************************************************************************)
(* src/lib.rs, imap_protocol.rs, pop3_protocol.rs, filters.rs: from the    *)
(* address of a mailbox to the mails that match a filter.  connect_any     *)
(* picks a protocol; a read then goes through the folders (IMAP) or the    *)
(* numbers of a maildrop (POP3) one by one, while the server delivers,     *)
(* moves and removes mails.                                                *)
(*                                                                         *)
(* Below the readers are the two clients as their callers see them: a      *)
(* request is answered or fails.  What a client is worth after a failure   *)
(* is PopClient's matter; here the next read may always succeed.  A read   *)
(* may be dropped, in a timeout for instance, and the reader be used       *)
(* again: IMAP tells answers apart by their tags, POP3 by their order.     *)
(***************************************************************************)
EXTENDS Integers, FiniteSets, Sequences

CONSTANTS
  Mail,        \* records: what the filters look at, and whether there is a body
  Folder,      \* the folders of an account
  Inbox,       \* the one that POP3 shows
  Listings,    \* the attributes the folders may have
  Filters,     \* sets of mails, as the operators below build them
  MaxReads,    \* bound on the number of reads
  MaxChanges   \* bound on what the server does meanwhile

Absent    == "absent"      \* a header a mail does not have
Nowhere   == "nowhere"     \* where a mail is before it arrives and after it was removed
Attribute == {"Sent", "Drafts", "NoSelect"}
Protocol  == {"imap", "pop3"}
Entry     == {"Pop3", "Imap", "Full"}

ASSUME ReaderAssumption ==
  /\ IsFiniteSet(Mail)
  /\ Inbox \in Folder /\ Nowhere \notin Folder
  /\ Listings \subseteq [Folder -> SUBSET Attribute]
  /\ Filters \subseteq SUBSET Mail
  /\ MaxReads \in Nat /\ MaxChanges \in Nat

VARIABLES
  account,     \* where each mail is
  attributes,  \* the attributes of the folders
  entry,       \* what the server map has for the domain of the mailbox
  outcome,     \* what came of connecting by each protocol
  pc,          \* what the program awaits
  filter,      \* the filter of the read
  maildrop,    \* the messages of the POP3 session, in the order of their numbers
  next,        \* curr_msg_id, 0 outside of the loop
  pending,     \* the replies owed to POP3 reads that were dropped, in their
               \* order: 0 is one to STAT, n one to RETR n
  folders,     \* the folders still to be crawled
  folder,      \* the one that is selected
  selected,    \* the mails it had when it was selected
  emails,      \* how often each mail is in the result
  result,      \* what the last read returned
  reads,       \* number of reads
  changes,     \* number of changes by the server
  moved        \* history: how often each mail changed its place during the
               \* read, or during the session of POP3

account_  == <<account, changes>>
mailbox   == <<attributes, entry>>
pop3_read == <<maildrop, next, pending>>
imap_read == <<folders, folder, selected>>
vars == <<account_, mailbox, outcome, pc, filter, pop3_read, imap_read, emails, result, reads, moved>>

None == [m \in Mail |-> 0]

----------------------------------------------------------------------------
(* Filters: the mails that a filter lets through.  A mail without the      *)
(* header a filter looks at is not let through, except by Regex.           *)

Everything           == Mail
And(first, second)   == first \cap second
Or(first, second)    == first \cup second
Subject(s)           == {m \in Mail : m.subject # Absent /\ m.subject = s}
SubjectContains(s)   == {m \in Mail : m.subject # Absent /\ s \in m.contains}
Sender(s)            == {m \in Mail : m.sender # Absent /\ m.sender = s}
Since(date)          == {m \in Mail : m.date # 0 /\ m.date > date}

(* The texts of the language of a regular expression; a mail without a     *)
(* text is taken for one with the empty text.                              *)
Regex(language) == {m \in Mail : (IF m.html = Absent THEN "" ELSE m.html) \in language}

----------------------------------------------------------------------------
(* connect_any                                                             *)

get_imap == entry \in {"Imap", "Full"}
get_pop3 == entry \in {"Pop3", "Full"}

Init ==
  /\ account \in [Mail -> {Inbox, Nowhere}]
  /\ attributes \in Listings
  /\ entry \in Entry \cup {"no_domain", "not_found"}
  /\ outcome = [p \in Protocol |-> "untried"]
  /\ pc = "lookup" /\ filter = {} /\ maildrop = <<>> /\ next = 0 /\ pending = <<>>
  /\ folders = {} /\ folder = Nowhere /\ selected = {}
  /\ emails = None /\ result = "none" /\ reads = 0 /\ changes = 0
  /\ moved = None

LookUp ==
  /\ pc = "lookup"
  /\ pc' = IF get_imap THEN "imap" ELSE IF get_pop3 THEN "pop3" ELSE "failed"
  /\ UNCHANGED <<account_, mailbox, outcome, filter, pop3_read, imap_read, emails, result, reads, moved>>

ImapConnects ==
  /\ pc = "imap"
  /\ outcome' = [outcome EXCEPT !["imap"] = "connected"]
  /\ pc' = "idle"
  /\ UNCHANGED <<account_, mailbox, filter, pop3_read, imap_read, emails, result, reads, moved>>

(* mutant: the ? operator on the first connect                             *)
ImapRefusedEnds ==
  /\ pc = "imap"
  /\ outcome' = [outcome EXCEPT !["imap"] = "refused"]
  /\ pc' = "failed"
  /\ UNCHANGED <<account_, mailbox, filter, pop3_read, imap_read, emails, result, reads, moved>>

(* The error is kept, and returned when there is nothing else to try.      *)
ImapRefused ==
  /\ pc = "imap"
  /\ outcome' = [outcome EXCEPT !["imap"] = "refused"]
  /\ pc' = IF get_pop3 THEN "pop3" ELSE "failed"
  /\ UNCHANGED <<account_, mailbox, filter, pop3_read, imap_read, emails, result, reads, moved>>

Orders(S) ==
  {s \in [1..Cardinality(S) -> S] :
     /\ \A i, j \in 1..Cardinality(S) : s[i] = s[j] => i = j
     /\ \A m \in S : \E i \in 1..Cardinality(S) : s[i] = m}
Holds(f)  == {m \in Mail : account[m] = f}

(* The maildrop of a POP3 session is what the inbox holds at the login.    *)
Pop3Connects ==
  /\ pc = "pop3"
  /\ outcome' = [outcome EXCEPT !["pop3"] = "connected"]
  /\ pc' = "idle"
  /\ maildrop' \in Orders(Holds(Inbox))
  /\ moved' = None
  /\ UNCHANGED <<account_, mailbox, filter, next, pending, imap_read, emails, result, reads>>

Pop3Refused ==
  /\ pc = "pop3"
  /\ outcome' = [outcome EXCEPT !["pop3"] = "refused"]
  /\ pc' = "failed"
  /\ UNCHANGED <<account_, mailbox, filter, pop3_read, imap_read, emails, result, reads, moved>>

----------------------------------------------------------------------------
(* dyn_get_filtered_emails                                                 *)

overImap == outcome["imap"] = "connected"

Begin ==
  /\ pc = "idle" /\ reads < MaxReads
  /\ filter' \in Filters
  /\ emails' = None
  /\ pc' = IF overImap THEN "list" ELSE "stat"
  /\ moved' = IF overImap THEN None ELSE moved
  /\ reads' = reads + 1
  /\ result' = "none"
  /\ UNCHANGED <<account_, mailbox, outcome, pop3_read, imap_read>>

(* The filter is asked about each mail that was fetched.                   *)
Matching(mails) == mails \cap filter
Push(mails)     == emails' = [m \in Mail |-> IF m \in Matching(mails) THEN emails[m] + 1 ELSE emails[m]]

Parses(m) == m.body

(* A read that ends early: what was read is lost. *)
ReadFails(how) ==
  /\ pc' = "idle" /\ result' = how /\ emails' = None
  /\ next' = 0 /\ folders' = {} /\ folder' = Nowhere /\ selected' = {}
  /\ UNCHANGED <<account_, mailbox, outcome, filter, maildrop, reads, moved>>

----------------------------------------------------------------------------
(* POP3                                                                    *)

(* The replies on their way to a read that awaits one: those that dropped  *)
(* reads did not take are in front of its own.                             *)
due == Append(pending, next)

(* mutant: 1..total instead of 1..=total                                   *)
but_the_last == Len(maildrop) - 1

total_msg_count == Len(maildrop)

Stat ==
  /\ pc = "stat"
  /\ Head(due) = 0
  /\ pending' = Tail(due)
  /\ IF total_msg_count < 1
     THEN pc' = "idle" /\ result' = "ok" /\ UNCHANGED next
     ELSE pc' = "retr" /\ next' = 1 /\ UNCHANGED result
  /\ UNCHANGED <<account_, mailbox, outcome, filter, maildrop, imap_read, emails, reads, moved>>

(* mutant: one number too many                                             *)
RetrBeyond ==
  /\ pc = "retr"
  /\ Head(due) # 0
  /\ Parses(maildrop[Head(due)])
  /\ Push({maildrop[Head(due)]})
  /\ pending' = Tail(due)
  /\ IF next <= total_msg_count
     THEN next' = next + 1 /\ UNCHANGED <<pc, result>>
     ELSE next' = 0 /\ pc' = "idle" /\ result' = "ok"
  /\ UNCHANGED <<account_, mailbox, outcome, filter, maildrop, imap_read, reads, moved>>

Retr ==
  /\ pc = "retr"
  /\ Head(due) # 0
  /\ Parses(maildrop[Head(due)])
  /\ Push({maildrop[Head(due)]})
  /\ pending' = Tail(due)
  /\ IF next < total_msg_count
     THEN next' = next + 1 /\ UNCHANGED <<pc, result>>
     ELSE next' = 0 /\ pc' = "idle" /\ result' = "ok"
  /\ UNCHANGED <<account_, mailbox, outcome, filter, maildrop, imap_read, reads, moved>>

----------------------------------------------------------------------------
(* IMAP                                                                    *)

(* mutant: sent mails are read too                                         *)
is_no_draft(f) == "Drafts" \notin attributes[f]

is_ok_folder(f) == attributes[f] \cap {"Sent", "Drafts"} = {}

(* for folder in folders, and what the call returns behind it              *)
CrawlOn ==
  IF folders' = {} THEN pc' = "idle" /\ result' = "ok"
                   ELSE pc' = "select" /\ UNCHANGED result

GetFolders ==
  /\ pc = "list"
  /\ folders' = {f \in Folder : is_ok_folder(f)}
  /\ CrawlOn
  /\ UNCHANGED <<account_, mailbox, outcome, filter, pop3_read, folder, selected, emails, reads, moved>>

Select ==
  /\ pc = "select"
  /\ folder' \in {f \in folders : "NoSelect" \notin attributes[f]}
  /\ selected' = Holds(folder')
  /\ pc' = "fetch"
  /\ UNCHANGED <<account_, mailbox, outcome, filter, pop3_read, folders, emails, result, reads, moved>>

(* FETCH 1:n of the n messages that were there at the SELECT.  The server  *)
(* may leave out those that are gone.  For n = 0 the range 1:0 names the   *)
(* first message too, when one has arrived.                                *)
Fetched ==
  IF selected = {} THEN {{}} \cup {{m} : m \in Holds(folder)}
  ELSE {selected \ gone : gone \in SUBSET (selected \ Holds(folder))}

(* mutant: an empty folder is crawled again                                *)
FetchUntilAny ==
  /\ pc = "fetch"
  /\ \E mails \in Fetched : (\A m \in mails : Parses(m)) /\ Push(mails)
  /\ folders' = IF selected = {} THEN folders ELSE folders \ {folder}
  /\ folder' = Nowhere /\ selected' = {}
  /\ CrawlOn
  /\ UNCHANGED <<account_, mailbox, outcome, filter, pop3_read, reads, moved>>

Fetch ==
  /\ pc = "fetch"
  /\ \E mails \in Fetched : (\A m \in mails : Parses(m)) /\ Push(mails)
  /\ folders' = folders \ {folder}
  /\ folder' = Nowhere /\ selected' = {}
  /\ CrawlOn
  /\ UNCHANGED <<account_, mailbox, outcome, filter, pop3_read, reads, moved>>

Awaits(steps) == pc \in steps

(* The ? operator: a request that fails, a reply of another kind than the  *)
(* request has, a folder that cannot be selected, a mail that cannot be    *)
(* parsed.                                                                 *)
RequestFails ==
  /\ Awaits({"stat", "retr", "list", "select", "fetch"})
  /\ ReadFails("error")
  /\ pending' = Tail(due)

(* The caller drops the future of the read. *)
DropRead ==
  /\ Awaits({"stat", "retr", "list", "select", "fetch"})
  /\ ReadFails("none")
  /\ pending' = IF overImap THEN pending ELSE due

----------------------------------------------------------------------------
(* The server: mails arrive, are moved and removed.                        *)

Change ==
  /\ changes < MaxChanges
  /\ \E m \in Mail, f \in Folder \cup {Nowhere} :
       /\ f # account[m]
       /\ f # Nowhere => "NoSelect" \notin attributes[f]
       /\ account' = [account EXCEPT ![m] = f]
       /\ moved' = [moved EXCEPT ![m] = @ + 1]
  /\ changes' = changes + 1
  /\ UNCHANGED <<mailbox, outcome, pc, filter, pop3_read, imap_read, emails, result, reads>>

Connect == LookUp \/ ImapConnects \/ ImapRefused \/ Pop3Connects \/ Pop3Refused
Read    == Stat \/ Retr \/ GetFolders \/ Select \/ Fetch \/ RequestFails
Next    == Connect \/ Begin \/ Read \/ DropRead \/ Change

Spec == Init /\ [][Next]_vars

(* A request is answered or fails; the server need not change anything.    *)
FairSpec == Spec /\ WF_vars(Connect) /\ WF_vars(Read)

----------------------------------------------------------------------------
TypeOK ==
  /\ account \in [Mail -> Folder \cup {Nowhere}] /\ attributes \in Listings
  /\ entry \in Entry \cup {"no_domain", "not_found"}
  /\ outcome \in [Protocol -> {"untried", "connected", "refused"}]
  /\ pc \in {"lookup", "imap", "pop3", "failed", "idle", "stat", "retr", "list", "select", "fetch"}
  /\ filter \subseteq Mail
  /\ maildrop \in Seq(Mail) /\ next \in 0..Len(maildrop)
  /\ pending \in Seq(0..Len(maildrop))
  /\ folders \subseteq Folder /\ folder \in Folder \cup {Nowhere} /\ selected \subseteq Mail
  /\ emails \in [Mail -> 0..MaxChanges + 1]
  /\ result \in {"none", "ok", "error"}
  /\ reads \in 0..MaxReads /\ changes \in 0..MaxChanges
  /\ moved \in [Mail -> 0..MaxChanges]

(* The places a read covers.                                               *)
Scope == IF overImap THEN {f \in Folder : attributes[f] \cap {"Sent", "Drafts"} = {}} ELSE {Inbox}

(* A read that returns Ok has every mail that matches and that stayed in   *)
(* its place: nothing is left out at the ends of the numbering, between    *)
(* the folders, because other mails came and went meanwhile, or because    *)
(* the replies to an earlier read that was dropped were taken for its own. *)
ReadIsComplete ==
  result = "ok" =>
    \A m \in filter : moved[m] = 0 /\ account[m] \in Scope => emails[m] > 0

(* It has nothing that does not match, a mail at most once more than it    *)
(* was moved meanwhile, and one that stayed in its place only if that      *)
(* place is to be read.                                                    *)
ReadIsExact ==
  \A m \in Mail :
    /\ emails[m] > 0 => m \in filter
    /\ emails[m] <= 1 + moved[m]
    /\ moved[m] = 0 /\ emails[m] > 0 => account[m] \in Scope

(* connect_any gives up only when every endpoint of the entry has been     *)
(* tried, and settles for POP3 only when IMAP is not to be had: the error  *)
(* of the first does not end the attempt.                                  *)
ConnectIsBest ==
  /\ pc = "failed" /\ get_imap => outcome["imap"] = "refused"
  /\ pc = "failed" /\ get_pop3 => outcome["pop3"] = "refused"
  /\ outcome["pop3"] # "untried" /\ get_imap => outcome["imap"] = "refused"

(* Connecting and reading end, whatever the server does to the account     *)
(* meanwhile: no folder is crawled twice.                                  *)
ReadEnds == pc \notin {"idle", "failed"} ~> pc \in {"idle", "failed"}
============================================================================

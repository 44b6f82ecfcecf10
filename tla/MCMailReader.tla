--------------------------- MODULE MCMailReader ---------------------------
(***************************************************************************)
(* An account of three mails and three folders for TLC.                    *)
(***************************************************************************)
EXTENDS MailReader

(* A mail, one without most of the headers and with an attachment only,    *)
(* and one that is empty.                                                  *)
Code  == [subject |-> "code", contains |-> {"code"}, sender |-> "shop", date |-> 2,
          html |-> "<p>1234", body |-> TRUE]
Bare  == [subject |-> Absent, contains |-> {}, sender |-> "shop", date |-> 0,
          html |-> Absent, body |-> TRUE]
Empty == [subject |-> Absent, contains |-> {}, sender |-> Absent, date |-> 0,
          html |-> Absent, body |-> FALSE]

MCMail   == {Code, Bare, Empty}
MCFolder == {"INBOX", "Spam", "Sent"}

(* As most servers list them, and with a name that is no mailbox.          *)
MCListings ==
  {[INBOX |-> {}, Spam |-> {}, Sent |-> {"Sent"}],
   [INBOX |-> {}, Spam |-> {"NoSelect"}, Sent |-> {"Sent"}]}

(* A search for a code, and one whose expression matches the empty text.   *)
MCFilters ==
  {Everything,
   And(And(Sender("shop"), Since(1)), Or(SubjectContains("code"), Subject("bare"))),
   Regex({"", "<p>hello"})}
============================================================================

---------------------------- MODULE MCPopStream ----------------------------
(***************************************************************************)
(* Instances of PopStream for TLC: the replies of the server.              *)
(***************************************************************************)
EXTENDS PopStream

Ok      == <<"+OK", "CR", "LF">>
Error   == <<"-ERR", "other", "CR", "LF">>
OneId   == <<"+OK", "scan", "CR", "LF">>
Capable == <<"+OK", "CR", "LF", "word", "CR", "LF", ".", "CR", "LF">>
Mail    == <<"+OK", "CR", "LF", "other", "CR", "LF", ".", "CR", "LF">>

(* A capability list with a line the grammar rejects ("SASL PLAIN LOGIN"). *)
BadCapable == <<"+OK", "CR", "LF", "other", "CR", "LF", ".", "CR", "LF">>

(* A capability that begins like a longer one (LANG, LOGIN-DELAY): cut     *)
(* behind its first byte, tag asks for more bytes than the reply has left. *)
Alike == <<"+OK", "CR", "LF", "tag", "CR", "LF", ".", "CR", "LF">>

(* A mail of more than 12 bytes. *)
BigMail == <<"+OK", "CR", "LF", "other", "CR", "LF", "other", "CR", "LF",
             "other", "CR", "LF", ".", "CR", "LF">>

ManyReplies ==
  [STRING |-> {Ok, Error}, CAPA |-> {Capable, Alike, BadCapable}, RETR |-> {Mail, BigMail},
   UIDL |-> {OneId}]

(* A drop listing is one line, a scan listing two: STAT and LIST complete  *)
(* the commands that can be confused with one another.                     *)
CancelReplies ==
  [STRING |-> {Ok}, CAPA |-> {Capable, Alike, Error}, RETR |-> {Mail, BigMail}, STAT |-> {OneId}]

StaleReplies == [STRING |-> {Ok}, CAPA |-> {Capable}]
============================================================================

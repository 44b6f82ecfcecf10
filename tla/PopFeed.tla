------------------------------ MODULE PopFeed ------------------------------
(***************************************************************************)
(* The parser is called again whenever bytes arrived, with all the bytes   *)
(* so far.  Here they arrive one by one, for one command, as any lines a   *)
(* server may send: an optional status, at most one text, CR, LF; a text   *)
(* may begin with bytes of a keyword.                                      *)
(***************************************************************************)
EXTENDS PopParser

CONSTANTS
  Text,     \* the texts a line may hold
  MaxLen    \* bound on the number of bytes

ASSUME FeedAssumption ==
  /\ Text \subseteq {"scan", "long", "stats", "word", "tag", "other", "."}
  /\ MaxLen \in Nat

VARIABLES cmd, seen

vars == <<cmd, seen>>

Status == {"+OK", "-ERR", "+"}

Last == At(seen, Len(seen))

LineStart == Last \in {"end", "LF"}

(* What may follow the bytes seen. *)
Following ==
  CASE Last = "CR"        -> {"LF"}
    [] LineStart          -> Status \cup Text \cup {"CR"}
    [] Last \in Status    -> Text \cup {"CR"}
    [] Last = "tag"       -> (Text \cap {"tag", "word", "long"}) \cup {"CR"}
    [] OTHER              -> {"CR"}

Init == cmd \in Command /\ seen = <<>>

Receive ==
  /\ Len(seen) < MaxLen
  /\ \E t \in Following : seen' = Append(seen, t)
  /\ UNCHANGED cmd

Next == Receive

Spec == Init /\ [][Next]_vars

----------------------------------------------------------------------------
reply == parse(seen, cmd)

(* A reply that was found, or a rejection, does not depend on what comes   *)
(* behind it: however the network cuts the bytes, and however many bytes   *)
(* of the next reply are already there, decode gets the same result.       *)
ReplyIsStable == [][reply.tag # "incomplete" => parse(seen', cmd') = reply]_vars

(* A reply takes whole lines of what was received: what is left behind it  *)
(* starts with a line of the next reply.                                   *)
ReplyEndsLine ==
  reply.tag = "done" => reply.used \in 2 .. Len(seen) /\ EndsLine(seen, reply.used - 1)

(* A listing (LIST, UIDL, CAPA) ends with its first line that is a single  *)
(* dot, whatever its lines are.  A message ends with the first such line   *)
(* that has a line between it and the first line of the reply: take_until  *)
(* looks for a CRLF in front of the dot, and the one of the first line has *)
(* been taken already, so that a dot directly behind it is passed over.    *)
FirstLineEnd == CHOOSE i \in DOMAIN seen : seen[i] = "LF" /\ \A k \in 1 .. i - 1 : seen[k] # "LF"
DotLine(i)   == i >= 6 /\ seen[i - 3] = "LF" /\ IsEnd(seen, i - 2)
ListingEndsWithDot ==
  /\ reply.resp \in {"List", "Uidl", "Capability"} =>
       DotLine(reply.used) /\ \A i \in 1 .. reply.used - 1 : ~DotLine(i)
  /\ reply.resp = "Bytes" =>
       /\ DotLine(reply.used) /\ reply.used # FirstLineEnd + 3
       /\ \A i \in 1 .. reply.used - 1 : DotLine(i) => i = FirstLineEnd + 3
============================================================================

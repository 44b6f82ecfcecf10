----------------------------- MODULE PopParser -----------------------------
(***************************************************************************)
(* The framing decisions of async-pop2's response parser                   *)
(* (src/response/parser): given the bytes received so far and the command  *)
(* they should answer, has a whole reply arrived, where does it end, how   *)
(* many more bytes does the parser ask for, or is the input rejected?      *)
(*                                                                         *)
(* A byte string is a sequence of Tokens.  CR, LF, the lone dot and the    *)
(* bytes at the beginning of a keyword, on which the parser's decisions    *)
(* hinge one by one, are one byte each; a status word or any other run of  *)
(* text is one token.  A line is an optional status, at most one text, CR, *)
(* LF.  (A cut inside of a status word is left out: tag asks for the bytes *)
(* the word lacks, and the parser is asked again when it is there.)        *)
(*                                                                         *)
(* The numbers asked for with Incomplete are those of nom 7's streaming    *)
(* combinators (nom is not part of the repository).                        *)
(***************************************************************************)
EXTENDS Integers, Sequences

CONSTANT TagLength   \* the bytes of the keyword that a "tag" is the beginning of

ASSUME TagAssumption == TagLength \in Nat \ {0}

(***************************************************************************)
(* A token means what the command at hand takes it for:                    *)
(* "+"     a SASL continuation ("+" and a space)                           *)
(* "scan"  a line of a listing: two numbers, "1 120"; for UIDL a number    *)
(*         and one word, so that "2 messages" is one too                   *)
(* "long"  one with free text behind it, up to the end of the line: "1 120 *)
(*         octets", the capability "IMPLEMENTATION x"                      *)
(* "stats" "2 messages (320 octets)", the first line of a scan listing     *)
(* "word"  (the rest of) a capability the grammar takes, "UIDL"; base64    *)
(* "tag"   a byte with which a line of capabilities is still the beginning *)
(*         of a keyword, as the L of LANG (LOGIN-DELAY); not base64        *)
(* "other" any other text: "SASL PLAIN LOGIN"                              *)
(* "NUL"   a zero byte of a zeroed buffer                                  *)
(***************************************************************************)
Token == {"+OK", "-ERR", "+", "scan", "long", "stats", "word", "tag", "other", ".",
          "CR", "LF", "NUL"}

(* "STRING" stands for every command answered by one line of text: NOOP,   *)
(* DELE, RSET, APOP, USER, PASS, QUIT and the greeting; RETR for RETR and  *)
(* TOP; AUTH for AUTH and the base64 lines of a SASL exchange.             *)
Command == {"STAT", "UIDL", "LIST", "RETR", "CAPA", "AUTH", "STRING"}

(* "UniqueId" is the reply to UIDL that is a single line.                  *)
Response == {"Stat", "List", "Bytes", "UniqueId", "Uidl", "Capability", "Message",
             "Challenge", "Err"}

----------------------------------------------------------------------------
(* IResult: a reply and the bytes it took, a need for more bytes (0 is     *)
(* Needed::Unknown), or a rejection.                                       *)
Done(resp, used) == [tag |-> "done", resp |-> resp, used |-> used, need |-> 0]
Incomplete(n)    == [tag |-> "incomplete", resp |-> "none", used |-> 0, need |-> n]
Reject           == [tag |-> "reject", resp |-> "none", used |-> 0, need |-> 0]

(* The token at position i, "end" behind the last one. *)
At(b, i) == IF i \in DOMAIN b THEN b[i] ELSE "end"

IsText(t) == t \notin {"CR", "LF", "end"}

EndsLine(b, i) == At(b, i) = "CR" /\ At(b, i + 1) = "LF"

----------------------------------------------------------------------------
(* The text from i on goes up to the line's end at e. *)
TextEnds(b, i, e) == e >= i /\ EndsLine(b, e) /\ \A k \in i .. e - 1 : IsText(At(b, k))

(* message_parser: optional text, then the end of the line.                *)
(* mutant: combinators for complete input, for which the end of the input  *)
(* ends a line                                                             *)
MessageParserComplete(b, i, resp) ==
  IF \E e \in DOMAIN b : TextEnds(b, i, e)
  THEN Done(resp, (CHOOSE e \in DOMAIN b : TextEnds(b, i, e)) + 1)
  ELSE IF \A k \in i .. Len(b) : IsText(b[k]) THEN Done(resp, Len(b))
  ELSE Incomplete(0)

MessageParser(b, i, resp) ==
  IF \E e \in DOMAIN b : TextEnds(b, i, e)
  THEN Done(resp, (CHOOSE e \in DOMAIN b : TextEnds(b, i, e)) + 1)
  ELSE Incomplete(0)

(* The lines that stat and uidl take. *)
Single(resp) == IF resp = "UniqueId" THEN {"scan"} ELSE {"scan", "long"}

(* mutant: the line is taken without its LF *)
ScanLineShort(b, i, resp) ==
  IF At(b, i) \notin Single(resp) THEN Reject
  ELSE IF EndsLine(b, i + 1) THEN Done(resp, i + 1)
  ELSE Incomplete(0)

(* What is missing is unknown in free text, and behind a trailing CR to    *)
(* stat's opt(not_line_ending); uidl's eol asks for two bytes there.       *)
ScanLine(b, i, resp) ==
  IF At(b, i) \notin Single(resp) THEN Reject
  ELSE IF EndsLine(b, i + 1) THEN Done(resp, i + 2)
  ELSE IF At(b, i) = "long" THEN Incomplete(0)
  ELSE IF At(b, i + 1) = "end" THEN Incomplete(1)
  ELSE Incomplete(IF resp = "UniqueId" THEN 2 ELSE 0)

----------------------------------------------------------------------------
(* many_till(item, end_of_multiline): lines up to the line with the dot.   *)
(* Any name of upper case letters, digits and dashes is a capability, so   *)
(* that a line -ERR is one.                                                *)
Item(cmd) ==
  CASE cmd = "CAPA" -> {"tag", "word", "long", "-ERR"}
    [] cmd = "LIST" -> {"scan", "long"}
    [] OTHER        -> {"scan"}

LineStarts(b, i) == {j \in i .. Len(b) + 1 : j = i \/ At(b, j - 1) = "LF"}

(* From j up to e there is an item: a tag may have more text behind it. *)
ItemText(b, j, e, cmd) ==
  /\ e > j
  /\ \A k \in j .. e - 1 : At(b, k) \in Item(cmd)
  /\ \A k \in j .. e - 2 : At(b, k) = "tag"

IsItem(b, j, cmd) == \E e \in DOMAIN b : EndsLine(b, e) /\ ItemText(b, j, e, cmd)
IsEnd(b, j)       == At(b, j) = "." /\ EndsLine(b, j + 1)

(* Where the text of the last line ends, for now. *)
Cut(b) == IF At(b, Len(b)) = "CR" THEN Len(b) ELSE Len(b) + 1

(* A line cut short by the end of the input that may still become either. *)
IsCut(b, j, cmd) ==
  \/ At(b, j) = "end"
  \/ At(b, j) = "." /\ Cut(b) = j + 1
  \/ ItemText(b, j, Cut(b), cmd)

(* tag asks for the rest of its keyword behind the n bytes that are there. *)
KeywordRest(n) == IF n \in 1 .. TagLength - 1 THEN TagLength - n ELSE 1

(* line_ending on a lone CR asks for the two bytes of CR LF, not for the   *)
(* one that is missing.                                                    *)
CutNeed(b, j, cmd) ==
  LET last == At(b, Cut(b) - 1)
  IN  CASE last = "long"                    -> 0
        [] last = "tag" /\ Cut(b) > Len(b)  -> KeywordRest(Cut(b) - j)
        [] Cut(b) > Len(b)                  -> 1
        [] cmd = "LIST" /\ last = "scan"    -> 0
        [] OTHER                            -> 2

(* The loop over the items stops at the first line that is none. *)
StopsAtLine(b, i, j, cmd) ==
  /\ j \in LineStarts(b, i)
  /\ ~IsItem(b, j, cmd)
  /\ \A k \in LineStarts(b, i) : k < j => IsItem(b, k, cmd)

ManyTill(b, i, cmd, resp) ==
  IF \E j \in DOMAIN b : StopsAtLine(b, i, j, cmd) /\ IsEnd(b, j)
  THEN Done(resp, (CHOOSE j \in DOMAIN b : StopsAtLine(b, i, j, cmd)) + 2)
  ELSE IF \E j \in DOMAIN b : StopsAtLine(b, i, j, cmd) /\ ~IsCut(b, j, cmd)
  THEN Reject
  ELSE Incomplete(CutNeed(b, CHOOSE j \in 1 .. Len(b) + 1 : StopsAtLine(b, i, j, cmd), cmd))

(* mutant: a dot at the end of any line *)
DotAnywhere(b, i, j) ==
  /\ j >= i
  /\ At(b, j + 2) = "."
  /\ EndsLine(b, j + 3)

(* take_until("\r\n.\r\n"), behind the first line. *)
Terminator(b, i, j) ==
  /\ j >= i
  /\ EndsLine(b, j)
  /\ At(b, j + 2) = "."
  /\ EndsLine(b, j + 3)

TakeUntil(b, i) ==
  LET First(j) == Terminator(b, i, j) /\ \A k \in DOMAIN b : k < j => ~Terminator(b, i, k)
  IN  IF \E j \in DOMAIN b : First(j)
      THEN Done("Bytes", (CHOOSE j \in DOMAIN b : First(j)) + 4)
      ELSE Incomplete(0)

----------------------------------------------------------------------------
(* The replies; each is parsed from behind the status, at position 2.      *)

(* A first line, then a multi-line part that starts at position i. *)
BehindFirstLine(b, Rest(_)) ==
  LET line == MessageParser(b, 2, "none")
  IN  IF line.tag = "done" THEN Rest(line.used + 1) ELSE line

StatResponse(b)       == ScanLine(b, 2, "Stat")
Rfc822Response(b)     == BehindFirstLine(b, LAMBDA i : TakeUntil(b, i))
CapabilityResponse(b) == BehindFirstLine(b, LAMBDA i : ManyTill(b, i, "CAPA", "Capability"))

(* alt(single line, listing): the listing is tried when the first line is  *)
(* no item.  Its first line is list_stats or any text; list_stats, too,    *)
(* asks for two bytes behind a trailing CR.                                *)
ListResponse(b) ==
  IF At(b, 2) \in Single("Stat") THEN ScanLine(b, 2, "Stat")
  ELSE IF At(b, 2) = "stats" /\ ~EndsLine(b, 3)
  THEN Incomplete(IF At(b, 3) = "end" THEN 1 ELSE 2)
  ELSE BehindFirstLine(b, LAMBDA i : ManyTill(b, i, "LIST", "List"))

UidlResponse(b) ==
  IF At(b, 2) \in Single("UniqueId") THEN ScanLine(b, 2, "UniqueId")
  ELSE BehindFirstLine(b, LAMBDA i : ManyTill(b, i, "UIDL", "Uidl"))

(* base64::decode of a continuation of used tokens: nothing, or one word. *)
IsBase64(b, used) == used = 3 \/ (used = 4 /\ At(b, 2) = "word")

(* rfc1734::auth and the base64 decoding of the challenge: when either     *)
(* fails the status is tried, which rejects a "+" too.                     *)
Challenge(b) ==
  LET line == MessageParser(b, 2, "Challenge")
  IN  IF At(b, 2) = "end" THEN Incomplete(1)
      ELSE IF line.tag = "done" /\ ~IsBase64(b, line.used) THEN Reject
      ELSE line

(* parse, behind a positive status *)
Success(b, cmd) ==
  CASE cmd = "STAT" -> StatResponse(b)
    [] cmd = "UIDL" -> UidlResponse(b)
    [] cmd = "LIST" -> ListResponse(b)
    [] cmd = "RETR" -> Rfc822Response(b)
    [] cmd = "CAPA" -> CapabilityResponse(b)
    [] OTHER        -> MessageParser(b, 2, "Message")

parse(b, cmd) ==
  IF b = <<>> THEN Incomplete(0)
  ELSE IF b[1] = "+" /\ cmd = "AUTH" THEN Challenge(b)
  ELSE IF b[1] \notin {"+OK", "-ERR"} THEN Reject
  ELSE IF Len(b) = 1 THEN Incomplete(1)
  ELSE IF b[1] = "+OK" THEN Success(b, cmd)
  ELSE MessageParser(b, 2, "Err")
============================================================================

--------------------------- MODULE PopFeedProofs ---------------------------
(***************************************************************************)
(* The parser's result is stable and its replies take whole lines, for     *)
(* inputs and texts without a bound.                                       *)
(***************************************************************************)
EXTENDS PopFeed, PopParserProofs

FeedType == cmd \in Command /\ seen \in Seq(Token)

(* What was received so far are bytes of the model.                        *)
THEOREM FeedTyped == Spec => []FeedType
  <1>1. Init => FeedType
    BY DEF Init, FeedType
  <1>2. FeedType /\ [Next]_vars => FeedType'
    <2> SUFFICES ASSUME FeedType, [Next]_vars PROVE FeedType'
      OBVIOUS
    <2>1. CASE Next
      <3>1. PICK t \in Following : seen' = Append(seen, t) /\ cmd' = cmd
        BY <2>1 DEF Next, Receive
      <3>2. t \in Token
        BY FeedAssumption DEF Following, Status, Token
      <3> QED
        BY <3>1, <3>2 DEF FeedType
    <2>2. CASE UNCHANGED vars
      BY <2>2 DEF vars, FeedType
    <2> QED
      BY <2>1, <2>2
  <1> QED
    BY <1>1, <1>2, PTL DEF Spec

(* What decode finds does not depend on how the network cuts the bytes:    *)
(* as soon as the parser accepts or rejects, it does so for good.          *)
THEOREM FeedStable == Spec => ReplyIsStable
  <1>1. FeedType /\ [Next]_vars => [reply.tag # "incomplete" => parse(seen', cmd') = reply]_vars
    <2> SUFFICES ASSUME FeedType, Next, reply.tag # "incomplete"
                 PROVE  parse(seen', cmd') = reply
      BY DEF vars
    <2>1. PICK t \in Following : seen' = Append(seen, t) /\ cmd' = cmd
      BY DEF Next, Receive
    <2>2. t \in Token
      BY FeedAssumption DEF Following, Status, Token
    <2> QED
      BY <2>1, <2>2, ParseAppend DEF FeedType, reply
  <1> QED
    BY <1>1, FeedTyped, PTL DEF Spec, ReplyIsStable

----------------------------------------------------------------------------
(* A reply ends with the end of a line. *)
Whole(b, used) == used \in 2 .. Len(b) /\ EndsLine(b, used - 1)

LEMMA WholeLine ==
  ASSUME NEW b \in Seq(Token), NEW i \in Nat \ {0}, EndsLine(b, i)
  PROVE  Whole(b, i + 1)
  <1>1. At(b, i + 1) # "end" /\ i + 1 - 1 = i
    BY DEF EndsLine
  <1>2. i + 1 \in 1 .. Len(b)
    BY <1>1 DEF At
  <1> QED BY <1>1, <1>2 DEF Whole

LEMMA WholeMessage ==
  ASSUME NEW b \in Seq(Token), NEW i \in Nat \ {0}, NEW resp,
         MessageParser(b, i, resp).tag = "done"
  PROVE  Whole(b, MessageParser(b, i, resp).used) /\ MessageParser(b, i, resp).used \in Nat \ {0}
  <1>1. PICK e \in DOMAIN b : TextEnds(b, i, e)
    BY LineFound
  <1>2. e \in Nat \ {0} /\ EndsLine(b, e)
    BY <1>1 DEF TextEnds
  <1>3. MessageParser(b, i, resp).used = e + 1
    BY <1>1, LineFound, ResultType
  <1> QED BY <1>2, <1>3, WholeLine

LEMMA WholeScanLine ==
  ASSUME NEW b \in Seq(Token), NEW resp, ScanLine(b, 2, resp).tag = "done"
  PROVE  Whole(b, ScanLine(b, 2, resp).used)
  <1>1. EndsLine(b, 3) /\ ScanLine(b, 2, resp).used = 4
    BY ResultType DEF ScanLine, Done, Incomplete, Reject
  <1> QED BY <1>1, WholeLine

LEMMA WholeListing ==
  ASSUME NEW b \in Seq(Token), NEW i \in Nat \ {0}, NEW c, NEW resp,
         ManyTill(b, i, c, resp).tag = "done"
  PROVE  Whole(b, ManyTill(b, i, c, resp).used)
  <1>1. PICK j \in DOMAIN b : StopsAtLine(b, i, j, c) /\ IsEnd(b, j)
    BY ResultType DEF ManyTill
  <1>2. ManyTill(b, i, c, resp).used = (CHOOSE k \in DOMAIN b : StopsAtLine(b, i, k, c)) + 2
    BY <1>1, ResultType DEF ManyTill
  <1>3. j \in Nat \ {0} /\ DOMAIN b = 1 .. Len(b)
    OBVIOUS
  <1>4. (CHOOSE k \in DOMAIN b : StopsAtLine(b, i, k, c)) = j
    <2>1. \A k \in DOMAIN b : StopsAtLine(b, i, k, c) => k = j
      BY <1>1, <1>3, StopIsUnique
    <2> QED BY <1>1, <2>1
  <1>5. EndsLine(b, j + 1)
    BY <1>1 DEF IsEnd
  <1>6. Whole(b, (j + 1) + 1)
    BY <1>3, <1>5, WholeLine
  <1> QED BY <1>2, <1>3, <1>4, <1>6, (j + 1) + 1 = j + 2

LEMMA WholeBody ==
  ASSUME NEW b \in Seq(Token), NEW i \in Nat \ {0}, TakeUntil(b, i).tag = "done"
  PROVE  Whole(b, TakeUntil(b, i).used)
  <1> DEFINE First(j) == Terminator(b, i, j) /\ \A k \in DOMAIN b : k < j => ~Terminator(b, i, k)
  <1>1. \E j \in DOMAIN b : First(j)
    BY ResultType DEF TakeUntil
  <1>2. TakeUntil(b, i).used = (CHOOSE j \in DOMAIN b : First(j)) + 4
    BY <1>1, ResultType DEF TakeUntil
  <1> DEFINE j == CHOOSE k \in DOMAIN b : First(k)
  <1>3. j \in DOMAIN b /\ First(j)
    BY <1>1
  <1> HIDE DEF j
  <1>4. EndsLine(b, j + 3) /\ j + 3 \in Nat \ {0}
    BY <1>3 DEF Terminator
  <1>5. Whole(b, (j + 3) + 1)
    BY <1>4, WholeLine
  <1>6. (j + 3) + 1 = j + 4
    BY <1>3
  <1>7. TakeUntil(b, i).used = j + 4
    BY <1>2 DEF j
  <1> QED BY <1>5, <1>6, <1>7

LEMMA WholeSuccess ==
  ASSUME NEW b \in Seq(Token), NEW c \in Command, Success(b, c).tag = "done"
  PROVE  Whole(b, Success(b, c).used)
  <1> USE DEF Success
  <1> DEFINE first == MessageParser(b, 2, "none")
  <1>0. first.tag = "done" => first.used + 1 \in Nat \ {0}
    <2> SUFFICES ASSUME first.tag = "done" PROVE first.used + 1 \in Nat \ {0}
      OBVIOUS
    <2>1. first.used \in Nat \ {0}
      BY WholeMessage, 2 \in Nat \ {0}
    <2> HIDE DEF first
    <2> QED BY <2>1
  <1>1. first.tag \in {"done", "incomplete"}
    BY LineNotRejected
  <1> HIDE DEF first
  <1>2. CASE c = "STAT"
    BY <1>2, WholeScanLine DEF StatResponse
  <1>3. CASE c = "UIDL"
    BY <1>0, <1>1, <1>3, WholeScanLine, WholeListing DEF UidlResponse, BehindFirstLine, first
  <1>4. CASE c = "LIST"
    BY <1>0, <1>1, <1>4, ResultType, WholeScanLine, WholeListing DEF ListResponse, BehindFirstLine, first
  <1>5. CASE c = "RETR"
    BY <1>0, <1>1, <1>5, WholeBody DEF Rfc822Response, BehindFirstLine, first
  <1>6. CASE c = "CAPA"
    BY <1>0, <1>1, <1>6, WholeListing DEF CapabilityResponse, BehindFirstLine, first
  <1>7. CASE c \in {"AUTH", "STRING"}
    BY <1>7, WholeMessage, 2 \in Nat \ {0}
  <1> QED BY <1>2, <1>3, <1>4, <1>5, <1>6, <1>7 DEF Command

LEMMA WholeReply ==
  ASSUME NEW b \in Seq(Token), NEW c \in Command, parse(b, c).tag = "done"
  PROVE  Whole(b, parse(b, c).used)
  <1>1. CASE b # <<>> /\ b[1] = "+" /\ c = "AUTH"
    BY <1>1, WholeMessage, ResultType DEF parse, Challenge
  <1>2. CASE ~(b # <<>> /\ b[1] = "+" /\ c = "AUTH")
    <2>1. parse(b, c) \in {Success(b, c), MessageParser(b, 2, "Err")}
      BY <1>2, ResultType DEF parse
    <2> QED BY <2>1, WholeSuccess, WholeMessage
  <1> QED BY <1>1, <1>2

(* A reply takes whole lines: what decode keeps for the next one starts    *)
(* with a line, however much has arrived.                                  *)
THEOREM FeedWhole == Spec => []ReplyEndsLine
  <1>1. FeedType => ReplyEndsLine
    BY WholeReply DEF FeedType, ReplyEndsLine, reply, Whole
  <1> QED
    BY <1>1, FeedTyped, PTL

----------------------------------------------------------------------------
(* An LF is only ever sent behind a CR. *)
LinesEndWithCRLF == \A i \in 1 .. Len(seen) : seen[i] = "LF" => i - 1 \in 1 .. Len(seen) /\ seen[i - 1] = "CR"

LEMMA FeedLines == Spec => []LinesEndWithCRLF
  <1>1. Init => LinesEndWithCRLF
    BY DEF Init, LinesEndWithCRLF
  <1>2. FeedType /\ LinesEndWithCRLF /\ [Next]_vars => LinesEndWithCRLF'
    <2> SUFFICES ASSUME FeedType, LinesEndWithCRLF, [Next]_vars PROVE LinesEndWithCRLF'
      OBVIOUS
    <2>1. CASE Next
      <3>1. PICK t \in Following : seen' = Append(seen, t)
        BY <2>1 DEF Next, Receive
      <3>2. seen \in Seq(Token) /\ Len(seen) \in Nat
        BY DEF FeedType
      <3>3. t = "LF" => Last = "CR"
        BY FeedAssumption DEF Following, Status
      <3>4. Last = "CR" => Len(seen) \in 1 .. Len(seen) /\ seen[Len(seen)] = "CR"
        BY <3>2 DEF Last, At
      <3> DEFINE n == Len(seen)
      <3>5. Len(seen') = n + 1 /\ seen'[n + 1] = t /\ \A i \in 1 .. n : seen'[i] = seen[i]
        BY <3>1, <3>2
      <3>6. ASSUME NEW i \in 1 .. n + 1, seen'[i] = "LF"
            PROVE  i - 1 \in 1 .. n + 1 /\ seen'[i - 1] = "CR"
        <4>1. CASE i = n + 1
          <5>1. t = "LF" /\ i - 1 = n /\ n \in 1 .. n /\ n \in 1 .. n + 1
            BY <3>2, <3>3, <3>4, <3>5, <3>6, <4>1
          <5> QED BY <3>3, <3>4, <3>5, <5>1
        <4>2. CASE i \in 1 .. n
          <5>1. seen[i] = "LF"
            BY <3>5, <3>6, <4>2
          <5>2. i - 1 \in 1 .. n /\ seen[i - 1] = "CR"
            BY <4>2, <5>1 DEF LinesEndWithCRLF
          <5>3. i - 1 \in 1 .. n + 1
            BY <3>2, <5>2
          <5> QED BY <3>5, <5>2, <5>3
        <4> QED BY <3>2, <4>1, <4>2
      <3> QED BY <3>5, <3>6 DEF LinesEndWithCRLF
    <2>2. CASE UNCHANGED vars
      BY <2>2 DEF vars, LinesEndWithCRLF
    <2> QED BY <2>1, <2>2
  <1> QED BY <1>1, <1>2, FeedTyped, PTL DEF Spec

(* DotLine and FirstLineEnd, of any input. *)
DotAt(b, i) == i >= 6 /\ b[i - 3] = "LF" /\ IsEnd(b, i - 2)

IsFirstEnd(b, f) == b[f] = "LF" /\ \A k \in 1 .. f - 1 : b[k] # "LF"

(* The first line of a reply ends with the first LF. *)
LEMMA FirstLine ==
  ASSUME NEW b \in Seq(Token), At(b, 1) # "LF", MessageParser(b, 2, "none").tag = "done"
  PROVE  /\ MessageParser(b, 2, "none").used \in 3 .. Len(b)
         /\ IsFirstEnd(b, MessageParser(b, 2, "none").used)
  <1>1. PICK e \in DOMAIN b : TextEnds(b, 2, e)
    BY LineFound, 2 \in Nat \ {0}
  <1>2. /\ DOMAIN b = 1 .. Len(b) /\ Len(b) \in Nat /\ e \in Nat /\ e >= 2
        /\ At(b, e) = "CR" /\ At(b, e + 1) = "LF" /\ \A k \in 2 .. e - 1 : IsText(At(b, k))
    BY <1>1 DEF TextEnds, EndsLine
  <1>3. MessageParser(b, 2, "none").used = e + 1
    BY <1>1, LineFound, ResultType, 2 \in Nat \ {0}
  <1>4. e + 1 \in 3 .. Len(b) /\ b[e + 1] = "LF"
    BY <1>2 DEF At
  <1>5. ASSUME NEW k \in 1 .. (e + 1) - 1 PROVE b[k] # "LF"
    <2>1. At(b, k) # "LF"
      <3>1. k = 1 \/ k = e \/ k \in 2 .. e - 1
        BY <1>2
      <3> QED BY <1>2, <3>1 DEF IsText
    <2> QED BY <1>2, <2>1 DEF At
  <1> QED BY <1>3, <1>4, <1>5 DEF IsFirstEnd

(* There is one such place. *)
LEMMA FirstEndUnique ==
  ASSUME NEW b \in Seq(Token), NEW f \in DOMAIN b, IsFirstEnd(b, f)
  PROVE  (CHOOSE i \in DOMAIN b : b[i] = "LF" /\ \A k \in 1 .. i - 1 : b[k] # "LF") = f
  <1>1. DOMAIN b = 1 .. Len(b)
    OBVIOUS
  <1>2. ASSUME NEW i \in DOMAIN b, b[i] = "LF", \A k \in 1 .. i - 1 : b[k] # "LF"
        PROVE  i = f
    <2>1. ~(i < f)
      BY <1>1, <1>2 DEF IsFirstEnd
    <2>2. ~(f < i)
      BY <1>1, <1>2 DEF IsFirstEnd
    <2> QED BY <1>1, <2>1, <2>2
  <1> QED BY <1>2 DEF IsFirstEnd

(* A line with a dot, as the parsers see it. *)
LEMMA DotBytes ==
  ASSUME NEW b \in Seq(Token), NEW i \in Int, DotAt(b, i)
  PROVE  /\ i - 3 \in 1 .. Len(b) /\ i - 2 \in 1 .. Len(b) /\ i - 2 >= 4
         /\ b[i - 3] = "LF" /\ b[i - 2] = "." /\ EndsLine(b, i - 1) /\ IsEnd(b, i - 2)
  <1>1. i - 2 \in Int /\ (i - 2) + 1 = i - 1 /\ i >= 6
    BY DEF DotAt
  <1>2. At(b, i - 2) = "." /\ EndsLine(b, i - 1)
    BY <1>1 DEF DotAt, IsEnd
  <1>3. i - 2 \in DOMAIN b /\ b[i - 2] = "."
    BY <1>2 DEF At
  <1>4. DOMAIN b = 1 .. Len(b) /\ Len(b) \in Nat
    OBVIOUS
  <1>5. i - 3 \in 1 .. Len(b)
    BY <1>1, <1>3, <1>4
  <1> QED BY <1>1, <1>2, <1>3, <1>4, <1>5 DEF DotAt

(* many_till stops at the first line with a dot. *)
LEMMA ListingDot ==
  ASSUME NEW b \in Seq(Token), NEW f \in 3 .. Len(b), IsFirstEnd(b, f),
         NEW c, NEW resp, ManyTill(b, f + 1, c, resp).tag = "done"
  PROVE  LET used == ManyTill(b, f + 1, c, resp).used
         IN  DotAt(b, used) /\ \A i \in 1 .. used - 1 : ~DotAt(b, i)
  <1>1. PICK j \in DOMAIN b : StopsAtLine(b, f + 1, j, c) /\ IsEnd(b, j)
    BY ResultType DEF ManyTill
  <1>2. f + 1 \in Nat \ {0} /\ j \in Nat \ {0} /\ DOMAIN b = 1 .. Len(b) /\ Len(b) \in Nat
    OBVIOUS
  <1>3. ManyTill(b, f + 1, c, resp).used = j + 2
    <2>1. ManyTill(b, f + 1, c, resp).used = (CHOOSE k \in DOMAIN b : StopsAtLine(b, f + 1, k, c)) + 2
      BY <1>1, ResultType DEF ManyTill
    <2>2. \A k \in DOMAIN b : StopsAtLine(b, f + 1, k, c) => k = j
      BY <1>1, <1>2, StopIsUnique
    <2>3. (CHOOSE k \in DOMAIN b : StopsAtLine(b, f + 1, k, c)) = j
      BY <1>1, <2>2
    <2> QED BY <2>1, <2>3
  <1>4. j \in LineStarts(b, f + 1) /\ \A k \in LineStarts(b, f + 1) : k < j => IsItem(b, k, c)
    BY <1>1 DEF StopsAtLine
  <1>5. DotAt(b, j + 2)
    <2>1. j \in (f + 1) .. Len(b) + 1 /\ (j = f + 1 \/ At(b, j - 1) = "LF")
      BY <1>4 DEF LineStarts
    <2>2. b[j - 1] = "LF"
      <3>1. CASE j = f + 1
        BY <3>1, (f + 1) - 1 = f DEF IsFirstEnd
      <3>2. CASE At(b, j - 1) = "LF"
        BY <3>2 DEF At
      <3> QED BY <2>1, <3>1, <3>2
    <2>3. j + 2 >= 6 /\ j + 2 - 3 = j - 1 /\ j + 2 - 2 = j
      BY <1>2, <2>1
    <2> QED BY <1>1, <2>2, <2>3 DEF DotAt
  <1>6. ASSUME NEW i \in 1 .. (j + 2) - 1, DotAt(b, i)
        PROVE  FALSE
    <2> DEFINE k == i - 2
    <2>1. /\ i - 3 \in 1 .. Len(b) /\ k \in 1 .. Len(b) /\ k >= 4 /\ i - 3 = k - 1
          /\ b[i - 3] = "LF" /\ b[k] = "." /\ At(b, k) = "."
      BY <1>2, <1>6, DotBytes DEF IsEnd
    <2>2. k < j /\ k \in Nat
      BY <1>2, <2>1
    <2> HIDE DEF k
    <2>3. k # f /\ ~(k - 1 \in 1 .. f - 1)
      BY <1>2, <2>1 DEF IsFirstEnd
    <2>4. k \in (f + 1) .. Len(b) + 1
      BY <1>2, <2>1, <2>3
    <2>5. At(b, k - 1) = "LF"
      BY <1>2, <2>1 DEF At
    <2>6. k \in LineStarts(b, f + 1)
      BY <2>4, <2>5 DEF LineStarts
    <2>7. At(b, k) # "."
      <3>1. PICK e \in DOMAIN b : ItemText(b, k, e, c)
        BY <1>4, <2>2, <2>6 DEF IsItem
      <3> QED BY <1>2, <2>2, <3>1, ItemStarts
    <2> QED BY <2>1, <2>7
  <1> QED BY <1>3, <1>5, <1>6

(* take_until stops at the first line with a dot, but for a dot directly   *)
(* behind the first line of the reply.                                     *)
LEMMA BodyDot ==
  ASSUME NEW b \in Seq(Token), NEW f \in 3 .. Len(b), IsFirstEnd(b, f),
         TakeUntil(b, f + 1).tag = "done",
         \A i \in 1 .. Len(b) : b[i] = "LF" => i - 1 \in 1 .. Len(b) /\ b[i - 1] = "CR"
  PROVE  LET used == TakeUntil(b, f + 1).used
         IN  /\ DotAt(b, used) /\ used # f + 3
             /\ \A i \in 1 .. used - 1 : DotAt(b, i) => i = f + 3
  <1> DEFINE First(j) == Terminator(b, f + 1, j) /\ \A k \in DOMAIN b : k < j => ~Terminator(b, f + 1, k)
  <1>1. \E j \in DOMAIN b : First(j)
    BY ResultType DEF TakeUntil
  <1> DEFINE j == CHOOSE k \in DOMAIN b : First(k)
  <1>2. TakeUntil(b, f + 1).used = j + 4
    BY <1>1, ResultType DEF TakeUntil
  <1>3. j \in DOMAIN b /\ First(j)
    BY <1>1
  <1> HIDE DEF j
  <1>4. /\ DOMAIN b = 1 .. Len(b) /\ Len(b) \in Nat /\ j \in Nat /\ j >= f + 1
        /\ At(b, j + 1) = "LF" /\ At(b, j + 2) = "." /\ EndsLine(b, j + 3)
    BY <1>3 DEF Terminator, EndsLine
  <1>5. DotAt(b, j + 4)
    <2>1. b[j + 1] = "LF"
      BY <1>4 DEF At
    <2> DEFINE m == j + 4
    <2>2. m >= 6 /\ m - 3 = j + 1 /\ m - 2 = j + 2 /\ j + 2 + 1 = j + 3
      BY <1>4
    <2> HIDE DEF m
    <2>3. IsEnd(b, j + 2)
      BY <1>4, <2>2 DEF IsEnd
    <2>4. DotAt(b, m)
      BY <2>1, <2>2, <2>3 DEF DotAt
    <2> QED BY <2>4 DEF m
  <1>6. ASSUME NEW i \in 1 .. (j + 4) - 1, DotAt(b, i)
        PROVE  i = f + 3
    <2> DEFINE k == i - 4
    <2>1. /\ k + 1 \in 1 .. Len(b) /\ k + 2 \in 1 .. Len(b) /\ k + 2 >= 4 /\ k \in Int
          /\ b[k + 1] = "LF" /\ b[k + 2] = "." /\ EndsLine(b, k + 3)
      <3>1. /\ i - 3 \in 1 .. Len(b) /\ i - 2 \in 1 .. Len(b) /\ i - 2 >= 4
            /\ b[i - 3] = "LF" /\ b[i - 2] = "." /\ EndsLine(b, i - 1)
        BY <1>4, <1>6, DotBytes
      <3>2. k + 1 = i - 3 /\ k + 2 = i - 2 /\ k + 3 = i - 1 /\ k \in Int
        BY <1>4
      <3> HIDE DEF k
      <3> QED BY <3>1, <3>2
    <2>2. k < j /\ i = k + 4
      BY <1>4
    <2> HIDE DEF k
    <2>3. k \in 1 .. Len(b) /\ b[k] = "CR"
      <3>1. (k + 1) - 1 = k
        BY <2>1
      <3> QED BY <2>1, <3>1
    <2>4. EndsLine(b, k) /\ At(b, k + 2) = "."
      BY <1>4, <2>1, <2>3 DEF EndsLine, At
    <2>5. ~(k >= f + 1)
      BY <1>3, <1>4, <2>1, <2>2, <2>3, <2>4 DEF Terminator
    <2>6. ~(k + 1 \in 1 .. f - 1) /\ k # f
      BY <1>4, <2>1, <2>3 DEF IsFirstEnd
    <2>7. k + 1 = f
      BY <2>1, <2>5, <2>6
    <2> QED BY <2>1, <2>2, <2>7
  <1>7. j + 4 # f + 3
    BY <1>4
  <1> QED BY <1>2, <1>5, <1>6, <1>7

(* Which replies are multi-line, and where their lines start. *)
LEMMA MultiLine ==
  ASSUME NEW b \in Seq(Token), NEW c \in Command,
         parse(b, c).resp \in {"List", "Uidl", "Capability", "Bytes"}
  PROVE  LET first == MessageParser(b, 2, "none")
         IN  /\ first.tag = "done" /\ At(b, 1) # "LF" /\ parse(b, c).tag = "done"
             /\ IF parse(b, c).resp = "Bytes"
                THEN parse(b, c) = TakeUntil(b, first.used + 1)
                ELSE \E d \in Command, resp \in Response :
                       parse(b, c) = ManyTill(b, first.used + 1, d, resp)
  <1> DEFINE first == MessageParser(b, 2, "none")
  <1>1. ASSUME NEW i \in Nat \ {0}, NEW resp \in {"Message", "Challenge", "Err", "none"}
        PROVE  MessageParser(b, i, resp).resp \notin {"List", "Uidl", "Capability", "Bytes"}
    BY DEF MessageParser, Done, Incomplete
  <1>2. ASSUME NEW resp \in {"Stat", "UniqueId"}
        PROVE  ScanLine(b, 2, resp).resp \notin {"List", "Uidl", "Capability", "Bytes"}
    BY DEF ScanLine, Done, Incomplete, Reject
  <1>3. (\A n : Incomplete(n).resp = "none") /\ Reject.resp = "none"
    BY DEF Incomplete, Reject
  <1>4. parse(b, c) = Success(b, c) /\ At(b, 1) # "LF"
    <2>1. 2 \in Nat \ {0}
      OBVIOUS
    <2>2. Challenge(b).resp \notin {"List", "Uidl", "Capability", "Bytes"}
      BY <1>1, <1>3, <2>1 DEF Challenge
    <2>3. parse(b, c) = Success(b, c) /\ b[1] = "+OK"
      BY <1>1, <1>3, <2>1, <2>2 DEF parse
    <2> QED BY <2>3 DEF At
  <1>5. ASSUME NEW i, TakeUntil(b, i).resp \in {"List", "Uidl", "Capability", "Bytes"}
        PROVE  TakeUntil(b, i).tag = "done" /\ TakeUntil(b, i).resp = "Bytes"
    BY <1>5 DEF TakeUntil, Done, Incomplete
  <1>6. ASSUME NEW i, NEW d, NEW resp \in {"List", "Uidl", "Capability"},
               ManyTill(b, i, d, resp).resp \in {"List", "Uidl", "Capability", "Bytes"}
        PROVE  ManyTill(b, i, d, resp).tag = "done" /\ ManyTill(b, i, d, resp).resp # "Bytes"
    BY <1>6 DEF ManyTill, Done, Incomplete, Reject
  <1>7. first.resp \notin {"List", "Uidl", "Capability", "Bytes"}
    BY <1>1, 2 \in Nat \ {0}
  <1> HIDE DEF first
  <1>8. CASE c = "STAT"
    BY <1>2, <1>4, <1>8 DEF Success, StatResponse
  <1>9. CASE c = "UIDL"
    <2>1. first.tag = "done" /\ parse(b, c) = ManyTill(b, first.used + 1, "UIDL", "Uidl")
      BY <1>2, <1>4, <1>7, <1>9 DEF Success, UidlResponse, BehindFirstLine, first
    <2> QED BY <1>4, <1>6, <2>1 DEF Command, Response, first
  <1>10. CASE c = "LIST"
    <2>1. first.tag = "done" /\ parse(b, c) = ManyTill(b, first.used + 1, "LIST", "List")
      BY <1>2, <1>3, <1>4, <1>7, <1>10 DEF Success, ListResponse, BehindFirstLine, first
    <2> QED BY <1>4, <1>6, <2>1 DEF Command, Response, first
  <1>11. CASE c = "RETR"
    <2>1. first.tag = "done" /\ parse(b, c) = TakeUntil(b, first.used + 1)
      BY <1>4, <1>7, <1>11 DEF Success, Rfc822Response, BehindFirstLine, first
    <2> QED BY <1>4, <1>5, <2>1 DEF first
  <1>12. CASE c = "CAPA"
    <2>1. first.tag = "done" /\ parse(b, c) = ManyTill(b, first.used + 1, "CAPA", "Capability")
      BY <1>4, <1>7, <1>12 DEF Success, CapabilityResponse, BehindFirstLine, first
    <2> QED BY <1>4, <1>6, <2>1 DEF Command, Response, first
  <1>13. CASE c \in {"AUTH", "STRING"}
    BY <1>1, <1>4, <1>13, 2 \in Nat \ {0} DEF Success
  <1> QED BY <1>8, <1>9, <1>10, <1>11, <1>12, <1>13 DEF Command

(* A listing (LIST, UIDL, CAPA) ends with the first line that is a single *)
(* dot; a message with the first one not directly behind its first line.   *)
THEOREM FeedListing == Spec => []ListingEndsWithDot
  <1>1. FeedType /\ LinesEndWithCRLF => ListingEndsWithDot
    <2> SUFFICES ASSUME FeedType, LinesEndWithCRLF, reply.resp \in {"List", "Uidl", "Capability", "Bytes"}
                 PROVE  /\ DotAt(seen, reply.used)
                        /\ reply.resp # "Bytes" => \A i \in 1 .. reply.used - 1 : ~DotAt(seen, i)
                        /\ reply.resp = "Bytes" =>
                             /\ reply.used # FirstLineEnd + 3
                             /\ \A i \in 1 .. reply.used - 1 : DotAt(seen, i) => i = FirstLineEnd + 3
      BY DEF ListingEndsWithDot, DotLine, DotAt
    <2> DEFINE first == MessageParser(seen, 2, "none")
               f == first.used
    <2>1. seen \in Seq(Token) /\ cmd \in Command /\ reply = parse(seen, cmd)
      BY DEF FeedType, reply
    <2>2. /\ first.tag = "done" /\ At(seen, 1) # "LF" /\ reply.tag = "done"
          /\ IF reply.resp = "Bytes"
             THEN reply = TakeUntil(seen, f + 1)
             ELSE \E d \in Command, resp \in Response : reply = ManyTill(seen, f + 1, d, resp)
      BY <2>1, MultiLine
    <2>3. f \in 3 .. Len(seen) /\ IsFirstEnd(seen, f)
      BY <2>1, <2>2, FirstLine
    <2>4. FirstLineEnd = f
      BY <2>1, <2>3, FirstEndUnique DEF FirstLineEnd
    <2> HIDE DEF f
    <2>5. CASE reply.resp = "Bytes"
      BY <2>1, <2>2, <2>3, <2>4, <2>5, BodyDot DEF LinesEndWithCRLF
    <2>6. CASE reply.resp # "Bytes"
      BY <2>1, <2>2, <2>3, <2>6, ListingDot
    <2> QED BY <2>5, <2>6
  <1> QED BY <1>1, FeedTyped, FeedLines, PTL
============================================================================

-------------------------- MODULE PopParserProofs --------------------------
(***************************************************************************)
(* Facts about the parser, for inputs of any length: a result other than   *)
(* Incomplete does not change when more bytes arrive, a reply lies inside  *)
(* of the input, and an input that starts with a zero byte is rejected.    *)
(***************************************************************************)
EXTENDS PopParser, TLAPS

(* The three results are told apart by their tags.                         *)
LEMMA ResultType ==
  \A r, n : /\ Done(r, n).tag = "done" /\ Done(r, n).used = n
            /\ Incomplete(n).tag = "incomplete"
            /\ Reject.tag = "reject"
  BY DEF Done, Incomplete, Reject

(* An input goes on: more bytes have arrived behind those of b. *)
Extends(more, b) == Len(b) <= Len(more) /\ \A j \in 1 .. Len(b) : more[j] = b[j]

(* More bytes change nothing at the positions that were there before. *)
LEMMA AtStable ==
  ASSUME NEW b \in Seq(Token), NEW more \in Seq(Token), Extends(more, b)
  PROVE  /\ \A j \in 1 .. Len(b) : At(more, j) = At(b, j)
         /\ \A j \in Int : j \notin 1 .. Len(b) => At(b, j) = "end"
         /\ \A j \in 1 .. Len(b) : At(b, j) = b[j] /\ At(b, j) # "end"
  BY DEF At, Token, Extends

(* An end of a line lies inside of the input, and stays one.               *)
LEMMA EndsLineStable ==
  ASSUME NEW b \in Seq(Token), NEW more \in Seq(Token), Extends(more, b),
         NEW i \in Nat \ {0}
  PROVE  /\ EndsLine(b, i) => i + 1 \in 1 .. Len(b)
         /\ i + 1 <= Len(b) => EndsLine(more, i) = EndsLine(b, i)
  BY AtStable DEF EndsLine

(* A line has one end only, which lies inside of the input and stays.      *)
LEMMA TextEndsUnique ==
  ASSUME NEW b, NEW i \in Int, NEW e \in Int, NEW f \in Int,
         TextEnds(b, i, e), TextEnds(b, i, f)
  PROVE  e = f
  <1>1. At(b, e) = "CR" /\ At(b, f) = "CR"
    BY DEF TextEnds, EndsLine
  <1>2. e \notin i .. f - 1 /\ f \notin i .. e - 1
    BY <1>1 DEF TextEnds, IsText
  <1> QED BY <1>2 DEF TextEnds

LEMMA TextEndsStable ==
  ASSUME NEW b \in Seq(Token), NEW more \in Seq(Token), Extends(more, b),
         NEW i \in Nat \ {0}, NEW e \in Nat \ {0}
  PROVE  /\ TextEnds(b, i, e) => e + 1 \in 1 .. Len(b)
         /\ e + 1 <= Len(b) => TextEnds(more, i, e) = TextEnds(b, i, e)
  <1>1. TextEnds(b, i, e) => e + 1 \in 1 .. Len(b)
    BY EndsLineStable DEF TextEnds
  <1>2. ASSUME e + 1 <= Len(b) PROVE TextEnds(more, i, e) = TextEnds(b, i, e)
    <2>1. EndsLine(more, e) = EndsLine(b, e)
      BY <1>2, EndsLineStable
    <2>2. \A k \in i .. e - 1 : At(more, k) = At(b, k)
      BY <1>2, AtStable
    <2> QED BY <2>1, <2>2 DEF TextEnds
  <1> QED BY <1>1, <1>2

(* message_parser found the end of the line. *)
LEMMA LineFound ==
  ASSUME NEW b \in Seq(Token), NEW i \in Nat \ {0}, NEW resp
  PROVE  /\ MessageParser(b, i, resp).tag = "done" => \E e \in DOMAIN b : TextEnds(b, i, e)
         /\ \A e \in DOMAIN b : TextEnds(b, i, e) => MessageParser(b, i, resp) = Done(resp, e + 1)
  <1>1. MessageParser(b, i, resp).tag = "done" => \E e \in DOMAIN b : TextEnds(b, i, e)
    BY DEF MessageParser, Incomplete
  <1>2. ASSUME NEW e \in DOMAIN b, TextEnds(b, i, e)
        PROVE  MessageParser(b, i, resp) = Done(resp, e + 1)
    <2>1. DOMAIN b \subseteq Int
      OBVIOUS
    <2>2. \A f \in DOMAIN b : TextEnds(b, i, f) => f = e
      BY <1>2, <2>1, TextEndsUnique
    <2>3. (CHOOSE f \in DOMAIN b : TextEnds(b, i, f)) = e
      BY <1>2, <2>2
    <2> QED BY <1>2, <2>3 DEF MessageParser
  <1> QED BY <1>1, <1>2

(* message_parser: a line that was found stays where it is.                *)
LEMMA LineStable ==
  ASSUME NEW b \in Seq(Token), NEW more \in Seq(Token), Extends(more, b),
         NEW i \in Nat \ {0}, NEW resp,
         MessageParser(b, i, resp).tag = "done"
  PROVE  /\ MessageParser(more, i, resp) = MessageParser(b, i, resp)
         /\ MessageParser(b, i, resp).used \in i + 1 .. Len(b)
  <1>1. PICK e \in DOMAIN b : TextEnds(b, i, e)
    BY LineFound
  <1>2. e \in Nat \ {0} /\ e >= i
    BY <1>1 DEF TextEnds
  <1>3. e + 1 \in 1 .. Len(b) /\ e \in DOMAIN more
    BY <1>1, <1>2, TextEndsStable DEF Extends
  <1>4. TextEnds(more, i, e)
    BY <1>1, <1>2, <1>3, TextEndsStable
  <1>5. MessageParser(b, i, resp) = Done(resp, e + 1) /\ MessageParser(more, i, resp) = Done(resp, e + 1)
    BY <1>1, <1>3, <1>4, LineFound
  <1> QED BY <1>2, <1>3, <1>5 DEF Done

(* A message line is never rejected. *)
LEMMA LineNotRejected ==
  ASSUME NEW b, NEW i, NEW resp
  PROVE  MessageParser(b, i, resp).tag \in {"done", "incomplete"}
  BY DEF MessageParser, Done, Incomplete

(* stat and uidl: neither a line of numbers nor a rejection changes.       *)
LEMMA ScanLineStable ==
  ASSUME NEW b \in Seq(Token), NEW more \in Seq(Token), Extends(more, b),
         NEW i \in 1 .. Len(b), NEW resp,
         ScanLine(b, i, resp).tag # "incomplete"
  PROVE  /\ ScanLine(more, i, resp) = ScanLine(b, i, resp)
         /\ ScanLine(b, i, resp).tag = "done" => ScanLine(b, i, resp).used \in i + 2 .. Len(b)
  <1>1. At(more, i) = At(b, i)
    BY AtStable
  <1>2. CASE At(b, i) \notin Single(resp)
    BY <1>1, <1>2 DEF ScanLine, Reject
  <1>3. CASE At(b, i) \in Single(resp)
    <2>1. EndsLine(b, i + 1)
      BY <1>3 DEF ScanLine, Incomplete
    <2>2. i + 2 \in 1 .. Len(b) /\ EndsLine(more, i + 1)
      BY <2>1, EndsLineStable, i + 1 \in Nat \ {0}
    <2> QED
      BY <1>1, <1>3, <2>1, <2>2 DEF ScanLine, Done
  <1> QED
    BY <1>2, <1>3

(* Only one line is the first one that is no item. *)
LEMMA StopIsUnique ==
  ASSUME NEW b \in Seq(Token), NEW i \in Nat \ {0}, NEW cmd,
         NEW j \in Int, NEW k \in Int,
         StopsAtLine(b, i, j, cmd), StopsAtLine(b, i, k, cmd)
  PROVE  j = k
  BY DEF StopsAtLine

(* An item stays one. *)
LEMMA ItemStable ==
  ASSUME NEW b \in Seq(Token), NEW more \in Seq(Token), Extends(more, b),
         NEW j \in Nat \ {0}, NEW cmd, IsItem(b, j, cmd)
  PROVE  IsItem(more, j, cmd)
  <1>1. PICK e \in DOMAIN b : EndsLine(b, e) /\ ItemText(b, j, e, cmd)
    BY DEF IsItem
  <1>2. e \in Nat \ {0} /\ e + 1 <= Len(b)
    BY <1>1, EndsLineStable
  <1>3. EndsLine(more, e) /\ e \in DOMAIN more
    BY <1>1, <1>2, EndsLineStable DEF Extends
  <1>4. \A k \in j .. e - 1 : At(more, k) = At(b, k)
    BY <1>2, AtStable
  <1>5. ItemText(more, j, e, cmd)
    BY <1>1, <1>2, <1>4 DEF ItemText
  <1> QED BY <1>3, <1>5 DEF IsItem

(* A dot is no item, and neither is what is none of the command's tokens. *)
LEMMA ItemStarts ==
  ASSUME NEW b, NEW j \in Int, NEW e \in Int, NEW cmd, ItemText(b, j, e, cmd)
  PROVE  At(b, j) \in Item(cmd) /\ At(b, j) # "." /\ At(b, j) # "end"
  BY DEF ItemText, Item

(* A line that is neither an item nor an unfinished one will never be.     *)
LEMMA NoItemStable ==
  ASSUME NEW b \in Seq(Token), NEW more \in Seq(Token), Extends(more, b),
         NEW j \in DOMAIN b, NEW cmd,
         ~IsItem(b, j, cmd), ~IsCut(b, j, cmd)
  PROVE  ~IsItem(more, j, cmd) /\ ~ItemText(more, j, Cut(more), cmd)
  <1>0. /\ DOMAIN b = 1 .. Len(b) /\ Len(b) \in Nat \ {0} /\ Len(more) \in Nat
        /\ DOMAIN more = 1 .. Len(more) /\ Len(b) <= Len(more)
    BY DEF Extends
  <1>1. Cut(b) \in {Len(b), Len(b) + 1} /\ Cut(b) \in Nat \ {0}
    BY <1>0 DEF Cut
  <1>2. Cut(more) \in {Len(more), Len(more) + 1} /\ Cut(more) \in Nat \ {0} /\ Cut(more) >= Cut(b)
    <2>1. CASE At(b, Len(b)) = "CR"
      BY <1>0, <2>1 DEF Cut
    <2>2. CASE At(b, Len(b)) # "CR"
      <3>1. CASE Len(more) = Len(b)
        <4>1. At(more, Len(more)) = At(b, Len(b))
          BY <1>0, <3>1, AtStable
        <4> QED BY <1>0, <2>2, <3>1, <4>1 DEF Cut
      <3>2. CASE Len(more) > Len(b)
        BY <1>0, <2>2, <3>2 DEF Cut
      <3>3. Len(more) = Len(b) \/ Len(more) > Len(b)
        <4>1. Len(b) \in Int /\ Len(more) \in Int /\ Len(b) <= Len(more)
          BY <1>0
        <4> QED BY <4>1
      <3> QED BY <3>1, <3>2, <3>3
    <2> QED BY <2>1, <2>2
  <1>3. ASSUME NEW e \in Int, ItemText(more, j, e, cmd)
        PROVE  e > j /\ e <= Cut(b) - 1
    <2>1. e > j
      BY <1>3 DEF ItemText
    <2>2. SUFFICES ASSUME e >= Cut(b) PROVE FALSE
      BY <1>0, <1>1, <2>1
    <2>3. At(more, j) = At(b, j) /\ At(more, j) \in Item(cmd) /\ "CR" \notin Item(cmd)
      BY <1>0, <1>3, <2>1, AtStable DEF ItemText, Item
    <2>4. Cut(b) > j
      <3>1. CASE j = Len(b)
        BY <1>0, <2>3, <3>1 DEF Cut
      <3>2. CASE j # Len(b)
        BY <1>0, <1>1, <3>2
      <3> QED BY <3>1, <3>2
    <2>5. ASSUME NEW k \in j .. Cut(b) - 1
          PROVE  At(b, k) \in Item(cmd) /\ (k <= Cut(b) - 2 => At(b, k) = "tag")
      <3>1. k \in 1 .. Len(b) /\ k \in j .. e - 1 /\ (k <= Cut(b) - 2 => k \in j .. e - 2)
        BY <1>0, <1>1, <2>2
      <3>2. At(more, k) = At(b, k)
        BY <3>1, AtStable
      <3> QED BY <1>3, <3>1, <3>2 DEF ItemText
    <2>6. ItemText(b, j, Cut(b), cmd)
      BY <1>0, <1>1, <2>4, <2>5 DEF ItemText
    <2> QED BY <2>6 DEF IsCut
  <1>4. ASSUME NEW e \in DOMAIN more, EndsLine(more, e), ItemText(more, j, e, cmd)
        PROVE  FALSE
    <2>1. e > j /\ e <= Cut(b) - 1 /\ e \in 1 .. Len(b)
      BY <1>0, <1>1, <1>3, <1>4
    <2>2. At(b, e) = "CR"
      BY <1>4, <2>1, AtStable DEF EndsLine
    <2>3. e + 1 <= Len(b)
      BY <1>0, <2>1, <2>2 DEF Cut
    <2>4. EndsLine(b, e)
      BY <1>4, <2>1, <2>3, EndsLineStable
    <2>5. \A k \in j .. e - 1 : At(more, k) = At(b, k)
      BY <1>0, <2>1, AtStable
    <2>6. ItemText(b, j, e, cmd)
      BY <1>0, <1>4, <2>1, <2>5 DEF ItemText
    <2> QED BY <1>0, <2>1, <2>4, <2>6 DEF IsItem
  <1> QED BY <1>1, <1>2, <1>3, <1>4 DEF IsItem

(* The lines in front of a line do not change any more. *)
LEMMA LinesStable ==
  ASSUME NEW b \in Seq(Token), NEW more \in Seq(Token), Extends(more, b),
         NEW i \in Nat \ {0}, NEW cmd,
         NEW j \in DOMAIN b, StopsAtLine(b, i, j, cmd),
         ~IsItem(more, j, cmd)
  PROVE  StopsAtLine(more, i, j, cmd)
  <1>1. \A k \in LineStarts(more, i) : k <= j => k \in LineStarts(b, i)
    BY AtStable DEF LineStarts
  <1>2. j \in LineStarts(more, i)
    BY AtStable DEF LineStarts, StopsAtLine, Extends
  <1>3. ASSUME NEW k \in LineStarts(more, i), k < j
        PROVE  IsItem(more, k, cmd)
    <2>1. k \in Nat \ {0} /\ k + 1 \in Nat \ {0}
      BY DEF LineStarts
    <2>2. IsItem(b, k, cmd)
      BY <1>1, <1>3, <2>1, j \in Nat DEF StopsAtLine
    <2> QED
      BY <2>1, <2>2, ItemStable
  <1> QED
    BY <1>2, <1>3 DEF StopsAtLine

(* many_till: a listing that ended, or met a bad line, stays so.           *)
LEMMA ManyTillStable ==
  ASSUME NEW b \in Seq(Token), NEW more \in Seq(Token), Extends(more, b),
         NEW i \in Nat \ {0}, NEW cmd, NEW resp,
         ManyTill(b, i, cmd, resp).tag # "incomplete"
  PROVE  /\ ManyTill(more, i, cmd, resp) = ManyTill(b, i, cmd, resp)
         /\ ManyTill(b, i, cmd, resp).tag = "done" =>
              ManyTill(b, i, cmd, resp).used \in 1 .. Len(b)
  <1> DEFINE Ends(d, j)    == StopsAtLine(d, i, j, cmd) /\ IsEnd(d, j)
             Rejects(d, j) == StopsAtLine(d, i, j, cmd) /\ ~IsCut(d, j, cmd)
  <1>0. DOMAIN b \subseteq DOMAIN more /\ DOMAIN b = 1 .. Len(b) /\ DOMAIN more \subseteq Nat
    BY DEF Extends
  <1>1. CASE \E j \in DOMAIN b : Ends(b, j)
    <2>1. PICK j \in DOMAIN b : Ends(b, j)
      BY <1>1
    <2>2. j + 2 <= Len(b) /\ j + 1 \in Nat \ {0}
      BY <1>0, <2>1, EndsLineStable DEF IsEnd
    <2>3. Ends(more, j)
      <3>1. IsEnd(more, j) /\ At(more, j) = "."
        BY <1>0, <2>1, <2>2, AtStable, EndsLineStable DEF IsEnd
      <3>2. ~IsItem(more, j, cmd)
        BY <1>0, <3>1, ItemStarts DEF IsItem
      <3> QED
        BY <2>1, <3>1, <3>2, LinesStable
    <2>4. j = (CHOOSE k \in DOMAIN b : StopsAtLine(b, i, k, cmd))
      BY <1>0, <2>1, StopIsUnique
    <2>5. j = (CHOOSE k \in DOMAIN more : StopsAtLine(more, i, k, cmd))
      <3>1. ASSUME NEW k \in DOMAIN more, StopsAtLine(more, i, k, cmd)
            PROVE  k = j
        <4>1. more \in Seq(Token) /\ j \in Int /\ k \in Int /\ StopsAtLine(more, i, j, cmd)
          BY <1>0, <2>3
        <4> QED
          BY <3>1, <4>1, StopIsUnique
      <3> QED
        BY <1>0, <2>3, <3>1
    <2>6. ManyTill(b, i, cmd, resp) = Done(resp, j + 2)
      BY <2>1, <2>4 DEF ManyTill
    <2>7. ManyTill(more, i, cmd, resp) = Done(resp, j + 2)
      BY <1>0, <2>3, <2>5 DEF ManyTill
    <2> QED
      BY <1>0, <2>2, <2>6, <2>7 DEF Done
  <1>2. CASE ~ \E j \in DOMAIN b : Ends(b, j)
    <2>1. PICK j \in DOMAIN b : Rejects(b, j)
      BY <1>2 DEF ManyTill, Incomplete
    <2>2. At(more, j) = At(b, j) /\ At(b, j) # "end" /\ ~IsEnd(b, j) /\ ~IsItem(b, j, cmd)
      BY <1>0, <1>2, <2>1, AtStable DEF StopsAtLine
    <2>3. ~IsEnd(more, j) /\ ~IsItem(more, j, cmd) /\ ~IsCut(more, j, cmd)
      <3>1. ~IsItem(more, j, cmd) /\ ~ItemText(more, j, Cut(more), cmd)
        BY <2>1, <2>2, NoItemStable
      <3>2. CASE At(b, j) # "."
        BY <2>2, <3>1, <3>2 DEF IsEnd, IsCut
      <3>3. CASE At(b, j) = "."
        <4>0. j \in 1 .. Len(b) /\ Len(b) \in Nat /\ Len(more) \in Nat /\ Len(b) <= Len(more)
          BY <1>0 DEF Extends
        <4>1. Cut(b) # j + 1 /\ ~EndsLine(b, j + 1)
          BY <2>1, <2>2, <3>3 DEF IsCut, IsEnd
        <4>2. j + 1 <= Len(b)
          BY <3>3, <4>0, <4>1 DEF Cut
        <4>3. At(more, j + 1) = At(b, j + 1)
          BY <4>0, <4>2, AtStable
        <4>4. CASE At(b, j + 1) # "CR"
          <5>1. ~EndsLine(more, j + 1)
            BY <4>3, <4>4 DEF EndsLine
          <5>2. Cut(more) # j + 1
            BY <4>0, <4>2, <4>3, <4>4 DEF Cut
          <5> QED BY <2>2, <3>1, <5>1, <5>2 DEF IsEnd, IsCut
        <4>5. CASE At(b, j + 1) = "CR"
          <5>1. j + 2 <= Len(b)
            BY <4>0, <4>1, <4>2, <4>5 DEF Cut
          <5>2. ~EndsLine(more, j + 1)
            BY <4>0, <4>1, <5>1, EndsLineStable, j + 1 \in Nat \ {0}
          <5>3. Cut(more) # j + 1
            BY <4>0, <5>1 DEF Cut
          <5> QED BY <2>2, <3>1, <5>2, <5>3 DEF IsEnd, IsCut
        <4> QED BY <4>4, <4>5
      <3> QED BY <3>2, <3>3
    <2>4. Rejects(more, j)
      BY <2>1, <2>3, LinesStable
    <2>5. ASSUME NEW k \in DOMAIN more, Ends(more, k)
          PROVE  FALSE
      <3>1. more \in Seq(Token) /\ j \in Int /\ k \in Int
        BY <1>0
      <3>2. StopsAtLine(more, i, j, cmd) /\ StopsAtLine(more, i, k, cmd) /\ k # j
        BY <2>3, <2>4, <2>5
      <3> QED
        BY <3>1, <3>2, StopIsUnique
    <2> QED
      BY <1>0, <1>2, <2>1, <2>4, <2>5 DEF ManyTill, Reject
  <1> QED
    BY <1>1, <1>2

(* take_until: the first terminator stays the first.                       *)
LEMMA TakeUntilStable ==
  ASSUME NEW b \in Seq(Token), NEW more \in Seq(Token), Extends(more, b),
         NEW i \in Nat \ {0},
         TakeUntil(b, i).tag # "incomplete"
  PROVE  /\ TakeUntil(more, i) = TakeUntil(b, i)
         /\ TakeUntil(b, i).tag = "done" => TakeUntil(b, i).used \in 1 .. Len(b)
  <1> DEFINE First(d, j) == Terminator(d, i, j) /\ \A k \in DOMAIN d : k < j => ~Terminator(d, i, k)
  <1>0. DOMAIN b = 1 .. Len(b) /\ DOMAIN more = 1 .. Len(more) /\ Len(b) <= Len(more)
    BY DEF Extends
  <1>1. ASSUME NEW j \in Nat \ {0}, j + 4 <= Len(b)
        PROVE  Terminator(more, i, j) = Terminator(b, i, j)
    BY <1>1, AtStable, EndsLineStable, j + 3 \in Nat \ {0}, j + 2 \in 1 .. Len(b) DEF Terminator
  <1>2. ASSUME NEW j \in Nat \ {0}, Terminator(b, i, j)
        PROVE  j + 4 <= Len(b)
    BY <1>2, EndsLineStable, j + 3 \in Nat \ {0} DEF Terminator
  <1>3. PICK j \in DOMAIN b : First(b, j)
    BY DEF TakeUntil, Incomplete
  <1>4. j \in Nat \ {0} /\ j + 4 <= Len(b) /\ j \in DOMAIN more
    BY <1>0, <1>2, <1>3
  <1>5. First(more, j)
    <2>1. Terminator(more, i, j)
      BY <1>1, <1>3, <1>4
    <2>2. ASSUME NEW k \in DOMAIN more, k < j
          PROVE  ~Terminator(more, i, k)
      BY <1>0, <1>1, <1>3, <1>4, <2>2
    <2> QED
      BY <2>1, <2>2
  <1>6. (CHOOSE k \in DOMAIN b : First(b, k)) = j
    <2>1. \A k \in DOMAIN b : First(b, k) => k = j
      BY <1>0, <1>3
    <2> QED
      BY <1>3, <2>1
  <1>7. (CHOOSE k \in DOMAIN more : First(more, k)) = j
    <2>1. \A k \in DOMAIN more : First(more, k) => k = j
      BY <1>0, <1>4, <1>5
    <2> QED
      BY <1>4, <1>5, <2>1
  <1>8. TakeUntil(b, i) = Done("Bytes", j + 4)
    BY <1>3, <1>6 DEF TakeUntil
  <1>9. TakeUntil(more, i) = Done("Bytes", j + 4)
    BY <1>4, <1>5, <1>7 DEF TakeUntil
  <1> QED
    BY <1>4, <1>8, <1>9 DEF Done

(* A first line that is complete stays, and the rest starts where it did. *)
LEMMA FirstLineStable ==
  ASSUME NEW b \in Seq(Token), NEW more \in Seq(Token), Extends(more, b),
         MessageParser(b, 2, "none").tag = "done"
  PROVE  /\ MessageParser(more, 2, "none") = MessageParser(b, 2, "none")
         /\ MessageParser(b, 2, "none").used + 1 \in Nat \ {0}
  BY LineStable, 2 \in Nat \ {0}

(* rfc822_response (RETR, TOP) does not change its mind.                   *)
LEMMA Rfc822Stable ==
  ASSUME NEW b \in Seq(Token), NEW more \in Seq(Token), Extends(more, b),
         Rfc822Response(b).tag # "incomplete"
  PROVE  /\ Rfc822Response(more) = Rfc822Response(b)
         /\ Rfc822Response(b).tag = "done" => Rfc822Response(b).used \in 1 .. Len(b)
  <1>1. MessageParser(b, 2, "none").tag = "done"
    BY LineNotRejected DEF Rfc822Response, BehindFirstLine
  <1> QED
    BY <1>1, FirstLineStable, TakeUntilStable DEF Rfc822Response, BehindFirstLine

(* capability_response (CAPA) does not change its mind.                    *)
LEMMA CapabilityStable ==
  ASSUME NEW b \in Seq(Token), NEW more \in Seq(Token), Extends(more, b),
         CapabilityResponse(b).tag # "incomplete"
  PROVE  /\ CapabilityResponse(more) = CapabilityResponse(b)
         /\ CapabilityResponse(b).tag = "done" => CapabilityResponse(b).used \in 1 .. Len(b)
  <1>1. MessageParser(b, 2, "none").tag = "done"
    BY LineNotRejected DEF CapabilityResponse, BehindFirstLine
  <1> QED
    BY <1>1, FirstLineStable, ManyTillStable DEF CapabilityResponse, BehindFirstLine

(* list_response does not change its mind between drop and scan listing.   *)
LEMMA ListStable ==
  ASSUME NEW b \in Seq(Token), NEW more \in Seq(Token), Extends(more, b),
         Len(b) >= 2, ListResponse(b).tag # "incomplete"
  PROVE  /\ ListResponse(more) = ListResponse(b)
         /\ ListResponse(b).tag = "done" => ListResponse(b).used \in 1 .. Len(b)
  <1>1. At(more, 2) = At(b, 2) /\ 2 \in 1 .. Len(b)
    BY AtStable
  <1>2. CASE At(b, 2) \in Single("Stat")
    BY <1>1, <1>2, ScanLineStable DEF ListResponse
  <1>3. CASE At(b, 2) \notin Single("Stat")
    <2>1. ~(At(b, 2) = "stats" /\ ~EndsLine(b, 3))
      BY <1>3 DEF ListResponse, Incomplete
    <2>2. ~(At(more, 2) = "stats" /\ ~EndsLine(more, 3))
      BY <1>1, <2>1, EndsLineStable, 3 \in Nat \ {0}
    <2>3. MessageParser(b, 2, "none").tag = "done"
      BY <1>3, <2>1, LineNotRejected DEF ListResponse, BehindFirstLine
    <2> QED
      BY <1>1, <1>3, <2>1, <2>2, <2>3, FirstLineStable, ManyTillStable DEF ListResponse, BehindFirstLine
  <1> QED
    BY <1>2, <1>3

(* uidl_response does not change its mind between one id and a listing.    *)
LEMMA UidlStable ==
  ASSUME NEW b \in Seq(Token), NEW more \in Seq(Token), Extends(more, b),
         Len(b) >= 2, UidlResponse(b).tag # "incomplete"
  PROVE  /\ UidlResponse(more) = UidlResponse(b)
         /\ UidlResponse(b).tag = "done" => UidlResponse(b).used \in 1 .. Len(b)
  <1>1. At(more, 2) = At(b, 2) /\ 2 \in 1 .. Len(b)
    BY AtStable
  <1>2. CASE At(b, 2) \in Single("UniqueId")
    BY <1>1, <1>2, ScanLineStable DEF UidlResponse
  <1>3. CASE At(b, 2) \notin Single("UniqueId")
    <2>1. MessageParser(b, 2, "none").tag = "done"
      BY <1>3, LineNotRejected DEF UidlResponse, BehindFirstLine
    <2> QED
      BY <1>1, <1>3, <2>1, FirstLineStable, ManyTillStable DEF UidlResponse, BehindFirstLine
  <1> QED
    BY <1>2, <1>3

(* A SASL challenge does not change its mind between text and base64.      *)
LEMMA ChallengeStable ==
  ASSUME NEW b \in Seq(Token), NEW more \in Seq(Token), Extends(more, b),
         Challenge(b).tag # "incomplete"
  PROVE  /\ Challenge(more) = Challenge(b)
         /\ Challenge(b).tag = "done" => Challenge(b).used \in 1 .. Len(b)
  <1>1. At(b, 2) # "end"
    BY DEF Challenge, Incomplete
  <1>2. 2 \in 1 .. Len(b) /\ At(more, 2) = At(b, 2)
    BY <1>1, AtStable
  <1>3. MessageParser(b, 2, "Challenge").tag = "done"
    BY <1>1, LineNotRejected DEF Challenge
  <1>4. /\ MessageParser(more, 2, "Challenge") = MessageParser(b, 2, "Challenge")
        /\ MessageParser(b, 2, "Challenge").used \in 3 .. Len(b)
    BY <1>3, LineStable, 2 \in Nat \ {0}
  <1>5. Challenge(more) = Challenge(b)
    BY <1>1, <1>2, <1>4 DEF Challenge, IsBase64
  <1>6. Challenge(b) \in {Reject, MessageParser(b, 2, "Challenge")}
    BY <1>1 DEF Challenge
  <1> QED
    BY <1>4, <1>5, <1>6, ResultType

(* Behind +OK: all the commands together.                                  *)
LEMMA SuccessStable ==
  ASSUME NEW b \in Seq(Token), NEW more \in Seq(Token), Extends(more, b),
         NEW c \in Command, Len(b) >= 2,
         Success(b, c).tag # "incomplete"
  PROVE  /\ Success(more, c) = Success(b, c)
         /\ Success(b, c).tag = "done" => Success(b, c).used \in 1 .. Len(b)
  <1>1. CASE c = "STAT"
    BY <1>1, ScanLineStable, 2 \in 1 .. Len(b) DEF Success, StatResponse
  <1>2. CASE c = "UIDL"
    BY <1>2, UidlStable DEF Success
  <1>3. CASE c = "LIST"
    BY <1>3, ListStable DEF Success
  <1>4. CASE c = "RETR"
    BY <1>4, Rfc822Stable DEF Success
  <1>5. CASE c = "CAPA"
    BY <1>5, CapabilityStable DEF Success
  <1>6. CASE c \in {"AUTH", "STRING"}
    <2>1. Success(b, c) = MessageParser(b, 2, "Message")
      BY <1>6 DEF Success
    <2>2. Success(more, c) = MessageParser(more, 2, "Message")
      BY <1>6 DEF Success
    <2>3. MessageParser(b, 2, "Message").tag = "done"
      BY <2>1, LineNotRejected
    <2> QED
      BY <2>1, <2>2, <2>3, LineStable, 2 \in Nat \ {0}
  <1> QED
    BY <1>1, <1>2, <1>3, <1>4, <1>5, <1>6 DEF Command

(* The branches of parse, and the inputs that are too short for them. *)
LEMMA ParseBranches ==
  ASSUME NEW b \in Seq(Token), NEW c \in Command
  PROVE  /\ b = <<>> => parse(b, c).tag = "incomplete"
         /\ b # <<>> /\ b[1] = "+" /\ c = "AUTH" => parse(b, c) = Challenge(b)
         /\ b # <<>> /\ b[1] \notin {"+OK", "-ERR"} /\ ~(b[1] = "+" /\ c = "AUTH") =>
              parse(b, c) = Reject
         /\ b # <<>> /\ b[1] \in {"+OK", "-ERR"} /\ Len(b) = 1 => parse(b, c).tag = "incomplete"
         /\ b # <<>> /\ b[1] = "+OK" /\ Len(b) # 1 => parse(b, c) = Success(b, c)
         /\ b # <<>> /\ b[1] = "-ERR" /\ Len(b) # 1 => parse(b, c) = MessageParser(b, 2, "Err")
  <1>1. CASE b = <<>>
    BY <1>1 DEF parse, Incomplete
  <1>2. CASE b # <<>> /\ b[1] \notin {"+OK", "-ERR"}
    BY <1>2 DEF parse
  <1>3. CASE b # <<>> /\ b[1] \in {"+OK", "-ERR"} /\ Len(b) = 1
    BY <1>3 DEF parse, Incomplete
  <1>4. CASE b # <<>> /\ b[1] = "+OK" /\ Len(b) # 1
    <2>1. b[1] \in {"+OK", "-ERR"} /\ b[1] # "+"
      BY <1>4
    <2> QED
      BY <1>4, <2>1 DEF parse
  <1>5. CASE b # <<>> /\ b[1] = "-ERR" /\ Len(b) # 1
    <2>1. b[1] \in {"+OK", "-ERR"} /\ b[1] # "+" /\ b[1] # "+OK"
      BY <1>5
    <2> QED
      BY <1>5, <2>1 DEF parse
  <1> QED
    BY <1>1, <1>2, <1>3, <1>4, <1>5

(* Whatever the bytes and the command: what arrives behind them changes    *)
(* nothing about a reply that was found or a rejection, and a reply lies   *)
(* in the input.                                                           *)
LEMMA ParseStable ==
  ASSUME NEW b \in Seq(Token), NEW more \in Seq(Token), Extends(more, b),
         NEW c \in Command,
         parse(b, c).tag # "incomplete"
  PROVE  /\ parse(more, c) = parse(b, c)
         /\ parse(b, c).tag = "done" => parse(b, c).used \in 1 .. Len(b)
  <1>2. b # <<>> /\ Len(b) >= 1 /\ (Len(b) # 1 => Len(b) >= 2)
    <2>1. b # <<>>
      BY ParseBranches
    <2>2. Len(b) \in Nat /\ Len(b) >= 1
      BY <2>1
    <2>3. \A n \in Nat : n # 1 /\ n >= 1 => n >= 2
      OBVIOUS
    <2> QED
      BY <2>1, <2>2, <2>3
  <1>3. more # <<>> /\ more[1] = b[1] /\ (Len(b) # 1 => Len(more) # 1)
    <2>1. Len(more) >= Len(b) /\ 1 \in 1 .. Len(b) /\ Len(b) \in Nat /\ Len(more) \in Nat
      BY <1>2 DEF Extends
    <2>2. more # <<>> /\ (Len(b) # 1 => Len(more) # 1)
      BY <1>2, <2>1
    <2> QED BY <2>1, <2>2 DEF Extends
  <1>4. CASE b[1] = "+" /\ c = "AUTH"
    <2>1. parse(b, c) = Challenge(b) /\ parse(more, c) = Challenge(more)
      BY <1>2, <1>3, <1>4, ParseBranches
    <2> QED
      BY <2>1, ChallengeStable
  <1>5. CASE ~(b[1] = "+" /\ c = "AUTH") /\ b[1] \notin {"+OK", "-ERR"}
    <2>1. parse(b, c) = Reject /\ parse(more, c) = Reject
      BY <1>2, <1>3, <1>5, ParseBranches
    <2> QED
      BY <2>1 DEF Reject
  <1>6. CASE b[1] = "+OK"
    <2>1. Len(b) # 1
      BY <1>2, <1>6, ParseBranches
    <2>2. parse(b, c) = Success(b, c) /\ parse(more, c) = Success(more, c)
      BY <1>2, <1>3, <1>6, <2>1, ParseBranches
    <2>3. Len(b) >= 2
      BY <1>2, <2>1
    <2>4. /\ Success(more, c) = Success(b, c)
          /\ Success(b, c).tag = "done" => Success(b, c).used \in 1 .. Len(b)
      BY <2>2, <2>3, SuccessStable
    <2> QED
      BY <2>2, <2>4
  <1>7. CASE b[1] = "-ERR"
    <2>1. Len(b) # 1
      BY <1>2, <1>7, ParseBranches
    <2>2. parse(b, c) = MessageParser(b, 2, "Err") /\ parse(more, c) = MessageParser(more, 2, "Err")
      BY <1>2, <1>3, <1>7, <2>1, ParseBranches
    <2> QED
      BY <2>2, LineNotRejected, LineStable, 2 \in Nat \ {0}
  <1> QED
    BY <1>4, <1>5, <1>6, <1>7

(* ... one more byte in particular. *)
LEMMA ParseAppend ==
  ASSUME NEW b \in Seq(Token), NEW t \in Token, NEW c \in Command,
         parse(b, c).tag # "incomplete"
  PROVE  parse(Append(b, t), c) = parse(b, c)
  <1> DEFINE more == Append(b, t)
  <1>1. more \in Seq(Token) /\ Len(more) = Len(b) + 1 /\ \A j \in 1 .. Len(b) : more[j] = b[j]
    OBVIOUS
  <1> HIDE DEF more
  <1>2. Extends(more, b)
    BY <1>1 DEF Extends
  <1>3. parse(more, c) = parse(b, c)
    BY <1>1, <1>2, ParseStable
  <1> QED BY <1>3 DEF more

(* A zero byte in front is rejected for every command: the zeroed buffer   *)
(* an invalid response leaves behind is never taken for a reply.           *)
LEMMA ZeroRejected ==
  ASSUME NEW b \in Seq(Token), NEW c \in Command, b # <<>>, b[1] = "NUL"
  PROVE  parse(b, c).tag = "reject"
  <1>1. b[1] \notin {"+OK", "-ERR"} /\ b[1] # "+"
    OBVIOUS
  <1> QED
    BY <1>1, ParseBranches DEF Reject

(* The parser asks for a number of bytes. *)
LEMMA NeedType ==
  ASSUME NEW b \in Seq(Token), NEW c \in Command
  PROVE  parse(b, c).need \in Nat
  <1>1. \A r, n : Done(r, n).need = 0 /\ Reject.need = 0 /\ Incomplete(n).need = n
    BY DEF Done, Reject, Incomplete
  <1>2. \A i, r : MessageParser(b, i, r).need \in Nat
    BY <1>1 DEF MessageParser
  <1>3. \A i, r : ScanLine(b, i, r).need \in Nat
    BY <1>1 DEF ScanLine
  <1>4. \A i, r : ManyTill(b, i, c, r).need \in Nat
    <2>1. \A n : KeywordRest(n) \in Nat
      BY TagAssumption DEF KeywordRest
    <2>2. \A j : CutNeed(b, j, c) \in Nat
      BY <2>1 DEF CutNeed
    <2> QED
      BY <1>1, <2>2 DEF ManyTill
  <1>5. \A i : TakeUntil(b, i).need \in Nat
    BY <1>1 DEF TakeUntil
  <1>6. Success(b, c).need \in Nat
    <2>1. CASE c = "STAT"
      BY <1>3, <2>1 DEF Success, StatResponse
    <2>2. CASE c = "UIDL"
      BY <1>2, <1>3, <1>4, <2>2 DEF Success, UidlResponse, BehindFirstLine
    <2>3. CASE c = "LIST"
      BY <1>1, <1>2, <1>3, <1>4, <2>3 DEF Success, ListResponse, BehindFirstLine
    <2>4. CASE c = "RETR"
      BY <1>2, <1>5, <2>4 DEF Success, Rfc822Response, BehindFirstLine
    <2>5. CASE c = "CAPA"
      BY <1>2, <1>4, <2>5 DEF Success, CapabilityResponse, BehindFirstLine
    <2>6. CASE c \in {"AUTH", "STRING"}
      BY <1>2, <2>6 DEF Success
    <2> QED
      BY <2>1, <2>2, <2>3, <2>4, <2>5, <2>6 DEF Command
  <1>7. Challenge(b).need \in Nat
    BY <1>1, <1>2 DEF Challenge
  <1> QED
    BY <1>1, <1>2, <1>6, <1>7 DEF parse
============================================================================

-------------------------- MODULE PopStreamProofs --------------------------
(***************************************************************************)
(* What holds of PopStream for every chunk size, maximum size and set of   *)
(* replies, whatever way the bytes are cut and whoever gives up when.      *)
(***************************************************************************)
EXTENDS PopStream, PopParserProofs, SequenceTheorems

(* The cursor may only lie behind a buffer that an invalid response took   *)
(* away; decode is sure to slice the buffer then (and panics) before       *)
(* ensure_capacity would compute a negative number of free bytes.          *)
CursorInBuffer ==
  cursor <= Len(inner) \/ (decode_needs <= cursor /\ pc \notin {"ensure", "read"})

TypeInv == TypeOK /\ CursorInBuffer /\ RequestKnown

----------------------------------------------------------------------------
(* A zeroed buffer has the length it was asked for. *)
LEMMA ZeroedType ==
  ASSUME NEW n \in Nat
  PROVE  zeroed(n) \in Seq(Unit) /\ Len(zeroed(n)) = n
  BY DEF zeroed, NUL, Unit, Token

(* A reply on the wire has the bytes the server wrote. *)
LEMMA ReplyType ==
  ASSUME NEW id \in Nat, NEW r \in Seq(Token)
  PROVE  ReplyTo(id, r) \in Seq(Unit)
  <1>1. DOMAIN r = 1 .. Len(r) /\ Len(r) \in Nat
    OBVIOUS
  <1>2. \A i \in 1 .. Len(r) : [tok |-> r[i], id |-> id] \in Unit
    BY <1>1 DEF Unit
  <1> QED
    BY <1>1, <1>2 DEF ReplyTo

(* The buffer grows by whole bytes and at least as much as asked for. *)
LEMMA RoundUp ==
  ASSUME NEW n \in Nat
  PROVE  round_up(n) \in Nat /\ round_up(n) >= n
  <1>1. n % Chunk \in 0 .. Chunk - 1
    BY SizeAssumption
  <1> QED
    BY <1>1, SizeAssumption DEF round_up

(* What decode reads at its slice is a command and bytes, and a reply it   *)
(* finds lies in front of the cursor.                                      *)
LEMMA ReceivedType ==
  ASSUME TypeInv, cursor <= Len(inner), queue # <<>>
  PROVE  /\ Received \in Seq(Token) /\ Len(Received) = cursor
         /\ current \in Command
         /\ Parsed.tag = "done" => Parsed.used \in 1 .. cursor
  <1>1. Received \in Seq(Token) /\ Len(Received) = cursor
    <2>1. inner \in Seq(Unit) /\ cursor \in Nat
      BY SizeAssumption DEF TypeInv, TypeOK
    <2>2. \A i \in 1 .. cursor : inner[i] \in Unit
      BY <2>1
    <2>3. \A i \in 1 .. cursor : inner[i].tok \in Token
      BY <2>2 DEF Unit
    <2> QED
      BY <2>1, <2>3 DEF Received
  <1>2. current \in Command
    <2>1. queue \in Seq(Entry)
      BY DEF TypeInv, TypeOK
    <2>2. Head(queue) \in Entry
      BY <2>1, HeadTailProperties
    <2> QED
      BY <2>2 DEF current, Entry
  <1>3. Extends(Received, Received)
    BY <1>1 DEF Extends
  <1>4. Parsed.tag = "done" => Parsed.used \in 1 .. cursor
    BY <1>1, <1>2, <1>3, ParseStable DEF Parsed
  <1> QED
    BY <1>1, <1>2, <1>4

LEMMA ParsedType ==
  ASSUME TypeInv, Decodes
  PROVE  /\ Received \in Seq(Token) /\ Len(Received) = cursor
         /\ current \in Command /\ queue # <<>>
         /\ Parsed.tag = "done" => Parsed.used \in 1 .. cursor
  <1>1. cursor <= Len(inner) /\ queue # <<>>
    BY DEF TypeInv, RequestKnown, Decodes
  <1> QED
    BY <1>1, ReceivedType

----------------------------------------------------------------------------
Outcomes == {"none", "reply", "server_error", "invalid", "too_large", "io", "panic", "dropped"}

(* An outcome of the current call is one. *)
LEMMA OutcomeType ==
  ASSUME TypeOK, NEW k \in Outcomes, NEW from \in SUBSET Nat, NEW n \in Nat
  PROVE  /\ Outcome(k, from) \in [kind : Outcomes, call : Nat, from : SUBSET Nat]
         /\ [kind |-> k, call |-> n, from |-> from] \in [kind : Outcomes, call : Nat, from : SUBSET Nat]
  <1>1. sent \in Nat
    BY SizeAssumption DEF TypeOK
  <1> QED
    BY <1>1 DEF Outcome

(* PopStream::new: an empty buffer of CHUNK_SIZE.                          *)
LEMMA InitTyped == Init => TypeInv
  <1> SUFFICES ASSUME Init PROVE TypeInv
    OBVIOUS
  <1>1. inner \in Seq(Unit) /\ Len(inner) = Chunk
    BY ZeroedType, SizeAssumption DEF Init
  <1>2. /\ cursor \in 0 .. MaxSize /\ decode_needs \in Nat /\ sent \in 0 .. MaxSent
        /\ Len(inner) \in Chunk .. MaxSize
    BY <1>1, SizeAssumption DEF Init
  <1>3. result \in [kind : Outcomes, call : Nat, from : SUBSET Nat]
    BY DEF Init, Outcomes
  <1> QED
    BY <1>1, <1>2, <1>3 DEF Init, TypeInv, TypeOK, CursorInBuffer, RequestKnown, Outcomes

(* encode keeps the types, and leaves a command in the queue for decode.   *)
LEMMA CallTyped == TypeInv /\ Call => TypeInv'
  <1> SUFFICES ASSUME TypeInv, Call PROVE TypeInv'
    OBVIOUS
  <1> USE DEF TypeInv, TypeOK, CursorInBuffer, RequestKnown
  <1>1. ASSUME NEW c \in DOMAIN Replies, NEW r \in Replies[c], SendRequest(c, r)
        PROVE  TypeInv'
    <2>1. sent' \in 0 .. MaxSent /\ sent' \in Nat
      BY <1>1, SizeAssumption DEF SendRequest
    <2>2. queue' \in Seq(Entry) /\ queue' # <<>>
      <3>1. [cmd |-> c, id |-> sent'] \in Entry
        BY <2>1, EnvironmentAssumption DEF Entry
      <3>2. queue \in Seq(Entry) /\ queue' = Append(queue, [cmd |-> c, id |-> sent'])
        BY <1>1 DEF SendRequest, add
      <3> HIDE DEF TypeInv, TypeOK
      <3> QED
        BY <3>1, <3>2
    <2>3. wire' \in Seq(Unit)
      <3>1. ReplyTo(sent', r) \in Seq(Unit)
        BY <2>1, EnvironmentAssumption, ReplyType
      <3> QED
        BY <1>1, <3>1, ConcatProperties DEF SendRequest
    <2> QED
      BY <1>1, <2>1, <2>2, <2>3 DEF SendRequest, buffer
  <1>2. ASSUME NEW c \in DOMAIN Replies, NEW r \in Replies[c], SendDropped(c, r)
        PROVE  TypeInv'
    <2>1. sent' \in 0 .. MaxSent /\ sent' \in Nat
      BY <1>2, SizeAssumption DEF SendDropped
    <2>2. wire' \in Seq(Unit)
      <3>1. ReplyTo(sent', r) \in Seq(Unit)
        BY <2>1, EnvironmentAssumption, ReplyType
      <3> QED
        BY <1>2, <3>1, ConcatProperties DEF SendDropped
    <2>3. result' \in [kind : Outcomes, call : Nat, from : SUBSET Nat]
      BY <1>2, <2>1 DEF SendDropped, Outcomes
    <2> QED
      BY <1>2, <2>1, <2>2, <2>3 DEF SendDropped, buffer, Outcomes
  <1>3. CASE SendFails
    <2>1. sent' \in 0 .. MaxSent /\ sent' \in Nat
      BY <1>3, SizeAssumption DEF SendFails
    <2>2. result' \in [kind : Outcomes, call : Nat, from : SUBSET Nat]
      BY <1>3, <2>1 DEF SendFails, Outcomes
    <2> QED
      BY <1>3, <2>1, <2>2 DEF SendFails, buffer, Outcomes
  <1> QED
    BY <1>1, <1>2, <1>3 DEF Call

(* What is left behind a reply fits where it is put. *)
LEMMA RemainingType ==
  ASSUME TypeInv, Decodes, Parsed.tag = "done"
  PROVE  /\ remaining \in Seq(Unit)
         /\ Len(remaining) = cursor - Parsed.used /\ Len(remaining) \in Nat
         /\ {inner[i].id : i \in 1 .. Parsed.used} \in SUBSET Nat
  <1>1. inner \in Seq(Unit) /\ cursor \in Nat /\ cursor <= Len(inner)
    BY SizeAssumption DEF TypeInv, TypeOK, Decodes
  <1>2. Parsed.used \in 1 .. cursor
    BY ParsedType
  <1>3. \A i \in 1 .. cursor : inner[i] \in Unit
    BY <1>1
  <1>4. remaining \in Seq(Unit) /\ Len(remaining) = IF Parsed.used + 1 <= cursor THEN cursor - Parsed.used ELSE 0
    <2>1. \A i \in Parsed.used + 1 .. cursor : inner[i] \in Unit
      BY <1>1, <1>2, <1>3
    <2>2. Parsed.used + 1 \in Int /\ cursor \in Int /\ cursor - (Parsed.used + 1) + 1 = cursor - Parsed.used
      BY <1>1, <1>2
    <2> QED
      BY <2>1, <2>2, SubSeqProperties DEF remaining
  <1>5. {inner[i].id : i \in 1 .. Parsed.used} \in SUBSET Nat
    BY <1>1, <1>2, <1>3 DEF Unit
  <1> QED
    BY <1>1, <1>2, <1>4, <1>5

(* decode keeps the types: reset_with and err! leave a whole buffer.       *)
LEMMA DecodeTyped == TypeInv /\ Decode => TypeInv'
  <1> SUFFICES ASSUME TypeInv, Decode PROVE TypeInv'
    OBVIOUS
  <1>1. CASE DecodeWaits
    <2>1. cursor' <= Len(inner')
      BY <1>1, SizeAssumption DEF TypeInv, TypeOK, CursorInBuffer, DecodeWaits, buffer
    <2> QED
      BY <1>1 DEF TypeInv, TypeOK, CursorInBuffer, RequestKnown, DecodeWaits, buffer
  <1>2. CASE DecodeDone
    <2>1. Decodes /\ Parsed.tag = "done" /\ Len(remaining) <= Chunk
      BY <1>2 DEF DecodeDone
    <2>2. zeroed(Chunk - Len(remaining)) \in Seq(Unit)
          /\ Len(zeroed(Chunk - Len(remaining))) = Chunk - Len(remaining)
      BY <2>1, RemainingType, ZeroedType, SizeAssumption
    <2>3. inner' \in Seq(Unit) /\ Len(inner') = Chunk
      <3>1. inner' = remaining \o zeroed(Chunk - Len(remaining))
        BY <1>2 DEF DecodeDone, reset_with
      <3>2. remaining \in Seq(Unit) /\ Len(remaining) \in Nat
        BY <2>1, RemainingType
      <3>3. /\ remaining \o zeroed(Chunk - Len(remaining)) \in Seq(Unit)
            /\ Len(remaining \o zeroed(Chunk - Len(remaining)))
                 = Len(remaining) + Len(zeroed(Chunk - Len(remaining)))
        BY <2>2, <3>2, ConcatProperties
      <3> QED
        BY <2>2, <3>1, <3>2, <3>3, SizeAssumption
    <2>4. cursor' \in 0 .. MaxSize /\ cursor' <= Chunk
      BY <1>2, <2>1, RemainingType, SizeAssumption DEF DecodeDone, reset_with
    <2>5. queue' \in Seq(Entry)
      BY <1>2, <2>1, HeadTailProperties, ParsedType DEF DecodeDone, mark_current_as_done, TypeInv, TypeOK
    <2>6. result' \in [kind : Outcomes, call : Nat, from : SUBSET Nat]
      <3>1. PICK k \in Outcomes : result' = Outcome(k, {inner[i].id : i \in 1 .. Parsed.used})
        BY <1>2 DEF DecodeDone, Outcomes
      <3> QED
        BY <2>1, <3>1, RemainingType, OutcomeType DEF TypeInv
    <2>7. Len(inner') \in Chunk .. MaxSize /\ cursor' <= Len(inner')
      BY <2>3, <2>4, SizeAssumption
    <2>8. pc' = "idle" /\ decode_needs' = decode_needs
          /\ wire' = wire /\ conn' = conn /\ sent' = sent /\ session' = session
      BY <1>2 DEF DecodeDone, NeedsAfterReply
    <2>9. CursorInBuffer' /\ RequestKnown'
      BY <2>7, <2>8 DEF CursorInBuffer, RequestKnown
    <2> QED
      BY <2>3, <2>4, <2>5, <2>6, <2>7, <2>8, <2>9 DEF TypeInv, TypeOK, Outcomes
  <1>3. CASE DecodeIncomplete
    <2>1. Parsed.need \in Nat
      <3>1. Received \in Seq(Token) /\ current \in Command
        BY <1>3, ParsedType DEF DecodeIncomplete
      <3> QED
        BY <3>1, NeedType DEF Parsed
    <2>2. decode_needs' \in Nat
      BY <1>3, <2>1, SizeAssumption DEF DecodeIncomplete, NeedsAfterIncomplete, TypeInv, TypeOK
    <2> QED
      BY <1>3, <2>2 DEF TypeInv, TypeOK, CursorInBuffer, RequestKnown, DecodeIncomplete, Decodes, buffer
  <1>4. CASE DecodeInvalid
    <2>1. inner' \in Seq(Unit) /\ Len(inner') = Chunk
      BY <1>4, ZeroedType, SizeAssumption DEF DecodeInvalid, BufferAfterInvalid
    <2>2. result' \in [kind : Outcomes, call : Nat, from : SUBSET Nat]
      BY <1>4, OutcomeType DEF DecodeInvalid, Outcomes, TypeInv
    <2>3. decode_needs' <= cursor'
      BY <1>4 DEF DecodeInvalid, Decodes
    <2> QED
      BY <1>4, <2>1, <2>2, <2>3, SizeAssumption
         DEF DecodeInvalid, TypeInv, TypeOK, CursorInBuffer, RequestKnown, Outcomes
  <1>5. CASE DecodePanics
    <2>1. result' \in [kind : Outcomes, call : Nat, from : SUBSET Nat]
      BY <1>5, OutcomeType DEF DecodePanics, Outcomes, TypeInv
    <2> QED
      BY <1>5, <2>1 DEF DecodePanics, TypeInv, TypeOK, CursorInBuffer, RequestKnown, Outcomes, buffer
  <1> QED
    BY <1>1, <1>2, <1>3, <1>4, <1>5 DEF Decode

(* ensure_capacity keeps the types: grow stays below MAX_SIZE.             *)
LEMMA EnsureTyped == TypeInv /\ EnsureCapacity => TypeInv'
  <1> SUFFICES ASSUME TypeInv, EnsureCapacity PROVE TypeInv'
    OBVIOUS
  <1>1. CASE HasCapacity
    BY <1>1 DEF HasCapacity, TypeInv, TypeOK, CursorInBuffer, RequestKnown, buffer
  <1>2. CASE Grow
    <2>1. Len(inner) \in Nat /\ increase \in Nat /\ decode_needs \in Nat
      BY SizeAssumption DEF TypeInv, TypeOK, increase, extra_bytes_needed
    <2>2. new_size \in Nat /\ new_size >= Len(inner) /\ new_size <= MaxSize
      BY <1>2, <2>1, RoundUp DEF Grow, new_size
    <2>3. inner' \in Seq(Unit) /\ Len(inner') = new_size
      <3>1. /\ zeroed(new_size - Len(inner)) \in Seq(Unit)
            /\ Len(zeroed(new_size - Len(inner))) = new_size - Len(inner)
        <4>1. new_size - Len(inner) \in Nat
          BY <2>1, <2>2
        <4> QED
          BY <4>1, ZeroedType
      <3>2. inner \in Seq(Unit)
        BY DEF TypeInv, TypeOK
      <3> QED
        BY <1>2, <2>1, <2>2, <3>1, <3>2, ConcatProperties DEF Grow
    <2>4. Len(inner') \in Chunk .. MaxSize /\ cursor' <= Len(inner')
      BY <1>2, <2>1, <2>2, <2>3, SizeAssumption DEF Grow, TypeInv, TypeOK, CursorInBuffer
    <2> QED
      BY <1>2, <2>3, <2>4 DEF Grow, TypeInv, TypeOK, CursorInBuffer, RequestKnown
  <1>3. CASE RefuseTooLarge
    <2>1. result' \in [kind : Outcomes, call : Nat, from : SUBSET Nat]
      BY <1>3, OutcomeType DEF RefuseTooLarge, Outcomes, TypeInv
    <2> QED
      BY <1>3, <2>1 DEF RefuseTooLarge, TypeInv, TypeOK, CursorInBuffer, RequestKnown, Outcomes, buffer
  <1> QED
    BY <1>1, <1>2, <1>3 DEF EnsureCapacity

(* A read keeps the cursor inside of the buffer.                           *)
LEMMA ReadTyped == TypeInv /\ Read => TypeInv'
  <1> SUFFICES ASSUME TypeInv, Read PROVE TypeInv'
    OBVIOUS
  <1>1. CASE PollReadNothing
    BY <1>1 DEF PollReadNothing, TypeInv, TypeOK, CursorInBuffer, RequestKnown, buffer
  <1>2. CASE PollReadFails
    <2>1. result' \in [kind : Outcomes, call : Nat, from : SUBSET Nat]
      BY <1>2, OutcomeType DEF PollReadFails, Outcomes, TypeInv
    <2> QED
      BY <1>2, <2>1 DEF PollReadFails, TypeInv, TypeOK, CursorInBuffer, RequestKnown, Outcomes, buffer
  <1>3. ASSUME NEW n \in 1 .. Len(wire), PollRead(n)
        PROVE  TypeInv'
    <2>1. /\ inner \in Seq(Unit) /\ wire \in Seq(Unit) /\ cursor \in Nat /\ Len(inner) \in Nat
          /\ n \in Nat /\ n <= Len(wire) /\ cursor + n <= Len(inner) /\ Len(inner) <= MaxSize
      BY <1>3, SizeAssumption DEF PollRead, free_bytes, TypeInv, TypeOK
    <2>2. inner' \in Seq(Unit) /\ Len(inner') = Len(inner)
      <3>1. DOMAIN inner = 1 .. Len(inner)
        BY <2>1
      <3>2. ASSUME NEW i \in 1 .. Len(inner)
            PROVE  (IF i \in cursor + 1 .. cursor + n THEN wire[i - cursor] ELSE inner[i]) \in Unit
        BY <2>1
      <3> QED
        BY <1>3, <2>1, <3>1, <3>2 DEF PollRead, Filled
    <2>3. wire' \in Seq(Unit)
      <3>1. \A i \in n + 1 .. Len(wire) : wire[i] \in Unit
        BY <2>1
      <3> QED
        BY <1>3, <2>1, <3>1, SubSeqProperties DEF PollRead
    <2>4. cursor' \in 0 .. MaxSize /\ cursor' <= Len(inner')
      BY <1>3, <2>1, <2>2, SizeAssumption DEF PollRead
    <2> QED
      BY <1>3, <2>2, <2>3, <2>4 DEF PollRead, TypeInv, TypeOK, CursorInBuffer, RequestKnown
  <1> QED
    BY <1>1, <1>2, <1>3 DEF Read

(* Callers that give up and the server keep the types.                     *)
LEMMA OthersTyped == TypeInv /\ (DropFuture \/ CloseByServer \/ ResetByPeer) => TypeInv'
  <1>1. TypeInv /\ DropFuture => TypeInv'
    <2> SUFFICES ASSUME TypeInv, DropFuture PROVE TypeInv'
      OBVIOUS
    <2>1. result' \in [kind : Outcomes, call : Nat, from : SUBSET Nat]
      BY OutcomeType DEF DropFuture, Outcomes, TypeInv
    <2> QED
      BY <2>1 DEF DropFuture, TypeInv, TypeOK, CursorInBuffer, RequestKnown, Outcomes, buffer
  <1>2. TypeInv /\ CloseByServer => TypeInv'
    <2> SUFFICES ASSUME TypeInv, CloseByServer PROVE TypeInv'
      OBVIOUS
    <2>1. PICK n \in 0 .. Len(wire) : wire' = SubSeq(wire, 1, n)
      BY DEF CloseByServer
    <2>2. wire \in Seq(Unit) /\ \A i \in 1 .. n : wire[i] \in Unit
      BY <2>1 DEF TypeInv, TypeOK
    <2>3. wire' \in Seq(Unit)
      BY <2>1, <2>2, SubSeqProperties
    <2> QED
      BY <2>3 DEF CloseByServer, TypeInv, TypeOK, CursorInBuffer, RequestKnown, buffer
  <1>3. TypeInv /\ ResetByPeer => TypeInv'
    BY DEF ResetByPeer, TypeInv, TypeOK, CursorInBuffer, RequestKnown, buffer
  <1> QED
    BY <1>1, <1>2, <1>3

(* The types, with the cursor inside of a buffer that was not lost.        *)
LEMMA TypeInvariant == Spec => []TypeInv
  <1>1. TypeInv /\ [Next]_vars => TypeInv'
    <2>1. TypeInv /\ Next => TypeInv'
      BY CallTyped, DecodeTyped, EnsureTyped, ReadTyped, OthersTyped DEF Next
    <2>2. TypeInv /\ UNCHANGED vars => TypeInv'
      BY DEF vars, buffer, TypeInv, TypeOK, CursorInBuffer, RequestKnown
    <2> QED
      BY <2>1, <2>2
  <1> QED
    BY InitTyped, <1>1, PTL DEF Spec

(* Every variable keeps its type; the capacity stays between CHUNK_SIZE    *)
(* and MAX_SIZE and the cursor below MAX_SIZE.                             *)
THEOREM StreamTyped == Spec => []TypeOK
  BY TypeInvariant, PTL DEF TypeInv

(* decode always knows the command whose reply it decodes.                 *)
THEOREM StreamRequestKnown == Spec => []RequestKnown
  BY TypeInvariant, PTL DEF TypeInv

----------------------------------------------------------------------------
(* What a call waits for.  NeedInv is inductive: between decode and the    *)
(* read the need is the one that decode would find now.                    *)
NeedInv ==
  /\ TypeInv
  /\ pc \in {"ensure", "read"} => NeedIsCurrent
  /\ RepollStutters

(* The need depends on the buffer up to the cursor and on the command only. *)
LEMMA SameNeed ==
  ASSUME cursor' = cursor, Received' = Received, current' = current,
         decode_needs' = decode_needs, NeedIsCurrent
  PROVE  NeedIsCurrent'
  BY DEF NeedIsCurrent, Parsed, NeedsAfterIncomplete

(* Capacity behind the cursor is not looked at. *)
LEMMA GrowKeepsReceived ==
  ASSUME TypeInv, Grow
  PROVE  /\ Received' = Received /\ current' = current
         /\ Len(inner') = new_size
         /\ new_size >= Len(inner) + increase
         /\ \A i \in 1 .. Len(inner) : inner'[i] = inner[i]
         /\ inner \in Seq(Unit) /\ Len(inner) \in Nat /\ new_size \in Nat /\ cursor <= Len(inner)
  <1>1. /\ Len(inner) \in Nat /\ increase \in Nat /\ inner \in Seq(Unit) /\ decode_needs \in Nat
        /\ cursor \in Nat /\ cursor <= Len(inner)
    BY SizeAssumption DEF TypeInv, TypeOK, CursorInBuffer, increase, extra_bytes_needed, Grow
  <1>2. new_size \in Nat /\ new_size >= Len(inner) + increase
    <2>1. Len(inner) + increase \in Nat
      BY <1>1
    <2> QED
      BY <2>1, RoundUp DEF new_size
  <1>3. /\ zeroed(new_size - Len(inner)) \in Seq(Unit)
        /\ Len(zeroed(new_size - Len(inner))) = new_size - Len(inner)
    <2>1. new_size - Len(inner) \in Nat
      BY <1>1, <1>2
    <2> QED
      BY <2>1, ZeroedType
  <1>4. Len(inner') = new_size /\ \A i \in 1 .. Len(inner) : inner'[i] = inner[i]
    BY <1>1, <1>2, <1>3, ConcatProperties DEF Grow
  <1>5. cursor' = cursor /\ queue' = queue
    BY DEF Grow
  <1>6. Received' = Received
    <2>1. \A i \in 1 .. cursor : inner'[i].tok = inner[i].tok
      BY <1>1, <1>4
    <2> QED
      BY <1>5, <2>1 DEF Received
  <1> QED
    BY <1>1, <1>2, <1>4, <1>5, <1>6 DEF current

(* One step keeps the need current, the capacity sufficient.               *)
LEMMA NeedStep == NeedInv /\ TypeInv' /\ [Next]_vars => NeedInv'
  <1> SUFFICES ASSUME NeedInv, TypeInv', [Next]_vars, pc' \in {"ensure", "read"}
               PROVE  NeedIsCurrent' /\ (pc' = "read" => ~NeedsGrowth')
    BY DEF NeedInv, RepollStutters
  <1>1. CASE DecodeWaits
    BY <1>1 DEF DecodeWaits, NeedIsCurrent, buffer
  <1>2. CASE DecodeIncomplete
    <2>1. Parsed' = Parsed /\ NeedsAfterIncomplete' = NeedsAfterIncomplete
      BY <1>2 DEF DecodeIncomplete, Parsed, Received, current, NeedsAfterIncomplete, buffer
    <2> QED
      BY <1>2, <2>1 DEF DecodeIncomplete, NeedIsCurrent
  <1>3. CASE HasCapacity
    <2>1. Received' = Received /\ current' = current /\ NeedsGrowth' = NeedsGrowth
      BY <1>3 DEF HasCapacity, Received, current, NeedsGrowth, free_bytes, extra_bytes_needed, buffer
    <2>2. NeedIsCurrent'
      BY <1>3, <2>1, SameNeed DEF HasCapacity, NeedInv, buffer
    <2> QED
      BY <1>3, <2>1, <2>2 DEF HasCapacity
  <1>4. CASE Grow
    <2>1. NeedIsCurrent'
      BY <1>4, GrowKeepsReceived, SameNeed DEF Grow, NeedInv
    <2>2. Len(inner') > Len(inner) /\ decode_needs <= Len(inner')
      <3>1. increase \in Nat /\ increase >= 1 /\ increase >= extra_bytes_needed
        BY SizeAssumption DEF NeedInv, TypeInv, TypeOK, increase, extra_bytes_needed
      <3>2. decode_needs \in Nat /\ Len(inner) \in Nat /\ Len(inner) + extra_bytes_needed >= decode_needs
        BY DEF NeedInv, TypeInv, TypeOK, extra_bytes_needed
      <3> QED
        BY <1>4, <3>1, <3>2, GrowKeepsReceived DEF NeedInv, extra_bytes_needed
    <2>3. ~NeedsGrowth'
      <3>1. cursor' = cursor /\ decode_needs' = decode_needs /\ cursor <= Len(inner)
            /\ cursor \in Nat /\ decode_needs \in Nat /\ Len(inner) \in Nat /\ Len(inner') \in Nat
        BY <1>4, GrowKeepsReceived, SizeAssumption DEF Grow, NeedInv, TypeInv, TypeOK
      <3> QED
        BY <2>2, <3>1 DEF NeedsGrowth, free_bytes, extra_bytes_needed
    <2> QED
      BY <2>1, <2>3
  <1>5. CASE CloseByServer \/ ResetByPeer \/ UNCHANGED vars
    <2>1. pc' = pc /\ cursor' = cursor /\ inner' = inner /\ queue' = queue /\ decode_needs' = decode_needs
      BY <1>5 DEF CloseByServer, ResetByPeer, vars, buffer
    <2>2. Received' = Received /\ current' = current /\ NeedsGrowth' = NeedsGrowth
      BY <2>1 DEF Received, current, NeedsGrowth, free_bytes, extra_bytes_needed
    <2>3. NeedIsCurrent'
      BY <2>1, <2>2, SameNeed DEF NeedInv
    <2> QED
      BY <2>1, <2>2, <2>3 DEF NeedInv, RepollStutters
  <1>6. CASE Call
    BY <1>6 DEF Call, SendRequest, SendDropped, SendFails
  <1>7. CASE DecodeDone \/ DecodeInvalid \/ DecodePanics
    BY <1>7 DEF DecodeDone, DecodeInvalid, DecodePanics
  <1>8. CASE RefuseTooLarge \/ Read \/ DropFuture
    BY <1>8 DEF RefuseTooLarge, Read, PollReadNothing, PollReadFails, PollRead, DropFuture
  <1> QED
    BY <1>1, <1>2, <1>3, <1>4, <1>5, <1>6, <1>7, <1>8 DEF Next, Decode, EnsureCapacity

(* The need of a pending call is always current.                           *)
LEMMA NeedInvariant == Spec => []NeedInv
  <1>1. Init => NeedInv
    BY InitTyped DEF Init, NeedInv, RepollStutters
  <1> QED
    BY <1>1, TypeInvariant, NeedStep, PTL DEF Spec

(* A future that is polled once more while its read is pending goes        *)
(* through decode and ensure_capacity without an effect, and reads into a  *)
(* buffer that has room.                                                   *)
THEOREM StreamRepoll == Spec => []RepollStutters
  BY NeedInvariant, PTL DEF NeedInv

----------------------------------------------------------------------------
(* Why a failed session stays one.  After an invalid response the buffer   *)
(* starts with a zero byte, or ends in front of the cursor; after one that *)
(* was too large the oldest command, the bytes and the need are all as     *)
(* they were when the buffer could not grow.                               *)
Failed == session \in {"invalid", "too_large"}

ZeroInFront == cursor >= 1 /\ (cursor > Len(inner) \/ inner[1].tok = "NUL")

Refused ==
  /\ queue # <<>>
  /\ cursor <= Len(inner)
  /\ NeedsGrowth
  /\ new_size > MaxSize
  /\ NeedIsCurrent

FailInv == NeedInv /\ (Failed => ZeroInFront \/ Refused)

(* With the same buffer and need, the same oldest command and no reply to  *)
(* wait for, a session is still failed.                                    *)
LEMMA SameFailure ==
  ASSUME inner' = inner, cursor' = cursor, decode_needs' = decode_needs,
         queue # <<>> => queue' # <<>> /\ Head(queue') = Head(queue),
         ZeroInFront \/ Refused
  PROVE  (ZeroInFront \/ Refused)'
  <1>1. CASE ZeroInFront
    BY <1>1 DEF ZeroInFront
  <1>2. CASE Refused
    <2>1. queue # <<>> /\ queue' # <<>> /\ current' = current
      BY <1>2 DEF Refused, current
    <2>2. Received' = Received
      BY DEF Received
    <2>3. NeedIsCurrent'
      BY <1>2, <2>1, <2>2, SameNeed DEF Refused
    <2>4. NeedsGrowth' = NeedsGrowth /\ new_size' = new_size
      BY DEF NeedsGrowth, free_bytes, extra_bytes_needed, new_size, increase, round_up
    <2> QED
      BY <1>2, <2>1, <2>3, <2>4 DEF Refused
  <1> QED
    BY <1>1, <1>2

(* decode finds no reply in the buffer of a failed session. *)
LEMMA FailedFindsNothing ==
  ASSUME FailInv, Failed, Decodes
  PROVE  /\ Parsed.tag # "done"
         /\ ZeroInFront => Parsed.tag = "reject"
         /\ Refused => Parsed.tag = "incomplete" /\ decode_needs = NeedsAfterIncomplete
  <1>1. TypeInv /\ cursor \in Nat /\ decode_needs \in Nat /\ cursor >= decode_needs /\ cursor <= Len(inner)
    BY SizeAssumption DEF FailInv, NeedInv, TypeInv, TypeOK, Decodes
  <1>2. ASSUME ZeroInFront
        PROVE  Parsed.tag = "reject"
    <2>1. inner[1].tok = "NUL" /\ cursor >= 1
      BY <1>1, <1>2 DEF ZeroInFront, TypeInv, TypeOK
    <2>2. Received # <<>> /\ Received[1] = "NUL"
      BY <1>1, <2>1, ParsedType DEF Received
    <2> QED
      BY <1>1, <2>2, ParsedType, ZeroRejected DEF Parsed
  <1>3. ASSUME Refused
        PROVE  Parsed.tag = "incomplete" /\ decode_needs = NeedsAfterIncomplete
    BY <1>1, <1>3 DEF Refused, NeedIsCurrent
  <1> QED
    BY <1>2, <1>3 DEF FailInv

(* A new call does not repair a failed session: it queues behind.          *)
LEMMA FailCallStep ==
  ASSUME FailInv, Call, Failed'
  PROVE  (ZeroInFront \/ Refused)'
  <1>1. Failed
    BY DEF Call, SendRequest, SendDropped, SendFails, Failed
  <1>2. inner' = inner /\ cursor' = cursor /\ decode_needs' = decode_needs
    BY DEF Call, SendRequest, SendDropped, SendFails, buffer
  <1>3. queue # <<>> => queue' # <<>> /\ Head(queue') = Head(queue)
    <2>1. ASSUME NEW c, NEW r, SendRequest(c, r), queue # <<>>
          PROVE  queue' # <<>> /\ Head(queue') = Head(queue)
      <3>1. queue \in Seq(Entry) /\ Len(queue) \in Nat /\ Len(queue) >= 1
        BY <2>1 DEF FailInv, NeedInv, TypeInv, TypeOK
      <3>2. queue' = Append(queue, [cmd |-> c, id |-> sent'])
        BY <2>1 DEF SendRequest, add
      <3> QED
        BY <3>1, <3>2
    <2>2. ASSUME queue' = queue, queue # <<>>
          PROVE  queue' # <<>> /\ Head(queue') = Head(queue)
      BY <2>2
    <2> QED
      BY <2>1, <2>2 DEF Call, SendDropped, SendFails
  <1> QED
    BY <1>1, <1>2, <1>3, SameFailure DEF FailInv

(* decode finds no reply in a failed session, and loses the buffer again.  *)
LEMMA FailDecodeStep ==
  ASSUME FailInv, Decode, Failed'
  PROVE  (ZeroInFront \/ Refused)'
  <1>1. CASE DecodeWaits \/ DecodePanics
    <2>1. Failed /\ inner' = inner /\ cursor' = cursor /\ decode_needs' = decode_needs /\ queue' = queue
      BY <1>1 DEF DecodeWaits, DecodePanics, Failed, buffer
    <2> QED
      BY <2>1, SameFailure DEF FailInv
  <1>2. CASE DecodeDone
    BY <1>2, FailedFindsNothing DEF DecodeDone, Failed
  <1>3. CASE DecodeIncomplete
    <2>1. Failed /\ Decodes /\ Parsed.tag = "incomplete"
      BY <1>3 DEF DecodeIncomplete, Failed
    <2>2. Refused /\ decode_needs = NeedsAfterIncomplete
      BY <2>1, FailedFindsNothing DEF FailInv
    <2>3. inner' = inner /\ cursor' = cursor /\ decode_needs' = decode_needs /\ queue' = queue
      BY <1>3, <2>2 DEF DecodeIncomplete, buffer
    <2> QED
      BY <2>2, <2>3, SameFailure
  <1>4. CASE DecodeInvalid
    <2>1. Decodes /\ Parsed.tag = "reject" /\ cursor' = cursor /\ inner' = zeroed(Chunk)
      BY <1>4 DEF DecodeInvalid, BufferAfterInvalid
    <2>2. cursor \in Nat /\ Received \in Seq(Token) /\ Len(Received) = cursor /\ current \in Command
      BY <2>1, ParsedType, SizeAssumption DEF FailInv, NeedInv, TypeInv, TypeOK
    <2>3. Received # <<>>
      BY <2>1, <2>2, ParseBranches DEF Parsed
    <2>4. cursor >= 1
      BY <2>2, <2>3
    <2>5. inner'[1].tok = "NUL"
      BY <2>1, SizeAssumption DEF zeroed, NUL
    <2> QED
      BY <2>1, <2>4, <2>5 DEF ZeroInFront
  <1> QED
    BY <1>1, <1>2, <1>3, <1>4 DEF Decode

(* The buffer that could not grow cannot grow for the next call either.    *)
LEMMA FailEnsureStep ==
  ASSUME FailInv, EnsureCapacity, Failed'
  PROVE  (ZeroInFront \/ Refused)'
  <1>1. CASE HasCapacity
    <2>1. Failed /\ inner' = inner /\ cursor' = cursor /\ decode_needs' = decode_needs /\ queue' = queue
      BY <1>1 DEF HasCapacity, Failed, buffer
    <2> QED
      BY <2>1, SameFailure DEF FailInv
  <1>2. CASE Grow
    <2>1. Failed /\ cursor' = cursor /\ ~Refused
      <3>1. new_size \in Nat /\ MaxSize \in Nat
        BY <1>2, GrowKeepsReceived, SizeAssumption DEF FailInv, NeedInv
      <3>2. ~(new_size > MaxSize)
        BY <1>2, <3>1 DEF Grow
      <3> QED
        BY <1>2, <3>2 DEF Grow, Failed, Refused
    <2>2. cursor >= 1 /\ cursor <= Len(inner) /\ inner[1].tok = "NUL"
      BY <1>2, <2>1, GrowKeepsReceived, SizeAssumption
         DEF FailInv, NeedInv, TypeInv, TypeOK, ZeroInFront
    <2>3. inner'[1] = inner[1]
      BY <1>2, <2>2, GrowKeepsReceived, SizeAssumption DEF FailInv, NeedInv, TypeInv, TypeOK
    <2> QED
      BY <2>1, <2>2, <2>3 DEF ZeroInFront
  <1>3. CASE RefuseTooLarge
    <2>1. Refused
      BY <1>3 DEF RefuseTooLarge, FailInv, NeedInv, TypeInv, RequestKnown, CursorInBuffer, Refused
    <2>2. inner' = inner /\ cursor' = cursor /\ decode_needs' = decode_needs /\ queue' = queue
      BY <1>3 DEF RefuseTooLarge, buffer
    <2> QED
      BY <2>1, <2>2, SameFailure
  <1> QED
    BY <1>1, <1>2, <1>3 DEF EnsureCapacity

(* Bytes read behind a zero byte leave the zero byte in front.             *)
LEMMA FailOtherStep ==
  ASSUME FailInv, Read \/ DropFuture \/ CloseByServer \/ ResetByPeer \/ UNCHANGED vars, Failed'
  PROVE  (ZeroInFront \/ Refused)'
  <1>1. ASSUME NEW n \in 1 .. Len(wire), PollRead(n)
        PROVE  ZeroInFront'
    <2>1. Failed /\ ~Refused /\ cursor <= Len(inner)
      BY <1>1 DEF PollRead, Failed, Refused, FailInv, NeedInv, RepollStutters, TypeInv, CursorInBuffer
    <2>2. cursor \in Nat /\ Len(inner) \in Nat /\ n \in Nat /\ cursor >= 1 /\ inner[1].tok = "NUL"
      BY <2>1, SizeAssumption DEF FailInv, NeedInv, TypeInv, TypeOK, ZeroInFront
    <2>3. cursor' >= 1 /\ inner'[1] = inner[1]
      BY <1>1, <2>1, <2>2 DEF PollRead, Filled, FailInv, NeedInv, TypeInv, TypeOK
    <2> QED
      BY <2>2, <2>3 DEF ZeroInFront
  <1>2. CASE PollReadNothing \/ PollReadFails \/ DropFuture \/ CloseByServer \/ ResetByPeer \/ UNCHANGED vars
    <2>1. Failed /\ inner' = inner /\ cursor' = cursor /\ decode_needs' = decode_needs /\ queue' = queue
      BY <1>2 DEF PollReadNothing, PollReadFails, DropFuture, CloseByServer, ResetByPeer, vars, Failed, buffer
    <2> QED
      BY <2>1, SameFailure DEF FailInv
  <1> QED
    BY <1>1, <1>2 DEF Read

(* What a failed session looks like, at every step.                        *)
LEMMA FailInvariant == Spec => []FailInv
  <1>1. Init => FailInv
    BY InitTyped DEF Init, FailInv, NeedInv, RepollStutters, Failed
  <1>2. FailInv /\ NeedInv' /\ [Next]_vars => FailInv'
    BY FailCallStep, FailDecodeStep, FailEnsureStep, FailOtherStep DEF FailInv, Next
  <1> QED
    BY <1>1, <1>2, NeedInvariant, PTL DEF Spec

(* No reply is handed out once a response was invalid or too large: the    *)
(* bytes of the response are never parsed as a part of a later one.        *)
THEOREM StreamFailStop == Spec => FailStop
  <1>1. FailInv /\ [Next]_vars =>
          [(session \in {"invalid", "too_large"} /\ result' # result)
             => result'.kind \notin Delivered]_vars
    <2> SUFFICES ASSUME FailInv, Next, Failed, result' # result
                 PROVE  result'.kind \notin Delivered
      BY DEF Failed
    <2>1. CASE Call
      BY <2>1 DEF Call, SendRequest, SendDropped, SendFails, Delivered
    <2>2. CASE DecodeDone
      BY <2>2, FailedFindsNothing DEF DecodeDone
    <2>3. CASE DecodeWaits \/ DecodeIncomplete \/ DecodeInvalid \/ DecodePanics
      BY <2>3 DEF DecodeWaits, DecodeIncomplete, DecodeInvalid, DecodePanics, Outcome, Delivered
    <2>4. CASE EnsureCapacity
      BY <2>4 DEF EnsureCapacity, HasCapacity, Grow, RefuseTooLarge, Outcome, Delivered
    <2>5. CASE Read \/ DropFuture \/ CloseByServer \/ ResetByPeer
      BY <2>5 DEF Read, PollReadNothing, PollReadFails, PollRead, DropFuture, CloseByServer,
                  ResetByPeer, Outcome, Delivered
    <2> QED
      BY <2>1, <2>2, <2>3, <2>4, <2>5 DEF Next, Decode
  <1> QED
    BY <1>1, FailInvariant, PTL DEF Spec, FailStop
----------------------------------------------------------------------------
(* The buffer has a whole number of chunks, as has MAX_SIZE.               *)
Whole(n) == \E k \in Nat : n = k * Chunk

LEMMA WholeMaxSize == Whole(MaxSize)
  <1>1. /\ MaxSize \div Chunk \in Nat
        /\ MaxSize = Chunk * (MaxSize \div Chunk) + (MaxSize % Chunk)
    BY SizeAssumption
  <1>2. MaxSize = (MaxSize \div Chunk) * Chunk
    BY <1>1, SizeAssumption
  <1> QED
    BY <1>1, <1>2 DEF Whole

(* Two sizes that differ do so by a chunk. *)
LEMMA WholeGap ==
  ASSUME NEW m \in Nat, NEW n \in Nat, Whole(m), Whole(n), m < n
  PROVE  m + Chunk <= n
  <1>1. Chunk \in Nat /\ Chunk > 0
    BY SizeAssumption
  <1>2. PICK j \in Nat : m = j * Chunk
    BY DEF Whole
  <1>3. PICK k \in Nat : n = k * Chunk
    BY DEF Whole
  <1>4. j + 1 <= k
    BY <1>1, <1>2, <1>3
  <1>5. (j + 1) * Chunk <= k * Chunk
    BY <1>1, <1>4
  <1>6. (j + 1) * Chunk = m + Chunk
    BY <1>1, <1>2
  <1> QED
    BY <1>3, <1>5, <1>6

(* grow rounds up to the next whole number of chunks, and no further. *)
LEMMA RoundUpWhole ==
  ASSUME NEW n \in Nat
  PROVE  /\ Whole(round_up(n))
         /\ \A m \in Nat : Whole(m) /\ n <= m => round_up(n) <= m
  <1> DEFINE q == n \div Chunk
             s == n % Chunk
  <1>1. Chunk \in Nat /\ Chunk > 0
    BY SizeAssumption
  <1>2. q \in Nat /\ s \in 0 .. Chunk - 1 /\ n = Chunk * q + s
    BY <1>1
  <1>3. Whole(q * Chunk) /\ Whole((q + 1) * Chunk)
    BY <1>2, q + 1 \in Nat DEF Whole
  <1>4. q * Chunk = n - s /\ (q + 1) * Chunk = n - s + Chunk
    BY <1>1, <1>2
  <1>5. round_up(n) = IF s = 0 THEN n ELSE n + (Chunk - s)
    BY DEF round_up
  <1> HIDE DEF q, s
  <1>6. CASE s = 0
    BY <1>3, <1>4, <1>5, <1>6
  <1>7. CASE s # 0
    <2>1. round_up(n) = n - s + Chunk
      BY <1>1, <1>2, <1>5, <1>7
    <2>2. ASSUME NEW m \in Nat, Whole(m), n <= m PROVE n - s + Chunk <= m
      <3>1. n - s \in Nat /\ n - s < m /\ Whole(n - s)
        BY <1>1, <1>2, <1>3, <1>4, <1>7, <2>2, q * Chunk \in Nat
      <3> QED
        BY <2>2, <3>1, WholeGap
    <2> QED
      BY <1>3, <1>4, <2>1, <2>2
  <1> QED
    BY <1>6, <1>7

(* A need may outlive its reply, but then the buffer has held as many      *)
(* bytes; one that is more than the buffer may hold is the parser's for    *)
(* the bytes that are there.                                               *)
NeedIsParsed == queue # <<>> /\ Parsed.tag = "incomplete" /\ decode_needs = cursor + Parsed.need

CapacityInv ==
  /\ NeedInv
  /\ Whole(Len(inner))
  /\ decode_needs <= MaxSize \/ NeedIsParsed

LEMMA CapacityStep == CapacityInv /\ NeedInv' /\ [Next]_vars => CapacityInv'
  <1> SUFFICES ASSUME CapacityInv, NeedInv', [Next]_vars
               PROVE  (Whole(Len(inner)) /\ (decode_needs <= MaxSize \/ NeedIsParsed))'
    BY DEF CapacityInv
  <1> USE DEF CapacityInv, NeedInv
  <1>0. /\ cursor \in Nat /\ decode_needs \in Nat /\ MaxSize \in Nat /\ Chunk \in Nat \ {0}
        /\ Len(inner) \in Chunk .. MaxSize /\ inner \in Seq(Unit)
    BY SizeAssumption DEF TypeInv, TypeOK
  <1>1. Whole(Chunk)
    BY <1>0, Chunk = 1 * Chunk, 1 \in Nat DEF Whole
  <1>2. CASE UNCHANGED <<inner, cursor, decode_needs>> /\ (queue # <<>> => queue' # <<>> /\ current' = current)
    <2>1. Received' = Received /\ (queue # <<>> => Parsed' = Parsed)
      BY <1>2 DEF Received, Parsed
    <2> QED
      BY <1>2, <2>1 DEF Whole, NeedIsParsed
  <1>3. CASE DecodeDone
    <2>1. remaining \in Seq(Unit) /\ Len(remaining) \in 0 .. Chunk
      BY <1>3, RemainingType DEF DecodeDone
    <2>2. Len(inner') = Chunk
      <3>1. zeroed(Chunk - Len(remaining)) \in Seq(Unit)
            /\ Len(zeroed(Chunk - Len(remaining))) = Chunk - Len(remaining)
        BY <1>0, <2>1, Chunk - Len(remaining) \in Nat, ZeroedType
      <3> QED
        BY <1>0, <1>3, <2>1, <3>1, ConcatProperties DEF DecodeDone, reset_with
    <2>3. decode_needs' <= MaxSize
      BY <1>0, <1>3 DEF DecodeDone, Decodes, NeedsAfterReply
    <2> QED
      BY <1>1, <2>2, <2>3 DEF Whole
  <1>4. CASE DecodeIncomplete
    <2>1. queue # <<>> /\ cursor' = cursor /\ inner' = inner /\ Parsed' = Parsed
      BY <1>4 DEF DecodeIncomplete, Decodes, TypeInv, RequestKnown, Parsed, Received, current, buffer
    <2>2. decode_needs' = 0 \/ decode_needs' = cursor + Parsed.need
      BY <1>4 DEF DecodeIncomplete, NeedsAfterIncomplete
    <2> QED
      BY <1>0, <1>4, <2>1, <2>2 DEF DecodeIncomplete, NeedIsParsed, Whole
  <1>5. CASE DecodeInvalid
    <2>1. decode_needs' <= MaxSize
      BY <1>0, <1>5 DEF DecodeInvalid, Decodes
    <2> QED
      BY <1>0, <1>1, <1>5, <2>1, ZeroedType DEF DecodeInvalid, BufferAfterInvalid, Whole
  <1>6. CASE Grow
    <2>1. Len(inner) + increase \in Nat
      BY <1>0 DEF increase, extra_bytes_needed
    <2>2. Whole(new_size)
      BY <2>1, RoundUpWhole DEF new_size
    <2>3. Len(inner') = new_size
      BY <1>6, GrowKeepsReceived
    <2>4. decode_needs' <= MaxSize
      BY <1>0, <1>6, TypeInv' DEF Grow, RepollStutters, NeedsGrowth, extra_bytes_needed, TypeInv, TypeOK
    <2> QED
      BY <1>6, <2>2, <2>3, <2>4 DEF Grow, Whole
  <1>7. CASE Read
    <2>1. CASE \E n \in 1 .. Len(wire) : PollRead(n)
      <3>1. PICK n \in 1 .. Len(wire) : PollRead(n)
        BY <2>1
      <3>2. wire \in Seq(Unit) /\ n \in Nat
        BY DEF TypeInv, TypeOK
      <3>3. Len(inner') = Len(inner)
        BY <1>0, <3>1, TypeInv' DEF PollRead, Filled, TypeInv, TypeOK
      <3>4. Whole(Len(inner))'
        BY <3>3 DEF Whole
      <3>5. decode_needs' <= MaxSize
        BY <1>0, <3>1 DEF PollRead, RepollStutters, NeedsGrowth, extra_bytes_needed
      <3> QED
        BY <3>4, <3>5
    <2> QED
      BY <1>2, <1>7, <2>1 DEF Read, PollReadNothing, PollReadFails, current, buffer
  <1>8. CASE DecodeWaits \/ DecodePanics \/ HasCapacity \/ RefuseTooLarge \/ DropFuture
             \/ CloseByServer \/ ResetByPeer \/ UNCHANGED vars
    BY <1>2, <1>8 DEF DecodeWaits, DecodePanics, HasCapacity, RefuseTooLarge, DropFuture,
       CloseByServer, ResetByPeer, current, buffer, vars
  <1>9. CASE Call
    <2>1. CASE \E c \in DOMAIN Replies : \E q \in Replies[c] : SendRequest(c, q)
      <3>1. PICK c \in DOMAIN Replies : \E q \in Replies[c] : SendRequest(c, q)
        BY <2>1
      <3>2. c \in Command /\ queue \in Seq(Entry) /\ sent + 1 \in Nat
        BY EnvironmentAssumption, SizeAssumption DEF TypeInv, TypeOK
      <3> DEFINE e == [cmd |-> c, id |-> sent + 1]
      <3>3. queue' = Append(queue, e) /\ UNCHANGED <<inner, cursor, decode_needs>>
        BY <3>1 DEF SendRequest, add, buffer
      <3>4. e \in Entry
        BY <3>2 DEF Entry
      <3> HIDE DEF e
      <3>5. queue # <<>> => queue' # <<>> /\ Head(queue') = Head(queue)
        BY <3>2, <3>3, <3>4
      <3> QED
        BY <1>2, <3>3, <3>5 DEF current
    <2> QED
      BY <1>2, <1>9, <2>1 DEF Call, SendDropped, SendFails, current, buffer
  <1> QED
    BY <1>3, <1>4, <1>5, <1>6, <1>7, <1>8, <1>9 DEF Next, Decode, EnsureCapacity

LEMMA CapacityInvariant == Spec => []CapacityInv
  <1>1. Init /\ NeedInv => CapacityInv
    <2> SUFFICES ASSUME Init, NeedInv PROVE CapacityInv
      OBVIOUS
    <2>1. Len(inner) = Chunk /\ Chunk = 1 * Chunk /\ 1 \in Nat
      BY SizeAssumption, ZeroedType DEF Init
    <2> QED
      BY <2>1, SizeAssumption DEF CapacityInv, Whole, Init
  <1> QED
    BY <1>1, CapacityStep, NeedInvariant, PTL DEF Spec

(* A response is refused as too large only with MAX_SIZE bytes in the      *)
(* buffer, or when what the parser asks for, given these bytes, does not   *)
(* fit: neither a need that outlived its reply nor the rounding of the     *)
(* buffer's size refuses one.                                              *)
THEOREM StreamRefusedIsLarge == Spec => RefusedIsLarge
  <1>1. CapacityInv /\ [Next]_vars =>
          [(result'.kind = "too_large" /\ result' # result)
             => cursor = MaxSize \/ (Parsed.tag = "incomplete" /\ cursor + Parsed.need > MaxSize)]_vars
    <2> SUFFICES ASSUME CapacityInv, Next, result'.kind = "too_large", result' # result
                 PROVE  cursor = MaxSize \/ (Parsed.tag = "incomplete" /\ cursor + Parsed.need > MaxSize)
      OBVIOUS
    <2>1. RefuseTooLarge
      BY DEF Next, Call, SendRequest, SendDropped, SendFails, Decode, DecodeWaits, DecodeDone,
         DecodeIncomplete, DecodeInvalid, DecodePanics, EnsureCapacity, HasCapacity, Grow, Read,
         PollReadNothing, PollReadFails, PollRead, DropFuture, CloseByServer, ResetByPeer, Outcome
    <2>2. /\ cursor \in Nat /\ decode_needs \in Nat /\ MaxSize \in Nat /\ Chunk \in Nat \ {0}
          /\ Len(inner) \in Chunk .. MaxSize /\ cursor <= Len(inner)
      BY <2>1, SizeAssumption DEF CapacityInv, NeedInv, TypeInv, TypeOK, CursorInBuffer,
         RefuseTooLarge
    <2>3. CASE decode_needs > MaxSize
      BY <2>2, <2>3 DEF CapacityInv, NeedIsParsed
    <2>4. CASE decode_needs <= MaxSize
      <3>1. CASE extra_bytes_needed > Chunk
        <4>1. Len(inner) + increase = decode_needs
          BY <2>2, <3>1 DEF increase, extra_bytes_needed
        <4>2. round_up(decode_needs) <= MaxSize
          BY <2>2, <2>4, RoundUpWhole, WholeMaxSize
        <4> QED
          BY <2>1, <2>2, <4>1, <4>2, RoundUp DEF RefuseTooLarge, new_size
      <3>2. CASE extra_bytes_needed <= Chunk /\ Len(inner) < MaxSize
        <4>1. increase = Chunk
          BY <2>2, <3>2 DEF increase, extra_bytes_needed
        <4>2. Len(inner) + Chunk <= MaxSize
          BY <2>2, <3>2, WholeGap, WholeMaxSize DEF CapacityInv
        <4>3. round_up(Len(inner) + Chunk) <= MaxSize
          BY <2>2, <4>2, Len(inner) + Chunk \in Nat, RoundUpWhole, WholeMaxSize
        <4> QED
          BY <2>1, <2>2, <4>1, <4>3, Len(inner) + Chunk \in Nat, RoundUp DEF RefuseTooLarge, new_size
      <3>3. CASE Len(inner) = MaxSize
        <4>1. extra_bytes_needed = 0
          BY <2>2, <2>4, <3>3 DEF extra_bytes_needed
        <4> QED
          BY <2>1, <2>2, <3>3, <4>1 DEF RefuseTooLarge, NeedsGrowth, free_bytes
      <3> QED
        BY <2>2, <3>1, <3>2, <3>3 DEF extra_bytes_needed
    <2> QED
      BY <2>2, <2>3, <2>4
  <1> QED
    BY <1>1, CapacityInvariant, PTL DEF Spec, RefusedIsLarge
============================================================================

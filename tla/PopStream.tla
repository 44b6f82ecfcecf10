----------------------------- MODULE PopStream -----------------------------
(***************************************************************************)
(* async-pop2/src/stream.rs: a client sends a command, queues it and polls *)
(* the socket into a growing buffer until the parser finds the reply to    *)
(* the oldest command of the queue.                                        *)
(*                                                                         *)
(* Every byte carries the number of the call it answers.  The program does *)
(* not see that number: the properties use it to say whose reply a caller  *)
(* was handed.                                                             *)
(***************************************************************************)
EXTENDS PopParser

CONSTANTS
  Chunk,         \* CHUNK_SIZE
  MaxSize,       \* MAX_SIZE
  Replies,       \* for each command the replies a server may give
  MaxSent,       \* bound on the number of calls
  Faults,        \* what may go wrong, a subset of FaultKind
  Segmentation   \* where the network may split the replies between two reads

FaultKind == {"cancel", "cancel_encode", "eof", "reset"}

ASSUME SizeAssumption ==
  /\ Chunk \in Nat \ {0}
  /\ MaxSize \in Nat
  /\ MaxSize >= Chunk
  /\ MaxSize % Chunk = 0
  /\ MaxSent \in Nat

ASSUME EnvironmentAssumption ==
  /\ "STRING" \in DOMAIN Replies /\ DOMAIN Replies \subseteq Command
  /\ \A c \in DOMAIN Replies : Replies[c] \subseteq Seq(Token)
  /\ Faults \subseteq FaultKind
  /\ Segmentation \in {"bytes", "lines", "replies"}

(* A server answers with one whole response, or with one that the grammar  *)
(* does not know.  Left out are the replies that the parser takes for a    *)
(* shorter one (a LIST or UIDL listing whose first line reads as an item)  *)
(* or for the beginning of a longer one (a mail without any line).         *)
ASSUME ReplyAssumption ==
  \A c \in DOMAIN Replies : \A r \in Replies[c] :
    LET found == parse(r, c)
    IN  found.tag = "reject" \/ (found.tag = "done" /\ found.used = Len(r))

VARIABLES
  inner,         \* Buffer.inner, capacity included
  cursor,        \* Buffer.cursor
  decode_needs,  \* PopStream.decode_needs
  queue,         \* CommandQueue.list
  wire,          \* bytes sent by the server and not read yet
  conn,          \* open, eof (the server closed it) or reset
  pc,            \* where the current call is; "idle" without one
  sent,          \* number of calls made; the current call is number sent
  session,       \* sound, or the failure the session cannot recover from
  result         \* how the last call ended, and whose bytes it consumed

buffer == <<inner, cursor>>
vars == <<inner, cursor, decode_needs, queue, wire, conn, pc, sent, session, result>>

Unit  == [tok : Token, id : Nat]
Entry == [cmd : Command, id : Nat]

NUL == [tok |-> "NUL", id |-> 0]

zeroed(n) == [i \in 1 .. n |-> NUL]

(* A reply as it leaves the server. *)
ReplyTo(id, r) == [i \in DOMAIN r |-> [tok |-> r[i], id |-> id]]

Outcome(kind, from) == [kind |-> kind, call |-> sent, from |-> from]

----------------------------------------------------------------------------
Init ==
  /\ inner = zeroed(Chunk)
  /\ cursor = 0
  /\ decode_needs = 0
  /\ queue = <<>>
  /\ wire = <<>>
  /\ conn = "open"
  /\ pc = "idle"
  /\ sent = 0
  /\ session = "sound"
  /\ result = [kind |-> "none", call |-> 0, from |-> {}]

(* CommandQueue *)
add(c, id)           == Append(queue, [cmd |-> c, id |-> id])
current              == Head(queue).cmd
mark_last_as_done    == SubSeq(queue, 1, Len(queue) - 1)   \* mutant
mark_current_as_done == Tail(queue)

----------------------------------------------------------------------------
(* encode, then read_response up to its first poll.  The first call reads  *)
(* the greeting, for which nothing is sent.  A server that has closed the  *)
(* connection does not answer.                                             *)
SendRequest(c, r) ==
  /\ pc = "idle"
  /\ sent < MaxSent
  /\ sent = 0 => c = "STRING"
  /\ conn # "reset"
  /\ sent' = sent + 1
  /\ queue' = add(c, sent')
  /\ wire' = IF conn = "open" THEN wire \o ReplyTo(sent', r) ELSE wire
  /\ pc' = "decode"
  /\ UNCHANGED <<buffer, decode_needs, conn, session, result>>

(* The caller gives up in encode once the command is on its way (a flush   *)
(* may be pending): read_response never queues it.                         *)
SendDropped(c, r) ==
  /\ "cancel_encode" \in Faults
  /\ pc = "idle"
  /\ sent \in 1 .. MaxSent - 1
  /\ conn = "open"
  /\ sent' = sent + 1
  /\ wire' = wire \o ReplyTo(sent', r)
  /\ session' = IF session = "sound" THEN "orphaned" ELSE session
  /\ result' = [kind |-> "dropped", call |-> sent', from |-> {}]
  /\ UNCHANGED <<buffer, decode_needs, queue, conn, pc>>

SendFails ==
  /\ pc = "idle"
  /\ sent < MaxSent
  /\ conn = "reset"
  /\ sent' = sent + 1
  /\ result' = [kind |-> "io", call |-> sent', from |-> {}]
  /\ UNCHANGED <<buffer, decode_needs, queue, wire, conn, pc, session>>

----------------------------------------------------------------------------
(* decode *)

ReceivedButLast == [i \in 1 .. cursor - 1 |-> inner[i].tok]   \* mutant
Received == [i \in 1 .. cursor |-> inner[i].tok]
Parsed   == parse(Received, current)

(* The slice of the taken buffer up to the cursor. *)
Decodes ==
  /\ pc = "decode"
  /\ cursor >= decode_needs
  /\ cursor <= Len(inner)

DecodeWaits ==
  /\ pc = "decode"
  /\ cursor < decode_needs
  /\ pc' = "ensure"
  /\ UNCHANGED <<buffer, decode_needs, queue, wire, conn, sent, session, result>>

everything == SubSeq(inner, 1, cursor)   \* mutant: reset_with(used)
remaining == SubSeq(inner, Parsed.used + 1, cursor)

reset_with(data) ==
  /\ cursor' = Len(data)
  /\ inner' = data \o zeroed(Chunk - Len(data))

NeedsAfterReply == decode_needs

DecodeDone ==
  /\ Decodes
  /\ Parsed.tag = "done"
  /\ Len(remaining) <= Chunk
  /\ queue' = mark_current_as_done
  /\ reset_with(remaining)
  /\ decode_needs' = NeedsAfterReply
  /\ pc' = "idle"
  /\ result' = Outcome(IF Parsed.resp = "Err" THEN "server_error" ELSE "reply",
                       {inner[i].id : i \in 1 .. Parsed.used})
  /\ UNCHANGED <<wire, conn, sent, session>>

NeedsAChunk == cursor + (IF Parsed.need = 0 THEN Chunk ELSE Parsed.need)   \* mutant
NeedsAfterIncomplete == IF Parsed.need = 0 THEN 0 ELSE cursor + Parsed.need

DecodeIncomplete ==
  /\ Decodes
  /\ Parsed.tag = "incomplete"
  /\ decode_needs' = NeedsAfterIncomplete
  /\ pc' = "ensure"
  /\ UNCHANGED <<buffer, queue, wire, conn, sent, session, result>>

(* err! returns before return_to: the bytes are gone, the cursor is not. *)
BufferAfterInvalid == zeroed(Chunk)

(* mutant: the buffer is emptied to recover *)
DecodeInvalidClears ==
  /\ Decodes
  /\ Parsed.tag = "reject"
  /\ inner' = zeroed(Chunk)
  /\ cursor' = 0
  /\ session' = "invalid"
  /\ pc' = "idle"
  /\ result' = Outcome("invalid", {})
  /\ UNCHANGED <<decode_needs, queue, wire, conn, sent>>

DecodeInvalid ==
  /\ Decodes
  /\ Parsed.tag = "reject"
  /\ inner' = BufferAfterInvalid
  /\ session' = "invalid"
  /\ pc' = "idle"
  /\ result' = Outcome("invalid", {})
  /\ UNCHANGED <<cursor, decode_needs, queue, wire, conn, sent>>

(* A slice out of range: the cursor behind a buffer that was lost, or more *)
(* bytes behind the reply than reset_with has room for.                    *)
DecodePanics ==
  /\ pc = "decode"
  /\ cursor >= decode_needs
  /\ \/ cursor > Len(inner)
     \/ Decodes /\ Parsed.tag = "done" /\ Len(remaining) > Chunk
  /\ pc' = "panicked"
  /\ result' = Outcome("panic", {})
  /\ UNCHANGED <<buffer, decode_needs, queue, wire, conn, sent, session>>

Decode == DecodeWaits \/ DecodeDone \/ DecodeIncomplete \/ DecodeInvalid \/ DecodePanics

----------------------------------------------------------------------------
(* ensure_capacity and grow *)

free_bytes         == Len(inner) - cursor
extra_bytes_needed == IF decode_needs > Len(inner) THEN decode_needs - Len(inner) ELSE 0
increase_by_need   == extra_bytes_needed   \* mutant
increase           == IF extra_bytes_needed > Chunk THEN extra_bytes_needed ELSE Chunk

round_up(n) == IF n % Chunk = 0 THEN n ELSE n + (Chunk - (n % Chunk))
doubled     == round_up(2 * Len(inner))   \* mutant
new_size    == round_up(Len(inner) + increase)

NeedsGrowth == free_bytes = 0 \/ extra_bytes_needed > 0

HasCapacity ==
  /\ pc = "ensure"
  /\ ~NeedsGrowth
  /\ pc' = "read"
  /\ UNCHANGED <<buffer, decode_needs, queue, wire, conn, sent, session, result>>

(* mutant: MAX_SIZE is not checked *)
GrowUnbounded ==
  /\ pc = "ensure"
  /\ NeedsGrowth
  /\ inner' = inner \o zeroed(new_size - Len(inner))
  /\ pc' = "read"
  /\ UNCHANGED <<cursor, decode_needs, queue, wire, conn, sent, session, result>>

Grow ==
  /\ pc = "ensure"
  /\ NeedsGrowth
  /\ new_size <= MaxSize
  /\ inner' = inner \o zeroed(new_size - Len(inner))
  /\ pc' = "read"
  /\ UNCHANGED <<cursor, decode_needs, queue, wire, conn, sent, session, result>>

RefuseTooLarge ==
  /\ pc = "ensure"
  /\ NeedsGrowth
  /\ new_size > MaxSize
  /\ session' = "too_large"
  /\ pc' = "idle"
  /\ result' = Outcome("too_large", {})
  /\ UNCHANGED <<buffer, decode_needs, queue, wire, conn, sent>>

EnsureCapacity == HasCapacity \/ Grow \/ RefuseTooLarge

----------------------------------------------------------------------------
(* poll_read into unused(), then move_cursor *)

(* A read may stop at n because the buffer is full or the segment ends. *)
StopsAt(n) ==
  \/ n = free_bytes
  \/ n = Len(wire)
  \/ Segmentation = "bytes"
  \/ Segmentation = "lines" /\ wire[n].tok = "LF"
  \/ Segmentation = "replies" /\ \A i \in n + 1 .. Len(wire) : wire[i].id # wire[n].id

Filled(n) ==
  [i \in DOMAIN inner |-> IF i \in cursor + 1 .. cursor + n THEN wire[i - cursor] ELSE inner[i]]

PollRead(n) ==
  /\ pc = "read"
  /\ n \in 1 .. Len(wire)
  /\ n <= free_bytes
  /\ StopsAt(n)
  /\ inner' = Filled(n)
  /\ cursor' = cursor + n
  /\ wire' = SubSeq(wire, n + 1, Len(wire))
  /\ pc' = "decode"
  /\ UNCHANGED <<decode_needs, queue, conn, sent, session, result>>

(* The end of the stream is a read of no bytes, and no different from one. *)
PollReadNothing ==
  /\ pc = "read"
  /\ conn = "eof"
  /\ wire = <<>>
  /\ pc' = "decode"
  /\ UNCHANGED <<buffer, decode_needs, queue, wire, conn, sent, session, result>>

PollReadFails ==
  /\ pc = "read"
  /\ conn = "reset"
  /\ pc' = "idle"
  /\ result' = Outcome("io", {})
  /\ UNCHANGED <<buffer, decode_needs, queue, wire, conn, sent, session>>

(* mutant: a dropped call takes its command back *)
DropFutureForgets ==
  /\ "cancel" \in Faults
  /\ pc = "read"
  /\ sent > 1
  /\ pc' = "idle"
  /\ queue' = mark_last_as_done
  /\ result' = Outcome("dropped", {})
  /\ UNCHANGED <<buffer, decode_needs, wire, conn, sent, session>>

(* The caller drops the future that waits for its reply.  The greeting is  *)
(* read before there is a client that could outlive its future.            *)
DropFuture ==
  /\ "cancel" \in Faults
  /\ pc = "read"
  /\ sent > 1
  /\ pc' = "idle"
  /\ result' = Outcome("dropped", {})
  /\ UNCHANGED <<buffer, decode_needs, queue, wire, conn, sent, session>>

----------------------------------------------------------------------------
(* The server *)

(* It closes the connection and may leave a reply unfinished. *)
CloseByServer ==
  /\ "eof" \in Faults
  /\ conn = "open"
  /\ conn' = "eof"
  /\ \E n \in 0 .. Len(wire) : wire' = SubSeq(wire, 1, n)
  /\ UNCHANGED <<buffer, decode_needs, queue, pc, sent, session, result>>

(* Bytes that were not read are lost. *)
ResetByPeer ==
  /\ "reset" \in Faults
  /\ conn # "reset"
  /\ conn' = "reset"
  /\ wire' = <<>>
  /\ UNCHANGED <<buffer, decode_needs, queue, pc, sent, session, result>>

----------------------------------------------------------------------------
Read == PollReadNothing \/ PollReadFails \/ \E n \in 1 .. Len(wire) : PollRead(n)

Call == \/ \E c \in DOMAIN Replies : \E r \in Replies[c] : SendRequest(c, r) \/ SendDropped(c, r)
        \/ SendFails

Next == Call \/ Decode \/ EnsureCapacity \/ Read \/ DropFuture \/ CloseByServer \/ ResetByPeer

Spec == Init /\ [][Next]_vars

(* The executor polls a future that can go on; nothing else is promised:   *)
(* no caller has to call, no server to close.                              *)
FairSpec == Spec /\ WF_vars(Decode) /\ WF_vars(EnsureCapacity) /\ WF_vars(Read)

----------------------------------------------------------------------------
(* Every variable has its type.  What is more than a type: the capacity    *)
(* never exceeds MAX_SIZE and the cursor never exceeds MAX_SIZE, also when *)
(* an invalid response has taken the buffer away from under it.            *)
TypeOK ==
  /\ inner \in Seq(Unit) /\ Len(inner) \in Chunk .. MaxSize
  /\ cursor \in 0 .. MaxSize
  /\ decode_needs \in Nat
  /\ queue \in Seq(Entry)
  /\ wire \in Seq(Unit)
  /\ conn \in {"open", "eof", "reset"}
  /\ pc \in {"idle", "decode", "ensure", "read", "panicked"}
  /\ sent \in 0 .. MaxSent
  /\ session \in {"sound", "orphaned", "invalid", "too_large"}
  /\ result \in [kind : {"none", "reply", "server_error", "invalid", "too_large", "io", "panic", "dropped"},
                 call : Nat, from : SUBSET Nat]

Delivered == {"reply", "server_error"}

(* send_request "returns the response sent by the server" (lib.rs:765): as *)
(* long as nobody cancels, a reply consists of bytes the server sent in    *)
(* answer to this very call, whatever way the bytes were cut up, and the   *)
(* reply before it was consumed to its last byte.                          *)
OwnReply == result.kind \in Delivered => result.from = {result.call}

(* The bytes that were not consumed belong to the queued commands, in the  *)
(* order of the queue: the buffer and the queue, changed in different      *)
(* places of decode, never drift apart, also when callers give up waiting. *)
Unread  == SubSeq(inner, 1, cursor) \o wire
Aligned ==
  session = "sound" /\ conn = "open" =>
    /\ {Unread[i].id : i \in DOMAIN Unread} = {queue[i].id : i \in DOMAIN queue}
    /\ \A i \in 1 .. Len(Unread) - 1 : Unread[i].id <= Unread[i + 1].id
    /\ \A i \in 1 .. Len(queue) - 1 : queue[i].id < queue[i + 1].id

(* Once a response was invalid or too large no caller is handed a reply:   *)
(* the buffer that was lost or left as it was can never be parsed into the *)
(* middle of a later reply.                                                *)
FailStop ==
  [][(session \in {"invalid", "too_large"} /\ result' # result)
       => result'.kind \notin Delivered]_vars

(* decode always finds the command its reply belongs to: MissingRequest    *)
(* and the panic of an empty Vec::remove are out of reach.                 *)
RequestKnown == pc \notin {"idle", "panicked"} => queue # <<>>

(* A future that is polled again starts poll_next from its beginning.      *)
(* This changes nothing: decode would find the same need again and         *)
(* ensure_capacity would not grow the buffer again, as there is room for a *)
(* byte (a read of zero bytes is the end of the stream) and for all that   *)
(* the parser asked for.  (It is why a model that goes on at the read is   *)
(* faithful.)                                                              *)
NeedIsCurrent ==
  cursor < decode_needs \/ (Parsed.tag = "incomplete" /\ decode_needs = NeedsAfterIncomplete)
RepollStutters == pc = "read" => ~NeedsGrowth /\ NeedIsCurrent

(* The slices of decode and reset_with are only out of range behind an     *)
(* invalid response; without a lost command no other sequence of calls     *)
(* panics.                                                                 *)
PanicsOnlyAfterInvalid == pc = "panicked" => session = "invalid"

(* When the whole reply is in the buffer and the client waits all the      *)
(* same, decode_needs is what it waits for: the parser itself never misses *)
(* the end of a reply.                                                     *)
HeadArrived == \E i \in 1 .. cursor : /\ inner[i].id = Head(queue).id
                                     /\ \A j \in DOMAIN wire : wire[j].id # inner[i].id
OnlyNeedsDelay ==
  pc = "read" /\ conn = "open" /\ session = "sound" /\ HeadArrived => cursor < decode_needs

(* A response is refused as too large only when the buffer is full up to   *)
(* MAX_SIZE, or when what the parser asks for behind the bytes that are    *)
(* there ends behind MAX_SIZE.  (That may be more than the response has    *)
(* left: two bytes behind a CR, the rest of a longer keyword.)  Neither a  *)
(* need left over from an earlier reply nor the rounding up to whole       *)
(* chunks refuses one.                                                     *)
RefusedIsLarge ==
  [][(result'.kind = "too_large" /\ result' # result)
       => cursor = MaxSize \/ (Parsed.tag = "incomplete" /\ cursor + Parsed.need > MaxSize)]_vars

(* The stream keeps the promises of ReplyFifo. *)
Fifo == INSTANCE ReplyFifo WITH
  outstanding <- [i \in DOMAIN queue |-> queue[i].id],
  waiting     <- pc \notin {"idle", "panicked"}

ImplementsFifo == Fifo!Spec

(* Every call ends, with a reply or an error. *)
Answered == pc # "idle" ~> pc = "idle"

(* When the server closes the connection the caller that waits is told:    *)
(* there is an error for it, ErrorKind::ConnectionClosed (error.rs:44).    *)
ClosedIsReported == pc # "idle" /\ conn = "eof" ~> pc = "idle"
============================================================================

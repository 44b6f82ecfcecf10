----------------------------- MODULE ReplyFifo -----------------------------
(***************************************************************************)
(* What a caller of PopStream may count on, without buffers and bytes:     *)
(* replies are handed out in the order of the commands they answer, each   *)
(* one once and whole, and a session that failed hands out no reply again. *)
(*                                                                         *)
(* A caller that gives up leaves its command outstanding, so that the next *)
(* caller is handed the reply to an earlier command.  A caller that gives  *)
(* up while it writes leaves a reply nobody knows of: the session is       *)
(* "orphaned" and the order of the replies is no longer promised.          *)
(***************************************************************************)
EXTENDS Integers, Sequences

CONSTANT MaxSent      \* bound on the number of calls

VARIABLES
  outstanding,        \* the calls whose reply has not been handed out, in order
  sent,               \* number of calls made; the current call is number sent
  waiting,            \* TRUE while the current caller waits for its reply
  session,            \* sound, orphaned, invalid or too_large
  result              \* how the last call ended

vars == <<outstanding, sent, waiting, session, result>>

Delivered == {"reply", "server_error"}
Failure   == {"invalid", "too_large", "io", "panic", "dropped"}

Init ==
  /\ outstanding = <<>>
  /\ sent = 0
  /\ waiting = FALSE
  /\ session = "sound"
  /\ result = [kind |-> "none", call |-> 0, from |-> {}]

Ask ==
  /\ ~waiting
  /\ sent < MaxSent
  /\ sent' = sent + 1
  /\ outstanding' = Append(outstanding, sent')
  /\ waiting' = TRUE
  /\ UNCHANGED <<session, result>>

(* The caller gets the oldest outstanding reply, whole and nothing else. *)
Answer ==
  /\ waiting
  /\ session = "sound"
  /\ outstanding # <<>>
  /\ \E k \in Delivered :
       result' = [kind |-> k, call |-> sent, from |-> {Head(outstanding)}]
  /\ outstanding' = Tail(outstanding)
  /\ waiting' = FALSE
  /\ UNCHANGED <<sent, session>>

(* With an unknown reply on the way, bytes of any replies may be taken. *)
AnswerUnordered ==
  /\ waiting
  /\ session = "orphaned"
  /\ outstanding # <<>>
  /\ \E k \in Delivered, from \in SUBSET (1 .. sent) :
       result' = [kind |-> k, call |-> sent, from |-> from]
  /\ outstanding' = Tail(outstanding)
  /\ waiting' = FALSE
  /\ UNCHANGED <<sent, session>>

(* Nothing is taken off the queue by a call that fails. *)
Fail ==
  /\ waiting
  /\ \E k \in Failure : result' = [kind |-> k, call |-> sent, from |-> {}]
  /\ session' = IF result'.kind \in {"invalid", "too_large"} THEN result'.kind ELSE session
  /\ waiting' = FALSE
  /\ UNCHANGED <<outstanding, sent>>

(* A call that ends before its command is queued. *)
FailToAsk ==
  /\ ~waiting
  /\ sent < MaxSent
  /\ sent' = sent + 1
  /\ \E k \in {"io", "dropped"} : result' = [kind |-> k, call |-> sent', from |-> {}]
  /\ session' = IF result'.kind = "dropped" /\ session = "sound" THEN "orphaned" ELSE session
  /\ UNCHANGED <<outstanding, waiting>>

Next == Ask \/ Answer \/ AnswerUnordered \/ Fail \/ FailToAsk

Spec == Init /\ [][Next]_vars
============================================================================

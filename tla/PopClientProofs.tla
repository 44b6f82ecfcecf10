-------------------------- MODULE PopClientProofs --------------------------
(***************************************************************************)
(* What holds of PopClient for any messages, capabilities, faults and      *)
(* number of calls.                                                        *)
(***************************************************************************)
EXTENDS PopClient, SequenceTheorems, TLAPS

Arg     == Message \cup Credential \cup {NoArg}
CallT   == [op : Op \cup {"NEW", "none"}, arg : Arg, ok : BOOLEAN]
Request == [cmd : Op \cup {"GREET", "USER", "PASS", "BASE64", "*"}, arg : Arg]
Answer  == [kind : Kind, caps : SUBSET Capability]

(* A call that is under way belongs to a client with a connection, and has *)
(* been counted: it may be owed a reply when it is dropped.                *)
Active ==
  step # "idle" =>
    /\ state \in {"Authentication", "Transaction"}
    /\ call.op # "none"
    /\ call.op # "NEW" => owed < calls

(* The server is asked to delete nothing but messages. *)
OnlyMessages(q) == \A i \in DOMAIN q : q[i].cmd = "DELE" => q[i].arg \in Message

(* On an open link every request that has no answer yet belongs to the     *)
(* call under way or to one that was dropped.  (An authenticator that      *)
(* breaks this leaves the link orphaned by definition: InStep is a part of *)
(* the induction and no result of its own.)                                *)
InStep ==
  link = "open" => Len(queue) = owed + (IF step \in {"idle", "answer"} THEN 0 ELSE 1)

TypeInv == TypeOK /\ Active /\ OnlyMessages(queue) /\ InStep

USE DEF Arg, CallT, Request, Answer

----------------------------------------------------------------------------
(* What is left of queue and replies when a call goes on. *)
LEMMA ResumeType ==
  ASSUME TypeInv, NEW at \in Step \ {"idle", "answer"}, Resume(at)
  PROVE  /\ rest \in Seq(Request) /\ OnlyMessages(rest)
         /\ replies' \in Seq(Answer) /\ Len(replies') <= Len(rest)
         /\ link' \in {"open", "invalid", "orphaned", "lost"}
         /\ link' = "open" => link = "open" /\ Takes /\ Len(rest) = owed
         /\ Takes => replies # <<>> /\ Head(replies) \in Answer
         /\ Response \in Kind
         /\ short' \in BOOLEAN
  <1>s. short' \in BOOLEAN
    BY DEF Resume, MayBeShort
  <1>1. /\ queue \in Seq(Request) /\ replies \in Seq(Answer) /\ Len(replies) <= Len(queue)
        /\ OnlyMessages(queue) /\ owed \in Nat /\ link \in {"open", "invalid", "orphaned", "lost"}
    BY ClientAssumption DEF TypeInv, TypeOK
  <1>2. CASE Takes
    <2>1. link \in {"open", "orphaned"} /\ replies # <<>>
      BY <1>1, <1>2 DEF Takes, Resume, Readable
    <2>q. queue # <<>>
      BY <1>1, <2>1
    <2>2. /\ Head(replies) \in Answer /\ Tail(replies) \in Seq(Answer)
          /\ Len(Tail(replies)) = Len(replies) - 1
      BY <1>1, <2>1, HeadTailProperties
    <2>3. /\ Tail(queue) \in Seq(Request) /\ Len(Tail(queue)) = Len(queue) - 1
          /\ \A i \in 1 .. Len(Tail(queue)) : Tail(queue)[i] = queue[i + 1]
      BY <1>1, <2>q, HeadTailProperties
    <2>4. OnlyMessages(Tail(queue))
      BY <1>1, <2>3 DEF OnlyMessages
    <2>5. link = "open" => Len(queue) = owed + 1
      BY DEF TypeInv, InStep, Resume, Step
    <2>6. rest = Tail(queue) /\ replies' = Tail(replies) /\ link' = link /\ Response = Head(replies).kind
      BY <1>2 DEF Resume, rest, Response
    <2>7. link = "open" => Len(Tail(queue)) = owed
      <3> HIDE DEF Request, Answer
      <3>1. Len(Tail(queue)) = Len(queue) - 1 /\ owed \in Nat
        BY <1>1, <2>3
      <3> QED BY <2>5, <3>1
    <2>8. Len(Tail(replies)) <= Len(Tail(queue))
      BY <1>1, <2>2, <2>3
    <2>9. Head(replies).kind \in Kind
      BY <2>2
    <2> HIDE DEF Answer, Request
    <2> QED
      BY <1>1, <1>2, <1>s, <2>1, <2>2, <2>3, <2>4, <2>6, <2>7, <2>8, <2>9
  <1>3. CASE ~Takes
    BY <1>1, <1>3, <1>s DEF Resume, rest, Response, Kind
  <1> QED BY <1>2, <1>3

(* The call sends its next request. *)
LEMMA ContinueType ==
  ASSUME TypeInv, NEW at \in Step \ {"idle", "answer"}, Resume(at),
         NEW cmd \in {"CAPA", "USER", "PASS"}, NEW to \in Step \ {"idle", "answer"}, Continue(cmd, to)
  PROVE  /\ queue' \in Seq(Request) /\ OnlyMessages(queue)' /\ Len(replies') <= Len(queue')
         /\ link' = "open" => Len(queue') = owed + 1
         /\ result' = result /\ step' = to
  <1>1. /\ rest \in Seq(Request) /\ OnlyMessages(rest) /\ replies' \in Seq(Answer)
        /\ Len(replies') <= Len(rest) /\ (link' = "open" => link = "open" /\ Len(rest) = owed)
    BY ResumeType
  <1>2. [cmd |-> cmd, arg |-> call.arg] \in Request
    BY DEF TypeInv, TypeOK, Op, Login, OnEach, OnAny, OnNone
  <1>3. CASE link = "lost"
    BY <1>1, <1>3 DEF Continue, sent
  <1>4. CASE link # "lost"
    <2>1. queue' = Append(rest, [cmd |-> cmd, arg |-> call.arg])
      BY <1>4 DEF Continue, sent
    <2> DEFINE q == Append(rest, [cmd |-> cmd, arg |-> call.arg])
    <2>2. /\ q \in Seq(Request) /\ Len(q) = Len(rest) + 1
          /\ \A i \in 1 .. Len(rest) : q[i] = rest[i]
          /\ q[Len(rest) + 1] = [cmd |-> cmd, arg |-> call.arg]
      BY <1>1, <1>2
    <2>3. OnlyMessages(q)
      BY <1>1, <2>2 DEF OnlyMessages
    <2> HIDE DEF q
    <2> QED BY <1>1, <2>1, <2>2, <2>3 DEF Continue, q
  <1> QED BY <1>3, <1>4

(* The call ends. *)
LEMMA ReturnType ==
  ASSUME TypeInv, NEW at \in Step \ {"idle", "answer"}, Resume(at), NEW ok \in BOOLEAN, Return(ok)
  PROVE  /\ queue' \in Seq(Request) /\ OnlyMessages(queue)' /\ Len(replies') <= Len(queue')
         /\ link' = "open" => Len(queue') = owed
         /\ result' \in CallT /\ step' = "idle" /\ call' = NoCall
  BY ResumeType DEF Return, Failure, NoCall, TypeInv, TypeOK, OnlyMessages

(* What no resumed call touches. *)
LEMMA ResumeKeeps ==
  ASSUME TypeInv, NEW at \in Step \ {"idle", "answer"}, Resume(at)
  PROVE  /\ calls' = calls /\ srv' = srv /\ deleted' = deleted /\ owed' = owed
         /\ step = at /\ state \in {"Authentication", "Transaction"} /\ connected = TRUE
         /\ call.op \notin {"none"} /\ (call.op # "NEW" => owed < calls)
  BY DEF Resume, server, TypeInv, TypeOK, Active, Step

(* What the client keeps between its calls. *)
ClientType ==
  /\ state \in {"Authentication", "Transaction", "None"}
  /\ connected = (state # "None")
  /\ capabilities \subseteq Capability
  /\ marked_as_del \subseteq Message
  /\ read_greeting \in BOOLEAN
  /\ refreshed \in BOOLEAN /\ unseen \in BOOLEAN

LEMMA ContinueTyped ==
  ASSUME TypeInv, NEW at \in Step \ {"idle", "answer"}, Resume(at),
         NEW cmd \in {"CAPA", "USER", "PASS"}, NEW to \in Step \ {"idle", "answer"}, Continue(cmd, to),
         ClientType', state' \in {"Authentication", "Transaction"},
         call' \in CallT, call'.op = call.op
  PROVE  TypeInv'
  <1>1. TypeOK'
    BY ContinueType, ResumeType, ResumeKeeps DEF TypeInv, TypeOK, ClientType
  <1>2. Active'
    BY ContinueType, ResumeKeeps DEF Active
  <1>3. InStep'
    BY ContinueType, ResumeKeeps DEF InStep
  <1> QED BY <1>1, <1>2, <1>3, ContinueType DEF TypeInv

LEMMA ReturnTyped ==
  ASSUME TypeInv, NEW at \in Step \ {"idle", "answer"}, Resume(at),
         NEW ok \in BOOLEAN, Return(ok), ClientType'
  PROVE  TypeInv'
  <1>1. NoCall \in CallT /\ "idle" \in Step
    BY DEF NoCall, Step
  <1>2. TypeOK'
    BY <1>1, ReturnType, ResumeType, ResumeKeeps DEF TypeInv, TypeOK, ClientType
  <1>3. Active'
    BY ReturnType DEF Active
  <1>4. InStep'
    <2>1. owed \in Nat
      BY ClientAssumption DEF TypeInv, TypeOK
    <2>2. step' = "idle" /\ owed' = owed /\ (link' = "open" => Len(queue') = owed)
      BY ReturnType, ResumeKeeps
    <2> QED BY <2>1, <2>2 DEF InStep
  <1> QED BY <1>2, <1>3, <1>4, ReturnType DEF TypeInv

(* A call that awaits a reply keeps the types when it gets one. *)
LEMMA ResumesTyped == TypeInv /\ Resumes => TypeInv'
  <1> SUFFICES ASSUME TypeInv, Resumes PROVE TypeInv'
    OBVIOUS
  <1>0. /\ ClientType /\ call \in CallT /\ call.ok \in BOOLEAN
        /\ \A ok \in BOOLEAN : [call EXCEPT !.ok = ok] \in CallT /\ [call EXCEPT !.ok = ok].op = call.op
    BY DEF TypeInv, TypeOK, ClientType
  <1>s. Step \ {"idle", "answer"} = {"greeting", "capa", "auth", "handle", "challenge", "user", "pass", "reply"}
    BY DEF Step
  <1>1. CASE Challenged
    <2>1. Resume("challenge") /\ Response = "Challenge" /\ step' = "answer" /\ queue' = rest
          /\ call' = call /\ ClientType' /\ result' = result
      BY <1>0, <1>1 DEF Challenged, ClientType, client
    <2>2. /\ rest \in Seq(Request) /\ OnlyMessages(rest)
          /\ replies' \in Seq(Answer) /\ Len(replies') <= Len(rest)
          /\ link' \in {"open", "invalid", "orphaned", "lost"} /\ short' \in BOOLEAN
          /\ (link' = "open" => Len(rest) = owed)
      BY <1>s, <2>1, ResumeType
    <2>3. /\ calls' = calls /\ srv' = srv /\ deleted' = deleted /\ owed' = owed
          /\ state \in {"Authentication", "Transaction"}
          /\ call.op # "none" /\ (call.op # "NEW" => owed < calls)
      BY <1>s, <2>1, ResumeKeeps
    <2>6. state' = state /\ owed \in Nat
      BY <1>1, ClientAssumption DEF Challenged, client, TypeInv, TypeOK
    <2>4. TypeOK'
      BY <2>1, <2>2, <2>3, <2>6 DEF TypeInv, TypeOK, ClientType, Step
    <2>5. Active' /\ InStep' /\ OnlyMessages(queue)'
      BY <2>1, <2>2, <2>3, <2>6 DEF Active, InStep
    <2> QED BY <2>4, <2>5 DEF TypeInv
  <1>2. CASE NotChallenged
    <2>1. Resume("challenge") /\ Return(FALSE) /\ ClientType'
      BY <1>0, <1>2 DEF NotChallenged, ClientType, client
    <2> QED BY <1>s, <2>1, ReturnTyped
  <1>3. CASE ReadGreeting
    <2>1. Resume("greeting") /\ Continue("CAPA", "capa") /\ ClientType' /\ call' = call /\ state' = state
      BY <1>0, <1>3 DEF ReadGreeting, ClientType
    <2> QED BY <1>0, <1>s, <2>1, ResumeKeeps, ContinueTyped
  <1>4. CASE NotGreeted
    <2>1. Resume("greeting") /\ Return(FALSE) /\ ClientType'
      BY <1>0, <1>4 DEF NotGreeted, ClientType
    <2> QED BY <1>s, <2>1, ReturnTyped
  <1>5. CASE UpdateCapabilities
    <2>1. Resume("capa") /\ Return(call.ok)
      BY <1>5 DEF UpdateCapabilities
    <2>2. listed \subseteq Capability
      BY <1>0, <1>s, <2>1, ResumeType DEF listed, ClientType, Response
    <2>3. ClientType'
      BY <1>0, <1>5, <1>s, <2>1, <2>2, ResumeKeeps DEF UpdateCapabilities, ClientType
    <2> QED BY <1>0, <1>s, <2>1, <2>3, ReturnTyped
  <1>6. CASE AuthSucceeds
    <2>1. Resume("auth") /\ Continue("CAPA", "capa") /\ ClientType' /\ call' = call /\ state' = state
      BY <1>0, <1>6 DEF AuthSucceeds, ClientType, client
    <2> QED BY <1>0, <1>s, <2>1, ResumeKeeps, ContinueTyped
  <1>7. CASE AuthFails
    <2>1. Resume("auth") /\ ClientType' /\ state' = state
      BY <1>0, <1>7 DEF AuthFails, ClientType, client
    <2>2. CASE Continue("USER", "user") /\ call' = call
      BY <1>0, <1>s, <2>1, <2>2, ResumeKeeps, ContinueTyped
    <2>3. CASE Return(FALSE)
      BY <1>s, <2>1, <2>3, ReturnTyped
    <2> QED BY <1>7, <2>2, <2>3 DEF AuthFails
  <1>8. ASSUME NEW at \in {"user", "pass", "reply"}, Resume(at), UNCHANGED <<client, refreshed, unseen>>,
               NEW cmd \in {"PASS", "CAPA"}, NEW to \in {"pass", "capa"},
               Response = "Err" => Return(FALSE),
               Response # "Err" => Continue(cmd, to) /\ Remember
        PROVE  TypeInv'
    <2>1. ClientType' /\ state' = state
      BY <1>0, <1>8 DEF ClientType, client
    <2>2. CASE Continue(cmd, to) /\ Remember
      <3>1. call' \in CallT /\ call'.op = call.op
        BY <1>0, <2>2 DEF Remember
      <3> QED BY <1>8, <1>s, <2>1, <2>2, <3>1, ResumeKeeps, ContinueTyped
    <2>3. CASE Return(FALSE)
      BY <1>8, <1>s, <2>1, <2>3, ReturnTyped
    <2> QED BY <1>8, <2>2, <2>3
  <1>9. CASE UserAnswered
    <2>1. /\ Resume("user") /\ UNCHANGED <<client, refreshed, unseen>>
          /\ Response = "Err" => Return(FALSE)
          /\ Response # "Err" => Continue("PASS", "pass") /\ Remember
      BY <1>9 DEF UserAnswered
    <2> QED BY <1>8, <2>1
  <1>10. CASE PassAnswered
    <2>1. /\ Resume("pass") /\ UNCHANGED <<client, refreshed, unseen>>
          /\ Response = "Err" => Return(FALSE)
          /\ Response # "Err" => Continue("CAPA", "capa") /\ Remember
      BY <1>10 DEF PassAnswered
    <2> QED BY <1>8, <2>1
  <1>11. CASE ApopAnswered
    <2>1. /\ Resume("reply") /\ UNCHANGED <<client, refreshed, unseen>>
          /\ Response = "Err" => Return(FALSE)
          /\ Response # "Err" => Continue("CAPA", "capa") /\ Remember
      BY <1>11 DEF ApopAnswered
    <2> QED BY <1>8, <2>1
  <1>12. CASE RsetDone
    <2>1. Resume("reply") /\ (Return(TRUE) \/ Return(FALSE)) /\ ClientType'
      BY <1>0, <1>12 DEF RsetDone, ClientType, Return
    <2> QED BY <1>s, <2>1, ReturnTyped
  <1>13. CASE QuitDone
    <2>1. Resume("reply") /\ (Return(TRUE) \/ Return(FALSE)) /\ ClientType'
      BY <1>0, <1>13 DEF QuitDone, ClientType, Return
    <2> QED BY <1>s, <2>1, ReturnTyped
  <1>14. CASE MethodReturns
    <2>1. Resume("reply") /\ (Return(TRUE) \/ Return(FALSE)) /\ ClientType'
      BY <1>0, <1>14 DEF MethodReturns, ClientType, client, Return
    <2> QED BY <1>s, <2>1, ReturnTyped
  <1> QED
    BY <1>1, <1>2, <1>3, <1>4, <1>5, <1>6, <1>7, <1>9, <1>10, <1>11, <1>12, <1>13, <1>14 DEF Resumes

(* A new call sends its first request, or is refused. *)
LEMMA CallsTyped == TypeInv /\ Calls => TypeInv'
  <1> SUFFICES ASSUME TypeInv, NEW op \in Op, NEW arg \in Argument(op), Invoke(op, arg) \/ InvokeRefused(op, arg)
               PROVE  TypeInv'
    BY DEF Calls
  <1>1. /\ arg \in Arg /\ (op = "DELE" => arg \in Message)
    BY DEF Argument, Op, Login, OnEach, OnAny, OnNone
  <1>2. CASE InvokeRefused(op, arg)
    <2>1. result' \in CallT /\ calls' \in 0 .. MaxCalls /\ calls' = calls + 1
      BY <1>2, ClientAssumption DEF InvokeRefused, TypeInv, TypeOK, Failure, NoCall
    <2>2. UNCHANGED <<client, call, step, stream, server, history>> /\ step = "idle"
      BY <1>2 DEF InvokeRefused
    <2>3. TypeOK'
      BY <2>1, <2>2, ClientAssumption DEF TypeInv, TypeOK, client, stream, server, history
    <2> QED BY <2>2, <2>3 DEF TypeInv, Active, OnlyMessages, InStep, client, stream, server, history
  <1>3. CASE Invoke(op, arg)
    <2>1. FirstCommand(op) \in Op \cup {"USER"} /\ (FirstCommand(op) = "DELE" => op = "DELE")
      BY DEF FirstCommand, Op, Login, OnEach, OnAny, OnNone
    <2>2. Awaits(op) \in {"handle", "auth", "user", "reply"}
      BY DEF Awaits
    <2> DEFINE req == [cmd |-> FirstCommand(op), arg |-> arg]
    <2>3. req \in Request /\ (req.cmd = "DELE" => req.arg \in Message)
      BY <1>1, <2>1
    <2>4. /\ step = "idle" /\ step' = Awaits(op) /\ queue' = sent(queue, FirstCommand(op), arg)
          /\ calls' = calls + 1 /\ calls < MaxCalls /\ call' = [op |-> op, arg |-> arg, ok |-> TRUE]
          /\ UNCHANGED <<client, result, replies, short, link, server, history>>
          /\ state \in {"Authentication", "Transaction"}
      BY <1>3 DEF Invoke, Allowed
    <2>5. queue \in Seq(Request) /\ Len(replies) <= Len(queue) /\ OnlyMessages(queue)
          /\ replies \in Seq(Answer) /\ calls \in Nat /\ owed \in 0 .. calls
      BY ClientAssumption DEF TypeInv, TypeOK
    <2>6. /\ queue' \in Seq(Request) /\ Len(replies) <= Len(queue') /\ OnlyMessages(queue')
          /\ link = "open" => Len(queue') = Len(queue) + 1
      <3>1. CASE link = "lost"
        BY <2>4, <2>5, <3>1 DEF sent
      <3>2. CASE link # "lost"
        <4>1. queue' = Append(queue, req)
          BY <2>4, <3>2 DEF sent
        <4> HIDE DEF req
        <4>2. /\ queue' \in Seq(Request) /\ Len(queue') = Len(queue) + 1
              /\ \A i \in 1 .. Len(queue) : queue'[i] = queue[i]
              /\ queue'[Len(queue) + 1] = req
          BY <2>3, <2>5, <4>1
        <4> QED BY <2>3, <2>5, <4>2 DEF OnlyMessages
      <3> QED BY <3>1, <3>2
    <2>7. call' \in CallT /\ op \notin {"NEW", "none"}
      BY <1>1, <2>4 DEF Op, Login, OnEach, OnAny, OnNone
    <2>8. TypeOK'
      <3>1. calls' \in 0 .. MaxCalls /\ owed' \in 0 .. calls' /\ step' \in Step
        BY <2>2, <2>4, <2>5, ClientAssumption DEF Step, history
      <3> QED BY <2>4, <2>5, <2>6, <2>7, <3>1 DEF TypeInv, TypeOK, client, server, history
    <2>9. Active'
      BY <2>4, <2>5, <2>7 DEF Active, client, history
    <2>10. InStep'
      BY <2>2, <2>4, <2>5, <2>6 DEF TypeInv, InStep, history
    <2> QED BY <2>6, <2>8, <2>9, <2>10 DEF TypeInv
  <1> QED BY <1>2, <1>3

(* The lines of an exchange, and its end. *)
LEMMA AuthenticatesTyped == TypeInv /\ Authenticates => TypeInv'
  <1> SUFFICES ASSUME TypeInv, Authenticates PROVE TypeInv'
    OBVIOUS
  <1>1. /\ queue \in Seq(Request) /\ Len(replies) <= Len(queue) /\ OnlyMessages(queue)
        /\ replies \in Seq(Answer) /\ owed \in Nat /\ NoCall \in CallT /\ call.arg \in Arg
    BY ClientAssumption DEF TypeInv, TypeOK, NoCall
  <1>2. CASE NextChallenge \/ HandleOk
    <2>1. TypeOK'
      BY <1>2 DEF NextChallenge, HandleOk, Orphan, TypeInv, TypeOK, client, server, history, Step
    <2> QED
      BY <1>2, <2>1 DEF NextChallenge, HandleOk, Orphan, TypeInv, Active, OnlyMessages, InStep, client, history
  <1>3. CASE HandleFails
    <2>1. TypeOK'
      BY <1>1, <1>3 DEF HandleFails, Orphan, TypeInv, TypeOK, client, server, history, Step, Failure
    <2>2. Active' /\ OnlyMessages(queue)'
      BY <1>1, <1>3 DEF HandleFails, Active, OnlyMessages
    <2>3. InStep'
      BY <1>1, <1>3 DEF HandleFails, Orphan, TypeInv, InStep, history
    <2> QED BY <2>1, <2>2, <2>3 DEF TypeInv
  <1>4. ASSUME NEW line \in {"BASE64", "*"}, Writes(line) PROVE TypeInv'
    <2>1. /\ queue' \in Seq(Request) /\ Len(replies) <= Len(queue') /\ OnlyMessages(queue')
          /\ link = "open" => Len(queue') = Len(queue) + 1
      <3>1. CASE link = "lost"
        BY <1>1, <1>4, <3>1 DEF Writes, sent
      <3>2. CASE link # "lost"
        <4> DEFINE req == [cmd |-> line, arg |-> call.arg]
        <4>1. queue' = Append(queue, req) /\ req \in Request /\ req.cmd # "DELE"
          BY <1>1, <1>4, <3>2 DEF Writes, sent
        <4> HIDE DEF req
        <4>2. /\ queue' \in Seq(Request) /\ Len(queue') = Len(queue) + 1
              /\ \A i \in 1 .. Len(queue) : queue'[i] = queue[i]
              /\ queue'[Len(queue) + 1] = req
          BY <1>1, <4>1
        <4> QED BY <1>1, <4>1, <4>2 DEF OnlyMessages
      <3> QED BY <3>1, <3>2
    <2>2. TypeOK'
      BY <1>1, <1>4, <2>1 DEF Writes, Orphan, TypeInv, TypeOK, client, server, history, Step
    <2>3. Active'
      BY <1>4 DEF Writes, TypeInv, Active, client, history
    <2>4. InStep'
      <3>1. link' = "open" => link = "open" /\ step = "answer" /\ step' = "handle" /\ owed' = owed
        BY <1>4 DEF Writes, Orphan, history
      <3> QED BY <1>1, <2>1, <3>1 DEF TypeInv, InStep
    <2> QED BY <2>1, <2>2, <2>3, <2>4 DEF TypeInv
  <1> QED BY <1>2, <1>3, <1>4 DEF Authenticates, Send, Stop

(* Callers that give up, connections that are lost. *)
LEMMA FaultsTyped == TypeInv /\ (DropFuture \/ LoseConnection) => TypeInv'
  <1> SUFFICES ASSUME TypeInv, DropFuture \/ LoseConnection PROVE TypeInv'
    OBVIOUS
  <1>1. /\ queue \in Seq(Request) /\ OnlyMessages(queue) /\ owed \in Nat /\ calls \in Nat
        /\ NoCall \in CallT /\ owed <= calls
    BY ClientAssumption DEF TypeInv, TypeOK, NoCall
  <1>2. CASE DropFuture
    <2>1. owed' \in 0 .. calls' /\ (step \in {"handle", "answer"} => owed' = owed)
          /\ (step \notin {"handle", "answer"} => owed' = owed + 1)
      BY <1>1, <1>2 DEF DropFuture, TypeInv, Active
    <2>2. TypeOK'
      BY <1>1, <1>2, <2>1 DEF DropFuture, Orphan, TypeInv, TypeOK, client, server, Step, Failure
    <2>3. Active' /\ OnlyMessages(queue)'
      BY <1>1, <1>2 DEF DropFuture, Active, OnlyMessages
    <2>4. InStep'
      BY <1>1, <1>2, <2>1 DEF DropFuture, Orphan, TypeInv, InStep
    <2> QED BY <2>2, <2>3, <2>4 DEF TypeInv
  <1>3. CASE LoseConnection
    <2>1. TypeOK'
      <3>1. /\ queue' = <<>> /\ replies' = <<>> /\ short' \in BOOLEAN /\ link' = "lost"
            /\ UNCHANGED <<client, call, step, result, calls, server, history>>
        BY <1>3 DEF LoseConnection
      <3>2. queue' \in Seq(Request) /\ replies' \in Seq(Answer) /\ Len(replies') <= Len(queue')
        BY <3>1
      <3> QED BY <3>1, <3>2 DEF TypeInv, TypeOK, client, server, history
    <2> QED BY <1>3, <2>1 DEF LoseConnection, TypeInv, Active, OnlyMessages, InStep, client, history
  <1> QED BY <1>2, <1>3

(* The server sends one reply to one request. *)
LEMMA ServerTyped ==
  ASSUME TypeInv, ServerAnswers
  PROVE  /\ TypeInv'
         /\ \E a \in Answer : replies' = Append(replies, a)
         /\ Len(replies) + 1 <= Len(queue)
  <1> DEFINE req == queue[Len(replies) + 1]
  <1>1. /\ queue \in Seq(Request) /\ replies \in Seq(Answer) /\ Len(replies) < Len(queue)
        /\ OnlyMessages(queue) /\ Len(replies) + 1 \in 1 .. Len(queue) /\ Len(replies) + 1 <= Len(queue)
    BY DEF TypeInv, TypeOK, ServerAnswers
  <1>2. req \in Request /\ (req.cmd = "DELE" => req.arg \in Message)
    <2>1. DOMAIN queue = 1 .. Len(queue) /\ \A i \in 1 .. Len(queue) : queue[i] \in Request
      <3> HIDE DEF Request
      <3> QED BY <1>1
    <2> QED BY <1>1, <2>1 DEF OnlyMessages
  <1>3. /\ UNCHANGED <<client, call, step, result, calls, queue, link, history>>
        /\ \/ Accepts(req) \/ Challenges(req) \/ NamesUser(req) \/ Greets(req)
           \/ Lists(req) \/ Maildrop(req) \/ Quits(req) \/ Refuses(req)
    BY DEF ServerAnswers
  <1> HIDE DEF req
  <1>4. ASSUME NEW kind \in Kind, Reply(kind)
        PROVE  \E a \in Answer : replies' = Append(replies, a)
    <2>1. PICK caps \in SUBSET Capability : replies' = Append(replies, [kind |-> kind, caps |-> caps])
      BY <1>4, ClientAssumption DEF Reply, Listed
    <2>2. [kind |-> kind, caps |-> caps] \in Answer
      OBVIOUS
    <2> QED BY <2>1, <2>2
  <1>5. \E kind \in Kind : Reply(kind)
    BY <1>3 DEF Accepts, Challenges, NamesUser, Greets, Lists, Maildrop, Quits, Refuses, Kind
  <1>6. /\ srv' \in {"authorization", "challenged", "user", "transaction", "closed"}
        /\ deleted' \subseteq Message
    BY <1>2, <1>3 DEF Accepts, Challenges, NamesUser, Greets, Lists, Maildrop, Quits, Refuses,
                      TypeInv, TypeOK, server
  <1>7. PICK a \in Answer : replies' = Append(replies, a)
    BY <1>4, <1>5
  <1>8. replies' \in Seq(Answer) /\ Len(replies') = Len(replies) + 1
    BY <1>1, <1>7
  <1>s. short' \in BOOLEAN
    BY DEF ServerAnswers, MayBeShort
  <1>9. TypeOK'
    BY <1>1, <1>3, <1>6, <1>8, <1>s DEF TypeInv, TypeOK, client, history
  <1> QED
    BY <1>1, <1>3, <1>7, <1>9 DEF TypeInv, Active, InStep, client, history

LEMMA ClientTypeInvariant == Spec => []TypeInv
  <1>1. Init => TypeInv
    <2> SUFFICES ASSUME Init PROVE TypeInv
      OBVIOUS
    <2>1. queue = <<Greet>> /\ Greet \in Request /\ replies = <<>> /\ Greet.cmd # "DELE"
      BY DEF Init, Greet
    <2>2. queue \in Seq(Request) /\ Len(queue) = 1 /\ OnlyMessages(queue) /\ replies \in Seq(Answer) /\ Len(replies) = 0
      BY <2>1 DEF OnlyMessages
    <2>4. call \in CallT /\ result \in CallT /\ calls \in 0 .. MaxCalls /\ owed \in 0 .. calls
      BY ClientAssumption DEF Init, Failure, NoCall
    <2>5. connected = (state # "None")
      BY DEF Init
    <2>6. /\ state = "Authentication" /\ capabilities = {} /\ marked_as_del = {} /\ read_greeting = FALSE
          /\ step = "greeting" /\ link = "open" /\ srv = "authorization" /\ deleted = {}
          /\ refreshed = FALSE /\ unseen = FALSE /\ short = FALSE
      BY DEF Init
    <2>7. Len(replies) <= Len(queue)
      BY <2>2
    <2>3. TypeOK
      BY <2>2, <2>4, <2>5, <2>6, <2>7, Zenon DEF TypeOK, Step
    <2> QED BY <2>2, <2>3 DEF Init, TypeInv, Active, InStep
  <1>2. TypeInv /\ [Next]_vars => TypeInv'
    <2>1. TypeInv /\ UNCHANGED vars => TypeInv'
      BY DEF vars, client, stream, server, history, TypeInv, TypeOK, Active, OnlyMessages, InStep
    <2> QED
      BY <2>1, CallsTyped, AuthenticatesTyped, ResumesTyped, FaultsTyped, ServerTyped DEF Next
  <1> QED
    BY <1>1, <1>2, PTL DEF Spec

(* Every variable of the client keeps its type; a client without a         *)
(* connection is in no state.                                              *)
THEOREM ClientTyped == Spec => []TypeOK
  BY ClientTypeInvariant, PTL DEF TypeInv

----------------------------------------------------------------------------
(* As long as no reply is owed and the connection has not failed, client   *)
(* and server take turns: the request of the step the call is at, and the  *)
(* answer to it, are all there is between them.                            *)
Synced == link = "open" /\ owed = 0

Exchange == {"AUTH", "BASE64", "*"}
Single   == Op \ {"LOGIN", "AUTH", "SASL"}

(* What a call at a step has asked. *)
RequestInv ==
  /\ step = "idle" => call = NoCall
  /\ step # "idle" => call.ok
  /\ step = "greeting" => call.op = "NEW" /\ queue[1].cmd = "GREET"
  /\ step = "capa" => call.op \in Login \cup {"NEW"} /\ queue[1].cmd = "CAPA"
  /\ step = "auth" => call.op \in {"LOGIN", "AUTH", "SASL"} /\ queue[1].cmd \in Exchange
  /\ step \in {"handle", "challenge"} => call.op = "SASL" /\ queue[1].cmd \in Exchange
  /\ step = "answer" => call.op = "SASL"
  /\ step = "user" => call.op = "LOGIN" /\ queue[1].cmd = "USER"
  /\ step = "pass" => call.op = "LOGIN" /\ queue[1].cmd = "PASS"
  /\ step = "reply" => call.op \in Single /\ queue[1].cmd = call.op /\ queue[1].arg = call.arg

(* What an answer that is on its way says of the server. *)
Answers(req, a) ==
  /\ a.kind = "Message" =>
       /\ req.cmd \in {"AUTH", "BASE64", "PASS", "APOP"} => srv = "transaction"
       /\ req.cmd = "USER" => srv = "user"
       /\ req.cmd = "QUIT" => srv = "closed"
       /\ req.cmd = "DELE" => req.arg \in deleted
       /\ req.cmd = "RSET" => deleted = {}
       /\ req.cmd \notin {"RETR", "TOP"} \cup OnAny
  /\ a.kind = "Capability" => a.caps = Listed
  /\ a.kind \in {"Bytes", "Uidl", "List", "Stat"} => req.arg \notin deleted
  /\ a.kind = "Challenge" => srv = "challenged"
  /\ a.kind = "Err" => srv \in {"authorization", "transaction"}
  /\ req.cmd \in {"USER", "PASS", "APOP", "QUIT"} => a.kind \in {"Message", "Err"}
  /\ req.cmd = "*" => a.kind = "Err"

AnswerInv == replies # <<>> => Answers(queue[1], replies[1])

(* The session, as the client and as the server see it: they only differ   *)
(* between the server's answer and the client's next step.                 *)
Promised == replies # <<>> /\ replies[1].kind = "Message"

SessionInv ==
  /\ call.op \in Login \cup {"NEW"} => state = "Authentication"
  /\ call.op = "NEW" => srv = "authorization"
  /\ state = "Transaction" => srv \in {"transaction", "closed"}
  /\ state = "Authentication" /\ srv = "transaction" =>
       unseen \/ (call.op \in Login /\ (step = "capa" \/ Promised))
  /\ step = "capa" /\ call.op \in Login => srv = "transaction"
  /\ srv = "user" => (step = "user" /\ replies # <<>>) \/ (step = "pass" /\ replies = <<>>)
  /\ srv = "closed" => state = "None" \/ (call.op = "QUIT" /\ Promised)

(* The list of capabilities belongs to the state. *)
KnownInv ==
  refreshed /\ ~unseen /\ connected =>
    capabilities = IF state = "Transaction" THEN TransactionCapabilities ELSE AuthorizationCapabilities

(* The last call that returned Ok has been carried out. *)
DoneInv ==
  step = "idle" /\ result.ok =>
    /\ result.op \in Login => srv = "transaction"
    /\ result.op = "DELE" => result.arg \in deleted
    /\ result.op = "RSET" => deleted = {}
    /\ result.op = "QUIT" => srv = "closed"
    /\ result.op \in {"RETR", "TOP"} \cup OnAny => result.arg \notin deleted

SyncInv == RequestInv /\ AnswerInv /\ SessionInv /\ KnownInv /\ DoneInv

ClientInv == TypeInv /\ (Synced => SyncInv)

(* Between two steps in sync there is one request and its answer at most. *)
LEMMA InTurn ==
  ASSUME TypeInv, Synced
  PROVE  /\ step \in {"idle", "answer"} => queue = <<>> /\ replies = <<>>
         /\ step \notin {"idle", "answer"} => Len(queue) = 1 /\ Len(replies) \in {0, 1}
         /\ queue \in Seq(Request) /\ replies \in Seq(Answer)
  <1>1. queue \in Seq(Request) /\ replies \in Seq(Answer) /\ Len(replies) <= Len(queue)
    BY DEF TypeInv, TypeOK
  <1>2. Len(queue) = IF step \in {"idle", "answer"} THEN 0 ELSE 1
    BY DEF TypeInv, InStep, Synced
  <1>3. Len(queue) \in Nat /\ Len(replies) \in Nat
    BY <1>1
  <1> HIDE DEF Request, Answer
  <1>4. (Len(queue) = 0 => queue = <<>>) /\ (Len(replies) = 0 => replies = <<>>)
    BY <1>1
  <1> QED BY <1>1, <1>2, <1>3, <1>4

(* A call that goes on in sync has taken the answer it waited for. *)
LEMMA Took ==
  ASSUME TypeInv, NEW at \in Step \ {"idle", "answer"}, Resume(at), Synced'
  PROVE  /\ Synced /\ Takes /\ step = at
         /\ Len(queue) = 1 /\ rest = <<>>
         /\ replies # <<>> /\ replies' = <<>> /\ replies[1] \in Answer
         /\ Head(replies) = replies[1] /\ Response = replies[1].kind
         /\ srv' = srv /\ deleted' = deleted
  <1>1. link' = "open" /\ owed' = 0
    BY DEF Synced
  <1>2. link = "open" /\ Takes /\ owed' = owed /\ srv' = srv /\ deleted' = deleted /\ step = at
    BY <1>1, ResumeType, ResumeKeeps
  <1>3. Synced
    BY <1>1, <1>2 DEF Synced
  <1>4. replies # <<>>
    BY <1>2, ResumeType
  <1>5. Len(queue) = 1 /\ Len(replies) = 1 /\ queue \in Seq(Request) /\ replies \in Seq(Answer)
    <2>1. Len(queue) = 1 /\ Len(replies) \in {0, 1} /\ queue \in Seq(Request) /\ replies \in Seq(Answer)
      BY <1>2, <1>3, InTurn
    <2> HIDE DEF Request, Answer
    <2> QED BY <1>4, <2>1
  <1>6. Tail(queue) = <<>> /\ Tail(replies) = <<>> /\ Head(replies) = replies[1] /\ replies[1] \in Answer
    <2> HIDE DEF Request, Answer
    <2>1. ASSUME NEW T, NEW s \in Seq(T), Len(s) = 1
          PROVE  Tail(s) = <<>> /\ Head(s) = s[1] /\ s[1] \in T
      <3>1. s # <<>>
        BY <2>1, EmptySeq
      <3>2. Tail(s) \in Seq(T) /\ Len(Tail(s)) = 0 /\ Head(s) = s[1] /\ Head(s) \in T
        BY <2>1, <3>1, HeadTailProperties
      <3> QED BY <3>2, EmptySeq
    <2> QED BY <1>5, <2>1
  <1>7. rest = <<>> /\ replies' = <<>> /\ Response = replies[1].kind
    BY <1>2, <1>6 DEF Resume, rest, Response
  <1> QED BY <1>2, <1>3, <1>4, <1>5, <1>6, <1>7

(* The request a call sends next is the only one. *)
LEMMA Sent ==
  ASSUME link = "open", NEW q, q = <<>>, NEW cmd, NEW arg
  PROVE  /\ Len(sent(q, cmd, arg)) = 1
         /\ sent(q, cmd, arg)[1] = [cmd |-> cmd, arg |-> arg]
  BY DEF sent

(* Calls that get their answer. *)
LEMMA ResumesInSync ==
  ASSUME TypeInv, SyncInv, Resumes, Synced'
  PROVE  SyncInv'
  <1>s. Step \ {"idle", "answer"} = {"greeting", "capa", "auth", "handle", "challenge", "user", "pass", "reply"}
    BY DEF Step
  <1> DEFINE Turn(at) ==
        /\ Synced /\ Takes /\ step = at
        /\ rest = <<>>
        /\ replies # <<>> /\ replies' = <<>>
        /\ Head(replies) = replies[1] /\ Response = replies[1].kind
        /\ srv' = srv /\ deleted' = deleted /\ Listed' = Listed
        /\ Answers(queue[1], replies[1])
  <1>t. ASSUME NEW at \in Step \ {"idle", "answer"}, Resume(at)
        PROVE  Turn(at)
    BY <1>t, Took DEF SyncInv, AnswerInv, Listed
  <1>c. ASSUME NEW cmd, NEW to, Continue(cmd, to), Turn(step)
        PROVE  step' = to /\ queue'[1].cmd = cmd /\ result' = result
    <2>1. queue' = sent(rest, cmd, call.arg) /\ step' = to /\ result' = result
      BY <1>c DEF Continue
    <2>2. link = "open" /\ rest = <<>>
      BY <1>c DEF Synced
    <2>3. queue'[1] = [cmd |-> cmd, arg |-> call.arg]
      BY <2>1, <2>2, Sent
    <2> QED BY <2>1, <2>3
  <1> HIDE DEF Turn
  <1>n. /\ NoCall.op = "none" /\ NoCall.ok = FALSE /\ "none" \notin Login /\ "NEW" \notin Login
        /\ Login = {"LOGIN", "AUTH", "SASL", "APOP"}
        /\ (\A c \in CallT : [c EXCEPT !.ok = TRUE].op = c.op /\ [c EXCEPT !.ok = TRUE].arg = c.arg)
        /\ call \in CallT
    BY DEF NoCall, Login, TypeInv, TypeOK
  <1>1. CASE Challenged
    <2>1. Turn("challenge") /\ step' = "answer" /\ Response = "Challenge"
          /\ UNCHANGED <<client, call, result, refreshed, unseen>>
      BY <1>1, <1>s, <1>t DEF Challenged
    <2> QED
      BY <2>1 DEF Turn, SyncInv, RequestInv, AnswerInv, SessionInv, KnownInv, DoneInv, Promised, Answers, client
  <1>2. CASE NotChallenged
    <2>1. Turn("challenge") /\ Return(FALSE) /\ UNCHANGED <<client, refreshed>>
          /\ unseen' = (unseen \/ Response = "Message")
      BY <1>2, <1>s, <1>t DEF NotChallenged
    <2> QED
      BY <1>n, <2>1 DEF Turn, Return, Failure, SyncInv, RequestInv, AnswerInv, SessionInv, KnownInv, DoneInv,
                        Promised, client
  <1>3. CASE ReadGreeting
    <2>1. Turn("greeting") /\ Continue("CAPA", "capa")
          /\ UNCHANGED <<state, connected, capabilities, call, refreshed, unseen>>
      BY <1>3, <1>s, <1>t DEF ReadGreeting
    <2>2. step' = "capa" /\ queue'[1].cmd = "CAPA"
      BY <1>c, <2>1 DEF Turn
    <2> QED
      BY <1>n, <2>1, <2>2 DEF Turn, SyncInv, RequestInv, AnswerInv, SessionInv, KnownInv, DoneInv, Promised
  <1>4. CASE NotGreeted
    <2>1. Turn("greeting") /\ Return(FALSE) /\ state' = "None" /\ connected' = FALSE
      BY <1>4, <1>s, <1>t DEF NotGreeted
    <2> QED
      BY <1>n, <2>1 DEF Turn, Return, Failure, SyncInv, RequestInv, AnswerInv, SessionInv, KnownInv, DoneInv,
                        Promised
  <1>5. CASE UpdateCapabilities
    <2>1. Turn("capa") /\ Return(call.ok)
          /\ capabilities' = listed /\ refreshed' = (Response = "Capability")
          /\ state' = (IF call.op = "NEW" THEN state ELSE "Transaction")
          /\ UNCHANGED <<connected, unseen>>
      BY <1>5, <1>s, <1>t DEF UpdateCapabilities
    <2>2. call.ok /\ call.op \in Login \cup {"NEW"}
      BY <2>1 DEF Turn, SyncInv, RequestInv
    <2>3. RequestInv' /\ AnswerInv' /\ SessionInv'
      BY <1>n, <2>1, <2>2 DEF Turn, Return, SyncInv, RequestInv, AnswerInv, SessionInv, Promised
    <2>4. KnownInv'
      BY <2>1, <2>2, <1>n DEF Turn, KnownInv, SyncInv, SessionInv, listed, Answers, Listed
    <2>5. DoneInv'
      BY <1>n, <2>1, <2>2 DEF Turn, Return, SyncInv, SessionInv, DoneInv, OnAny
    <2> QED BY <2>3, <2>4, <2>5 DEF SyncInv
  <1>6. CASE AuthSucceeds
    <2>1. Turn("auth") /\ Response = "Message" /\ Continue("CAPA", "capa")
          /\ UNCHANGED <<client, call, refreshed, unseen>>
      BY <1>6, <1>s, <1>t DEF AuthSucceeds
    <2>2. step' = "capa" /\ queue'[1].cmd = "CAPA"
      BY <1>c, <2>1 DEF Turn
    <2> QED
      BY <1>n, <2>1, <2>2 DEF Turn, SyncInv, RequestInv, AnswerInv, SessionInv, KnownInv, DoneInv, Promised, client,
                              Answers, Exchange
  <1>7. CASE AuthFails
    <2>1. Turn("auth") /\ Response # "Message" /\ UNCHANGED <<client, refreshed, unseen>>
          /\ IF call.op = "LOGIN" THEN Continue("USER", "user") /\ UNCHANGED call ELSE Return(FALSE)
      BY <1>7, <1>s, <1>t DEF AuthFails
    <2>2. CASE call.op = "LOGIN"
      <3>1. step' = "user" /\ queue'[1].cmd = "USER" /\ call' = call
        BY <1>c, <2>1, <2>2 DEF Turn
      <3> QED
        BY <1>n, <2>1, <2>2, <3>1 DEF Turn, SyncInv, RequestInv, AnswerInv, SessionInv, KnownInv, DoneInv, Promised,
                                      client
    <2>3. CASE call.op # "LOGIN"
      BY <1>n, <2>1, <2>3 DEF Turn, Return, Failure, SyncInv, RequestInv, AnswerInv, SessionInv, KnownInv, DoneInv,
                              Promised, client
    <2> QED BY <2>2, <2>3
  <1>r. ASSUME Remember, Response = "Message", call.ok
        PROVE  call'.op = call.op /\ call'.ok
    BY <1>n, <1>r DEF Remember
  <1>8. CASE UserAnswered
    <2>1. Turn("user") /\ UNCHANGED <<client, refreshed, unseen>>
          /\ IF Response = "Err" THEN Return(FALSE) ELSE Continue("PASS", "pass") /\ Remember
      BY <1>8, <1>s, <1>t DEF UserAnswered
    <2>2. /\ call.op = "LOGIN" /\ call.ok /\ Response \in {"Message", "Err"}
          /\ Response = "Message" => srv = "user"
          /\ Response = "Err" => srv \in {"authorization", "transaction"}
      BY <2>1 DEF Turn, SyncInv, RequestInv, Answers
    <2>3. CASE Response = "Err"
      BY <1>n, <2>1, <2>2, <2>3 DEF Turn, Return, Failure, SyncInv, RequestInv, AnswerInv, SessionInv, KnownInv,
                                    DoneInv, Promised, client
    <2>4. CASE Response = "Message"
      <3>1. step' = "pass" /\ queue'[1].cmd = "PASS" /\ call'.op = "LOGIN" /\ call'.ok
        BY <1>c, <1>r, <2>1, <2>2, <2>4 DEF Turn
      <3> QED
        BY <1>n, <2>1, <2>2, <2>4, <3>1 DEF Turn, SyncInv, RequestInv, AnswerInv, SessionInv, KnownInv, DoneInv,
                                            Promised, client
    <2> QED BY <2>2, <2>3, <2>4
  <1>a. ASSUME NEW at \in {"pass", "reply"}, Turn(at), call.op \in Login,
               UNCHANGED <<client, refreshed, unseen>>,
               IF Response = "Err" THEN Return(FALSE) ELSE Continue("CAPA", "capa") /\ Remember
        PROVE  SyncInv'
    <2>2. /\ call.ok /\ Response \in {"Message", "Err"}
          /\ Response = "Message" => srv = "transaction"
          /\ Response = "Err" => srv \in {"authorization", "transaction"}
      BY <1>n, <1>a DEF Turn, SyncInv, RequestInv, Answers, Single
    <2>3. CASE Response = "Err"
      BY <1>n, <1>a, <2>2, <2>3 DEF Turn, Return, Failure, SyncInv, RequestInv, AnswerInv, SessionInv, KnownInv,
                                    DoneInv, Promised, client
    <2>4. CASE Response = "Message"
      <3>1. step' = "capa" /\ queue'[1].cmd = "CAPA" /\ call'.op = call.op /\ call'.ok
        BY <1>c, <1>r, <1>a, <2>2, <2>4 DEF Turn
      <3> QED
        BY <1>n, <1>a, <2>2, <2>4, <3>1 DEF Turn, SyncInv, RequestInv, AnswerInv, SessionInv, KnownInv, DoneInv,
                                            Promised, client
    <2> QED BY <2>2, <2>3, <2>4
  <1>9. CASE PassAnswered
    <2>1. Turn("pass") /\ UNCHANGED <<client, refreshed, unseen>>
          /\ IF Response = "Err" THEN Return(FALSE) ELSE Continue("CAPA", "capa") /\ Remember
      BY <1>9, <1>s, <1>t DEF PassAnswered
    <2>2. call.op \in Login
      BY <1>n, <2>1 DEF Turn, SyncInv, RequestInv
    <2> QED BY <1>a, <2>1, <2>2
  <1>10. CASE ApopAnswered
    <2>1. Turn("reply") /\ call.op \in Login /\ UNCHANGED <<client, refreshed, unseen>>
          /\ IF Response = "Err" THEN Return(FALSE) ELSE Continue("CAPA", "capa") /\ Remember
      BY <1>n, <1>10, <1>s, <1>t DEF ApopAnswered
    <2> QED BY <1>a, <2>1
  <1>11. CASE RsetDone
    <2>1. Turn("reply") /\ call.op = "RSET" /\ Response # "Err"
          /\ UNCHANGED <<state, connected, capabilities, read_greeting, refreshed, unseen>>
          /\ queue' = rest /\ step' = "idle" /\ call' = NoCall
          /\ result' = (IF Response = "Message" THEN [call EXCEPT !.ok = TRUE] ELSE Failure)
      BY <1>11, <1>s, <1>t DEF RsetDone, Return, Expected
    <2> QED
      BY <1>n, <2>1 DEF Turn, Failure, SyncInv, RequestInv, AnswerInv, SessionInv, KnownInv, DoneInv,
                        Promised, Answers, OnAny
  <1>12. CASE QuitDone
    <2>1. Turn("reply") /\ call.op = "QUIT" /\ Response # "Err"
          /\ state' = "None" /\ connected' = FALSE
          /\ queue' = rest /\ step' = "idle" /\ call' = NoCall
          /\ result' = (IF Response = "Message" THEN [call EXCEPT !.ok = TRUE] ELSE Failure)
          /\ UNCHANGED <<refreshed, unseen>>
      BY <1>12, <1>s, <1>t DEF QuitDone, Return, Expected
    <2> QED
      BY <1>n, <2>1 DEF Turn, Failure, SyncInv, RequestInv, AnswerInv, SessionInv, KnownInv, DoneInv,
                        Promised, Answers, OnAny
  <1>13. CASE MethodReturns
    <2>1. Turn("reply") /\ call.op # "APOP" /\ (call.op \in {"RSET", "QUIT"} => Response = "Err")
          /\ queue' = rest /\ step' = "idle" /\ call' = NoCall
          /\ result' = (IF Response \in Expected(call.op) THEN [call EXCEPT !.ok = TRUE] ELSE Failure)
          /\ UNCHANGED <<client, refreshed, unseen>>
      BY <1>13, <1>s, <1>t DEF MethodReturns, Return
    <2>2. /\ call.op \in Single /\ call.op # "APOP" /\ call.op \notin Login \cup {"NEW"}
          /\ queue[1].cmd = call.op /\ queue[1].arg = call.arg
      BY <1>n, <2>1 DEF Turn, SyncInv, RequestInv, Single, Op, OnEach, OnAny, OnNone
    <2>3. RequestInv' /\ AnswerInv' /\ KnownInv'
      BY <1>n, <2>1 DEF Turn, SyncInv, RequestInv, AnswerInv, KnownInv, client
    <2>4. SessionInv'
      BY <1>n, <2>1, <2>2 DEF Turn, SyncInv, SessionInv, Promised, client, Answers
    <2>5. DoneInv'
      BY <1>n, <2>1, <2>2 DEF Turn, Failure, DoneInv, Expected, Answers, OnAny
    <2> QED BY <2>3, <2>4, <2>5 DEF SyncInv
  <1> QED
    BY <1>1, <1>2, <1>3, <1>4, <1>5, <1>6, <1>7, <1>8, <1>9, <1>10, <1>11, <1>12, <1>13 DEF Resumes

(* Calls that begin. *)
LEMMA CallsInSync ==
  ASSUME TypeInv, SyncInv, Calls, Synced'
  PROVE  SyncInv'
  <1> SUFFICES ASSUME NEW op \in Op, NEW arg \in Argument(op), Invoke(op, arg) \/ InvokeRefused(op, arg)
               PROVE  SyncInv'
    BY DEF Calls
  <1>1. /\ step = "idle" /\ replies' = replies /\ link' = link
        /\ UNCHANGED <<client, server, history>>
    BY DEF Invoke, InvokeRefused, stream
  <1>2. Synced
    BY <1>1 DEF Synced, history
  <1>3. queue = <<>> /\ replies = <<>> /\ call = NoCall /\ link = "open"
    BY <1>1, <1>2, InTurn DEF SyncInv, RequestInv, Synced
  <1>4. NoCall.op = "none" /\ NoCall.ok = FALSE /\ "none" \notin Login /\ "NEW" \notin Op
    BY DEF NoCall, Op, Login, OnEach, OnAny, OnNone
  <1>5. CASE InvokeRefused(op, arg)
    BY <1>1, <1>3, <1>4, <1>5
       DEF InvokeRefused, Failure, SyncInv, RequestInv, AnswerInv, SessionInv, KnownInv, DoneInv, Promised,
           Listed, client, stream, server, history
  <1>6. CASE Invoke(op, arg)
    <2>1. /\ queue' = sent(queue, FirstCommand(op), arg) /\ step' = Awaits(op)
          /\ call' = [op |-> op, arg |-> arg, ok |-> TRUE]
          /\ op \in Login => state = "Authentication"
      BY <1>6 DEF Invoke, Allowed
    <2>2. queue'[1] = [cmd |-> FirstCommand(op), arg |-> arg]
      BY <1>3, <2>1, Sent
    <2>3. call'.op = op /\ call'.arg = arg /\ call'.ok = TRUE
      BY <2>1
    <2>4. RequestInv'
      <3>1. /\ op = "SASL" => FirstCommand(op) = "AUTH" /\ Awaits(op) = "handle"
            /\ op = "AUTH" => FirstCommand(op) = "AUTH" /\ Awaits(op) = "auth"
            /\ op = "LOGIN" => \/ FirstCommand(op) = "AUTH" /\ Awaits(op) = "auth"
                               \/ FirstCommand(op) = "USER" /\ Awaits(op) = "user"
        <4>1. /\ op = "SASL" => FirstCommand(op) = "AUTH"
              /\ op = "AUTH" => FirstCommand(op) = "AUTH"
              /\ op = "LOGIN" => FirstCommand(op) \in {"AUTH", "USER"}
          BY DEF FirstCommand
        <4>2. op = "SASL" => Awaits(op) = "handle"
          BY <4>1 DEF Awaits
        <4>3. op # "SASL" /\ FirstCommand(op) = "AUTH" => Awaits(op) = "auth"
          BY DEF Awaits
        <4>4. op # "SASL" /\ FirstCommand(op) = "USER" => Awaits(op) = "user"
          BY DEF Awaits
        <4>5. CASE op = "SASL"
          BY <4>1, <4>2, <4>5
        <4>6. CASE op = "AUTH"
          <5>1. op # "SASL" /\ FirstCommand(op) = "AUTH"
            BY <4>1, <4>6
          <5> QED BY <5>1, <4>3, <4>6
        <4>7. CASE op = "LOGIN"
          <5>1. op # "SASL" /\ FirstCommand(op) \in {"AUTH", "USER"}
            BY <4>1, <4>7
          <5> QED BY <5>1, <4>3, <4>4, <4>7
        <4> QED BY <4>5, <4>6, <4>7
      <3>3. ASSUME op \in Single
            PROVE  FirstCommand(op) = op /\ Awaits(op) = "reply"
        <4>1. op \notin {"SASL", "LOGIN", "AUTH", "USER"}
          BY <3>3 DEF Single, Op, Login, OnEach, OnAny, OnNone
        <4>2. FirstCommand(op) = op
          BY <4>1 DEF FirstCommand
        <4> QED BY <4>1, <4>2 DEF Awaits
      <3>2. op \in {"SASL", "AUTH", "LOGIN"} \cup Single
        BY DEF Single
      <3> QED BY <2>1, <2>2, <2>3, <3>1, <3>2, <3>3 DEF RequestInv, Exchange, Single
    <2>5. step' \in {"handle", "auth", "user", "reply"}
      BY <2>1 DEF Awaits
    <2> QED
      BY <1>1, <1>3, <1>4, <2>1, <2>3, <2>4, <2>5
         DEF SyncInv, AnswerInv, SessionInv, KnownInv, DoneInv, Promised, client, server, history
  <1> QED BY <1>5, <1>6

(* A call that is given up while its authenticator has the floor. *)
LEMMA GivenUpInSync ==
  ASSUME TypeInv, SyncInv, Synced, step = "answer",
         step' = "idle", result' = Failure, call' = NoCall,
         UNCHANGED <<client, queue, replies, server, refreshed, unseen>>
  PROVE  SyncInv'
  <1>1. queue = <<>> /\ replies = <<>> /\ call.op = "SASL"
    BY InTurn DEF SyncInv, RequestInv
  <1>2. NoCall.op = "none" /\ NoCall.ok = FALSE /\ "none" \notin Login /\ "SASL" \in Login
    BY DEF NoCall, Login
  <1> QED
    BY <1>1, <1>2 DEF Failure, SyncInv, RequestInv, AnswerInv, SessionInv, KnownInv, DoneInv, Promised, client, server

(* Authenticators. *)
LEMMA AuthenticatesInSync ==
  ASSUME TypeInv, SyncInv, Authenticates, Synced'
  PROVE  SyncInv'
  <1>1. Synced /\ UNCHANGED <<client, server, history, replies>>
    BY DEF Authenticates, NextChallenge, HandleOk, HandleFails, Orphan, Send, Stop, Writes, Synced, stream, history
  <1>2. "SASL" \in Login
    BY DEF Login
  <1>3. CASE NextChallenge \/ HandleOk
    <2>1. /\ step = "handle" /\ step' \in {"challenge", "auth"}
          /\ UNCHANGED <<call, result, queue>>
      BY <1>1, <1>3 DEF NextChallenge, HandleOk, Orphan, Synced
    <2> QED
      BY <1>1, <1>2, <2>1 DEF SyncInv, RequestInv, AnswerInv, Answers, Listed, SessionInv, KnownInv, DoneInv, Promised,
                              client, server, history
  <1>4. CASE HandleFails
    <2>1. step = "answer"
      BY <1>4 DEF HandleFails, Orphan, Synced
    <2>2. UNCHANGED <<client, queue, replies, server, refreshed, unseen>>
          /\ step' = "idle" /\ result' = Failure /\ call' = NoCall
      BY <1>4 DEF HandleFails, history
    <2> QED BY <1>1, <2>1, <2>2, GivenUpInSync
  <1>5. ASSUME NEW line \in {"BASE64", "*"}, Writes(line)
        PROVE  SyncInv'
    <2>1. /\ step = "answer" /\ step' = "handle" /\ queue' = sent(queue, line, call.arg)
          /\ UNCHANGED <<call, result>>
      BY <1>1, <1>5 DEF Writes, Orphan, Synced
    <2>2. queue = <<>> /\ replies = <<>> /\ link = "open"
      BY <1>1, <2>1, InTurn DEF Synced
    <2>3. queue'[1] = [cmd |-> line, arg |-> call.arg]
      BY <2>1, <2>2, Sent
    <2>4. queue'[1].cmd \in Exchange
      BY <2>3 DEF Exchange
    <2> QED
      BY <1>1, <1>2, <2>1, <2>2, <2>4 DEF SyncInv, RequestInv, AnswerInv, SessionInv, KnownInv, DoneInv, Promised,
                                          client, server, history
  <1> QED BY <1>3, <1>4, <1>5 DEF Authenticates, Send, Stop

(* Only between two lines of an exchange can a call be dropped in sync. *)
LEMMA FaultsInSync ==
  ASSUME TypeInv, SyncInv, DropFuture \/ LoseConnection, Synced'
  PROVE  SyncInv'
  <1>1. DropFuture
    BY DEF LoseConnection, Synced
  <1>2. owed \in Nat
    BY ClientAssumption DEF TypeInv, TypeOK
  <1>3. step \in {"handle", "answer"} /\ owed' = owed
    BY <1>1, <1>2 DEF DropFuture, Synced
  <1>4. step = "answer" /\ Synced
    BY <1>1, <1>3 DEF DropFuture, Orphan, Synced
  <1>5. UNCHANGED <<client, queue, replies, server, refreshed, unseen>>
        /\ step' = "idle" /\ result' = Failure /\ call' = NoCall
    BY <1>1 DEF DropFuture
  <1> QED BY <1>4, <1>5, GivenUpInSync

(* The server. *)
LEMMA ServerInSync ==
  ASSUME TypeInv, SyncInv, ServerAnswers, Synced'
  PROVE  SyncInv'
  <1> DEFINE req == queue[1]
  <1>1. /\ Synced /\ UNCHANGED <<client, call, step, result, calls, queue, link, history>>
        /\ srv # "closed"
    BY DEF ServerAnswers, Synced, history
  <1>2. step \notin {"idle", "answer"} /\ replies = <<>> /\ Len(replies) = 0
    <2>1. Len(replies) < Len(queue) /\ Len(<<>>) = 0
      BY DEF ServerAnswers
    <2>2. step \notin {"idle", "answer"}
      BY <1>1, <2>1, InTurn
    <2>3. Len(queue) = 1 /\ Len(replies) \in {0, 1} /\ replies \in Seq(Answer)
      BY <1>1, <2>2, InTurn
    <2>4. Len(replies) = 0
      BY <2>1, <2>3
    <2> HIDE DEF Answer
    <2> QED BY <2>2, <2>3, <2>4, EmptySeq
  <1>3. \/ Accepts(req) \/ Challenges(req) \/ NamesUser(req) \/ Greets(req)
        \/ Lists(req) \/ Maildrop(req) \/ Quits(req) \/ Refuses(req)
    BY <1>2 DEF ServerAnswers
  <1>4. ASSUME NEW kind, Reply(kind)
        PROVE  replies' # <<>> /\ replies'[1].kind = kind /\ (kind = "Capability" => replies'[1].caps = Listed)
    <2>1. replies' = <<[kind |-> kind, caps |-> IF kind = "Capability" THEN Listed ELSE {}]>>
      BY <1>2, <1>4 DEF Reply
    <2> QED BY <2>1
  <1>5. /\ step = "greeting" => call.op = "NEW" /\ req.cmd = "GREET"
        /\ step = "capa" => req.cmd = "CAPA"
        /\ step \in {"auth", "handle", "challenge"} => call.op \in Login /\ req.cmd \in Exchange
        /\ step = "user" => call.op \in Login /\ req.cmd = "USER"
        /\ step = "pass" => call.op \in Login /\ req.cmd = "PASS"
        /\ step = "reply" => call.op \in Single /\ req.cmd = call.op
    BY DEF SyncInv, RequestInv, Login
  <1>6. step \in {"greeting", "capa", "auth", "handle", "challenge", "user", "pass", "reply"}
    BY <1>2 DEF TypeInv, TypeOK, Step
  <1>7. RequestInv' /\ KnownInv' /\ DoneInv'
    BY <1>1, <1>2 DEF SyncInv, RequestInv, KnownInv, DoneInv, client, history
  <1>8. /\ call.op \in Login \cup {"NEW"} => state = "Authentication"
        /\ call.op = "NEW" => srv = "authorization"
        /\ state = "Transaction" => srv = "transaction"
        /\ state = "Authentication" /\ srv = "transaction" => unseen \/ (call.op \in Login /\ step = "capa")
        /\ step = "capa" /\ call.op \in Login => srv = "transaction"
        /\ srv = "user" => step = "pass"
        /\ state' = state /\ step' = step /\ call' = call /\ unseen' = unseen /\ queue' = queue
    BY <1>1, <1>2 DEF SyncInv, SessionInv, Promised, client, history
  <1>l. /\ Login = {"LOGIN", "AUTH", "SASL", "APOP"} /\ Exchange = {"AUTH", "BASE64", "*"}
        /\ Single = {"APOP", "RETR", "DELE", "TOP", "UIDL", "LIST", "NOOP", "STAT", "RSET", "CAPA", "QUIT"}
        /\ OnEach = {"RETR", "DELE", "TOP"} /\ OnAny = {"UIDL", "LIST"}
    BY DEF Login, Exchange, Single, Op, OnEach, OnAny, OnNone
  <1> HIDE DEF req
  <1>9. SUFFICES AnswerInv' /\ SessionInv'
    BY <1>7 DEF SyncInv
  <1>10. ASSUME Answers(queue[1], replies[1])'
         PROVE  AnswerInv'
    BY <1>10 DEF AnswerInv
  <1>a. CASE Accepts(req)
    <2>1. srv' = "transaction" /\ req.cmd \in {"AUTH", "APOP", "BASE64", "PASS"} /\ Reply("Message")
      BY <1>a DEF Accepts
    <2>2. call.op \in Login /\ call.op # "NEW" /\ step # "capa" /\ call.op # "QUIT"
      BY <1>5, <1>6, <1>l, <2>1
    <2>3. replies' # <<>> /\ replies'[1].kind = "Message"
      BY <1>4, <2>1
    <2>4. AnswerInv'
      BY <1>8, <1>10, <1>l, <2>1, <2>3 DEF Answers, req
    <2> QED BY <1>8, <2>1, <2>2, <2>3, <2>4 DEF SessionInv, Promised
  <1>b. CASE Challenges(req)
    <2>1. srv' = "challenged" /\ req.cmd = "AUTH" /\ Reply("Challenge")
      BY <1>b DEF Challenges
    <2>2. call.op \in Login /\ call.op # "NEW" /\ step # "capa"
      BY <1>5, <1>6, <1>l, <2>1
    <2>3. replies' # <<>> /\ replies'[1].kind = "Challenge"
      BY <1>4, <2>1
    <2>4. AnswerInv'
      BY <1>8, <1>10, <1>l, <2>1, <2>3 DEF Answers, req
    <2> QED BY <1>8, <2>1, <2>2, <2>3, <2>4, <1>l DEF SessionInv, Promised
  <1>c. CASE NamesUser(req)
    <2>1. srv' = "user" /\ req.cmd = "USER" /\ Reply("Message")
      BY <1>c DEF NamesUser
    <2>2. call.op \in Login /\ call.op # "NEW" /\ step = "user"
      BY <1>5, <1>6, <1>l, <2>1
    <2>3. replies' # <<>> /\ replies'[1].kind = "Message"
      BY <1>4, <2>1
    <2>4. AnswerInv'
      BY <1>8, <1>10, <1>l, <2>1, <2>3 DEF Answers, req
    <2> QED BY <1>8, <2>1, <2>2, <2>3, <2>4, <1>l DEF SessionInv, Promised
  <1>d. CASE Greets(req)
    <2>1. srv' = srv /\ req.cmd = "GREET" /\ Reply("Message")
      BY <1>d DEF Greets, server
    <2>2. call.op = "NEW" /\ step = "greeting" /\ srv = "authorization"
      BY <1>5, <1>6, <1>8, <1>l, <2>1
    <2>3. replies' # <<>> /\ replies'[1].kind = "Message"
      BY <1>4, <2>1
    <2>4. AnswerInv'
      BY <1>8, <1>10, <1>l, <2>1, <2>3 DEF Answers, req
    <2> QED BY <1>8, <2>1, <2>2, <2>3, <2>4, <1>l DEF SessionInv, Promised
  <1>e. CASE Lists(req)
    <2>1. PICK kind \in {"Capability", "garbage"} : Reply(kind)
      BY <1>e DEF Lists
    <2>2. srv' = srv /\ req.cmd = "CAPA" /\ Listed' = Listed
      BY <1>e DEF Lists, server, Listed
    <2>3. replies' # <<>> /\ replies'[1].kind = kind /\ (kind = "Capability" => replies'[1].caps = Listed)
      BY <1>4, <2>1
    <2>4. AnswerInv'
      BY <1>8, <1>10, <1>l, <2>1, <2>2, <2>3 DEF Answers, req
    <2>5. srv # "user"
      BY <1>5, <1>8, <2>2
    <2> QED BY <1>1, <1>8, <2>2, <2>3, <2>4, <2>5 DEF SessionInv, Promised
  <1>f. CASE Maildrop(req)
    <2>1. /\ srv = "transaction" /\ srv' = srv /\ req.arg \notin deleted
          /\ req.cmd \in OnEach \cup OnAny \cup {"NOOP", "STAT", "RSET"}
      BY <1>f DEF Maildrop
    <2>2. call.op \notin Login \cup {"NEW"} /\ step = "reply"
      BY <1>5, <1>6, <1>l, <2>1
    <2>3. /\ req.cmd = "DELE" => deleted' = deleted \cup {req.arg} /\ Reply("Message")
          /\ req.cmd = "RSET" => deleted' = {} /\ Reply("Message")
          /\ req.cmd = "NOOP" => Reply("Message")
          /\ req.cmd \in {"RETR", "TOP"} \cup OnAny \cup {"STAT"} =>
               deleted' = deleted /\ \E kind \in {"Stat", "Uidl", "List", "Bytes"} : Reply(kind)
      BY <1>f, <1>l, <2>1 DEF Maildrop
    <2>4. AnswerInv'
      <3>1. CASE req.cmd \in {"DELE", "RSET", "NOOP"}
        <4>1. replies' # <<>> /\ replies'[1].kind = "Message"
          BY <1>4, <2>3, <3>1
        <4> QED BY <1>8, <1>10, <1>l, <2>3, <3>1, <4>1 DEF Answers, req
      <3>2. CASE req.cmd \in {"RETR", "TOP"} \cup OnAny \cup {"STAT"}
        <4>1. replies' # <<>> /\ replies'[1].kind \in {"Stat", "Uidl", "List", "Bytes"} /\ deleted' = deleted
          BY <1>4, <2>3, <3>2
        <4> QED BY <1>8, <1>10, <1>l, <2>1, <3>2, <4>1 DEF Answers, req
      <3> QED BY <1>l, <2>1, <3>1, <3>2
    <2> QED BY <1>8, <2>1, <2>2, <2>4 DEF SessionInv
  <1>g. CASE Quits(req)
    <2>1. srv' = "closed" /\ req.cmd = "QUIT" /\ Reply("Message")
      BY <1>g DEF Quits
    <2>2. call.op = "QUIT" /\ step = "reply"
      BY <1>5, <1>6, <1>l, <2>1
    <2>3. replies' # <<>> /\ replies'[1].kind = "Message"
      BY <1>4, <2>1
    <2>4. AnswerInv'
      BY <1>8, <1>10, <1>l, <2>1, <2>3 DEF Answers, req
    <2> QED BY <1>8, <2>1, <2>2, <2>3, <2>4, <1>l DEF SessionInv, Promised
  <1>h. CASE Refuses(req)
    <2>1. srv' = (IF srv = "transaction" THEN srv ELSE "authorization") /\ Reply("Err")
      BY <1>h DEF Refuses
    <2>3. replies' # <<>> /\ replies'[1].kind = "Err"
      BY <1>4, <2>1
    <2>4. AnswerInv'
      BY <1>8, <1>10, <2>1, <2>3 DEF Answers
    <2> QED BY <1>8, <2>1, <2>4 DEF SessionInv
  <1> QED BY <1>3, <1>a, <1>b, <1>c, <1>d, <1>e, <1>f, <1>g, <1>h

(* Client and server agree about the session whenever they are in sync. *)
LEMMA ClientInvariant == Spec => []ClientInv
  <1>1. Init => SyncInv
    <2>1. Init => /\ queue[1].cmd = "GREET" /\ call.op = "NEW" /\ call.ok /\ result.ok = FALSE
                  /\ step = "greeting" /\ state = "Authentication" /\ srv = "authorization"
                  /\ replies = <<>> /\ ~refreshed
      BY DEF Init, Greet, Failure, NoCall
    <2> QED
      BY <2>1 DEF SyncInv, RequestInv, AnswerInv, SessionInv, KnownInv, DoneInv
  <1>2. TypeInv /\ (Synced => SyncInv) /\ [Next]_vars => (Synced => SyncInv)'
    <2> SUFFICES ASSUME TypeInv, Synced => SyncInv, [Next]_vars, Synced'
                 PROVE  SyncInv'
      OBVIOUS
    <2>1. CASE UNCHANGED vars
      BY <2>1 DEF vars, client, stream, server, history, Synced, SyncInv, RequestInv, AnswerInv, Answers, Listed,
                  SessionInv, Promised, KnownInv, DoneInv
    <2>2. CASE Next
      <3>1. Synced
        <4>1. owed \in Nat
          BY ClientAssumption DEF TypeInv, TypeOK
        <4>2. CASE Resumes
          <5>1. PICK at \in Step \ {"idle", "answer"} : Resume(at)
            BY <4>2 DEF Step, Resumes, Challenged, NotChallenged, ReadGreeting, NotGreeted, UpdateCapabilities,
                        AuthSucceeds, AuthFails, UserAnswered, PassAnswered, ApopAnswered, RsetDone, QuitDone,
                        MethodReturns
          <5> QED BY <5>1, Took
        <4>3. CASE Calls \/ Authenticates
          BY <4>3 DEF Calls, Invoke, InvokeRefused, Authenticates, NextChallenge, HandleOk, HandleFails, Orphan, Send,
                      Stop, Writes, Synced, stream, history
        <4>4. CASE DropFuture \/ LoseConnection
          BY <4>1, <4>4 DEF DropFuture, LoseConnection, Orphan, Synced
        <4>5. CASE ServerAnswers
          BY <4>5 DEF ServerAnswers, Synced, history
        <4> QED BY <2>2, <4>2, <4>3, <4>4, <4>5 DEF Next
      <3> QED
        BY <2>2, <3>1, CallsInSync, AuthenticatesInSync, ResumesInSync, FaultsInSync, ServerInSync DEF Next
    <2> QED BY <2>1, <2>2
  <1> QED
    BY <1>1, <1>2, ClientTypeInvariant, PTL DEF Spec, ClientInv

(* A session without a call under way is in sync. *)
LEMMA SettledInSync ==
  ASSUME ClientInv, Quiet
  PROVE  SyncInv /\ replies = <<>> /\ ~Promised /\ step = "idle" /\ call.op = "none"
  <1>1. owed \in Nat /\ Len(queue) = 0 /\ step = "idle" /\ link = "open"
    BY ClientAssumption DEF ClientInv, TypeInv, TypeOK, Quiet
  <1>2. Synced
    BY <1>1 DEF ClientInv, TypeInv, InStep, Synced
  <1>3. SyncInv /\ replies = <<>>
    BY <1>1, <1>2, InTurn DEF ClientInv
  <1> QED BY <1>1, <1>3 DEF Promised, SyncInv, RequestInv, NoCall

(* For every way to log in and whatever the server makes of each of its    *)
(* requests, a client that says Transaction has been let in.               *)
THEOREM ClientTransactionIsTrue == Spec => []TransactionIsTrue
  <1>1. ClientInv => TransactionIsTrue
    BY SettledInSync DEF TransactionIsTrue, Settled, SyncInv, SessionInv
  <1> QED BY <1>1, ClientInvariant, PTL

(* ... and one that was let in says so, but for the authenticator that did *)
(* not expect to be let in yet: see AccessIsKnown.                         *)
THEOREM ClientAccessIsKnown == Spec => []AccessIsKnown
  <1>1. ClientInv => AccessIsKnown
    <2> SUFFICES ASSUME ClientInv, Settled, srv = "transaction"
                 PROVE  state = "Transaction" \/ unseen
      BY DEF AccessIsKnown
    <2>1. state \in {"Authentication", "Transaction"}
      BY DEF Settled, ClientInv, TypeInv, TypeOK
    <2> QED BY <2>1, SettledInSync DEF Settled, SyncInv, SessionInv
  <1> QED BY <1>1, ClientInvariant, PTL

(* A call that returned Ok was carried out: the reply it accepted belongs  *)
(* to its own request and says so.                                         *)
THEOREM ClientOkIsDone == Spec => []OkIsDone
  <1>1. ClientInv => OkIsDone
    <2> SUFFICES ASSUME ClientInv, Quiet, result.ok PROVE OkIsDone
      BY DEF OkIsDone
    <2>1. DoneInv /\ step = "idle"
      BY SettledInSync DEF SyncInv
    <2> QED
      BY <2>1 DEF DoneInv, OkIsDone, Login, OnAny
  <1> QED BY <1>1, ClientInvariant, PTL

(* The list of capabilities is the one of the state the session is in,     *)
(* whatever a server lists before and after a login.                       *)
THEOREM ClientCapabilitiesKnown == Spec => []CapabilitiesKnown
  <1>1. ClientInv => CapabilitiesKnown
    <2> SUFFICES ASSUME ClientInv, Settled, refreshed, ~unseen
                 PROVE  capabilities = Listed
      BY DEF CapabilitiesKnown
    <2>1. state \in {"Authentication", "Transaction"} /\ connected
      BY DEF Settled, ClientInv, TypeInv, TypeOK
    <2>2. SessionInv /\ KnownInv /\ ~Promised /\ step = "idle" /\ call.op = "none"
      BY SettledInSync DEF Settled, SyncInv
    <2>3. state = "Transaction" <=> srv = "transaction"
      BY <2>1, <2>2 DEF SessionInv
    <2> QED BY <2>1, <2>2, <2>3 DEF KnownInv, Listed
  <1> QED BY <1>1, ClientInvariant, PTL

(* A login that falls back on USER and PASS does so because the server did *)
(* not accept the password it was sent before, or because the client could *)
(* not see that: see PasswordNotAgain.                                     *)
THEOREM ClientPasswordNotAgain == Spec => PasswordNotAgain
  <1> DEFINE A == (step' = "user" /\ step # "user" /\ link' = "open" /\ Len(queue') = 1)
                    => srv # "transaction" \/ unseen
  <1>1. ClientInv /\ ClientInv' /\ [Next]_vars => [A]_vars
    <2> SUFFICES ASSUME ClientInv, ClientInv', Next, srv = "transaction",
                        step' = "user", step # "user", link' = "open", Len(queue') = 1
                 PROVE  unseen
      OBVIOUS
    <2>1. Synced'
      <3>1. owed' \in Nat
        BY ClientAssumption DEF ClientInv, TypeInv, TypeOK
      <3>2. Len(queue') = owed' + 1
        BY DEF ClientInv, TypeInv, InStep
      <3>3. owed' = 0
        BY <3>1, <3>2
      <3> QED BY <3>3 DEF Synced
    <2>2. \/ \E arg \in Argument("LOGIN") : Invoke("LOGIN", arg)
          \/ AuthFails /\ call.op = "LOGIN"
      <3>1. CASE Calls
        <4>1. PICK op \in Op : \E arg \in Argument(op) : Invoke(op, arg)
          BY <3>1 DEF Calls, InvokeRefused
        <4>2. Awaits(op) = "user"
          BY <4>1 DEF Invoke
        <4>3. op = "LOGIN"
          BY <4>2 DEF Awaits, FirstCommand, Op, Login, OnEach, OnAny, OnNone
        <4> QED BY <4>1, <4>3
      <3>2. CASE Resumes
        BY <3>2 DEF Resumes, Challenged, NotChallenged, ReadGreeting, NotGreeted, UpdateCapabilities,
                    AuthSucceeds, AuthFails, UserAnswered, PassAnswered, ApopAnswered, RsetDone, QuitDone,
                    MethodReturns, Return, Continue
      <3>3. CASE Authenticates \/ DropFuture \/ LoseConnection \/ ServerAnswers
        BY <3>3 DEF Authenticates, NextChallenge, HandleOk, HandleFails, Send, Stop, Writes, DropFuture,
                    LoseConnection, ServerAnswers
      <3> QED BY <3>1, <3>2, <3>3 DEF Next
    <2>3. CASE \E arg \in Argument("LOGIN") : Invoke("LOGIN", arg)
      <3>1. PICK arg \in Argument("LOGIN") : Invoke("LOGIN", arg)
        BY <2>3
      <3>2. Synced /\ step = "idle" /\ state = "Authentication"
        BY <2>1, <3>1 DEF Invoke, Allowed, Login, Synced, history
      <3>3. SyncInv /\ TypeInv
        BY <3>2 DEF ClientInv
      <3>4. replies = <<>> /\ call.op = "none"
        BY <3>2, <3>3, InTurn DEF SyncInv, RequestInv, NoCall
      <3> QED BY <3>2, <3>3, <3>4 DEF SyncInv, SessionInv, Promised
    <2>4. CASE AuthFails /\ call.op = "LOGIN"
      <3>1. Resume("auth") /\ Response # "Message" /\ "auth" \in Step \ {"idle", "answer"}
        BY <2>4 DEF AuthFails, Step
      <3>2. Synced /\ step = "auth" /\ replies[1].kind # "Message"
        BY <2>1, <3>1, Took DEF ClientInv
      <3> QED BY <2>4, <3>2 DEF ClientInv, SyncInv, SessionInv, Promised, Login
    <2> QED BY <2>2, <2>3, <2>4
  <1>2. Spec => [][Next]_vars
    BY DEF Spec
  <1>3. Spec => [][A]_vars
    BY <1>1, <1>2, ClientInvariant, PTL
  <1> QED BY <1>3 DEF PasswordNotAgain

----------------------------------------------------------------------------
(* No reply is owed to anybody when no call is dropped. *)
LEMMA NothingOwed ==
  ASSUME "cancel" \notin Faults
  PROVE  Spec => [](owed = 0)
  <1>1. Init => owed = 0
    BY DEF Init
  <1>2. owed = 0 /\ [Next]_vars => (owed = 0)'
    <2> SUFFICES ASSUME owed = 0, Next PROVE owed' = 0
      BY DEF vars, history
    <2>1. CASE Calls
      BY <2>1 DEF Calls, Invoke, InvokeRefused, history
    <2>2. CASE Authenticates
      BY <2>2 DEF Authenticates, NextChallenge, HandleOk, HandleFails, Send, Stop, Writes, history
    <2>3. CASE Resumes
      <3>1. ASSUME NEW at, Resume(at) PROVE owed' = 0
        BY <3>1 DEF Resume
      <3> QED
        BY <2>3, <3>1 DEF Resumes, Challenged, NotChallenged, ReadGreeting, NotGreeted,
           UpdateCapabilities, AuthSucceeds, AuthFails, UserAnswered, PassAnswered, ApopAnswered,
           RsetDone, QuitDone, MethodReturns
    <2>4. CASE DropFuture \/ LoseConnection \/ ServerAnswers
      BY <2>4 DEF DropFuture, LoseConnection, ServerAnswers, history
    <2> QED
      BY <2>1, <2>2, <2>3, <2>4 DEF Next
  <1> QED
    BY <1>1, <1>2, PTL DEF Spec

(* That a client says Transaction of a session that was not let in takes a *)
(* call that was dropped: without one get_state is right between any two   *)
(* calls on an open connection, whatever failed before.                    *)
THEOREM ClientStateIsTrue ==
  ASSUME "cancel" \notin Faults
  PROVE  Spec => []StateIsTrue
  <1>1. ClientInv /\ owed = 0 => StateIsTrue
    <2> SUFFICES ASSUME ClientInv, owed = 0, step = "idle", link = "open", state = "Transaction"
                 PROVE  srv # "authorization"
      BY DEF StateIsTrue
    <2>1. TypeInv /\ Synced /\ SyncInv
      BY DEF ClientInv, Synced
    <2>2. queue = <<>>
      BY <2>1, InTurn
    <2>3. connected
      BY <2>1 DEF TypeInv, TypeOK
    <2> QED
      BY <2>1, <2>2, <2>3 DEF SyncInv, SessionInv, Settled, Quiet
  <1> QED
    BY <1>1, NothingOwed, ClientInvariant, PTL
============================================================================

----------------------------- MODULE PopClient -----------------------------
(***************************************************************************)
(* async-pop2/src/lib.rs: the client a program talks to.  Each of its      *)
(* calls sends one request or several in turn, awaits the reply to each    *)
(* and keeps its own idea of the session: whether it has logged in, what   *)
(* the server can do, which messages are marked as deleted.                *)
(*                                                                         *)
(* Below the client is the stream, as PopStream guarantees it: replies are *)
(* handed out in the order of the requests, and after a response that was  *)
(* invalid every call fails although its request is still sent.  At the    *)
(* other end is a POP3 server, which is not part of the repository.        *)
(***************************************************************************)
EXTENDS Integers, Sequences

CONSTANTS
  Message,                    \* the message numbers
  AuthorizationCapabilities,  \* what CAPA lists before the login
  TransactionCapabilities,    \* and after it
  MaxCalls,                   \* bound on the number of calls
  Faults                      \* what may go wrong, a subset of FaultKind

FaultKind == {"garbage", "challenge", "cancel", "loss", "split"}

Capability == {"UIDL", "TOP", "SASL PLAIN"}
Credential == {"good", "bad"}
NoArg      == "no argument"

ASSUME ClientAssumption ==
  /\ AuthorizationCapabilities \subseteq Capability
  /\ TransactionCapabilities \subseteq Capability
  /\ MaxCalls \in Nat
  /\ Faults \subseteq FaultKind
  /\ NoArg \notin Message /\ Message \cap Credential = {}

VARIABLES
  state,          \* Client.state
  connected,      \* Client.inner is Some
  capabilities,   \* Client.capabilities
  marked_as_del,  \* Client.marked_as_del, as a set
  read_greeting,  \* Client.read_greeting
  call,           \* the current call: its method, its argument, no surprise so far
  step,           \* what the call awaits; "idle" without one
  result,         \* the last call and its argument when it returned Ok, else Failure
  calls,          \* number of calls made
  queue,          \* the requests whose reply has not been handed out
  replies,        \* the replies on their way, to the first requests of the queue
  short,          \* decode_needs of the stream is more than all that has arrived
  link,           \* open, orphaned, invalid (InvalidResponse was returned) or lost
  srv,            \* the server's state of the session
  deleted,        \* the messages the server has marked as deleted
  refreshed,      \* history: the last update_capabilities got a list
  owed,           \* history: the replies owed to calls that were dropped
  unseen          \* history: an authenticator took +OK for a missing challenge

client == <<state, connected, capabilities, marked_as_del, read_greeting>>
stream == <<queue, replies, short, link>>
server == <<srv, deleted>>
history == <<refreshed, owed, unseen>>
vars   == <<client, call, step, result, calls, stream, server, history>>

Kind == {"Message", "Stat", "List", "Bytes", "Uidl", "Capability", "Challenge", "Err", "garbage"}

Step == {"idle", "greeting", "capa", "auth", "handle", "challenge", "answer", "user", "pass", "reply"}

NoCall  == [op |-> "none", arg |-> NoArg, ok |-> FALSE]
Failure == NoCall

Greet == [cmd |-> "GREET", arg |-> NoArg]

Init ==
  /\ state = "Authentication"
  /\ connected = TRUE
  /\ capabilities = {}
  /\ marked_as_del = {}
  /\ read_greeting = FALSE
  /\ call = [op |-> "NEW", arg |-> NoArg, ok |-> TRUE]
  /\ step = "greeting"
  /\ result = Failure
  /\ calls = 0
  /\ queue = <<Greet>>
  /\ replies = <<>>
  /\ short = FALSE
  /\ link = "open"
  /\ srv = "authorization"
  /\ deleted = {}
  /\ refreshed = FALSE
  /\ owed = 0
  /\ unseen = FALSE

----------------------------------------------------------------------------
(* The calls.  A method of one request has the name of its command.  SASL  *)
(* is the method auth with an authenticator that has a handle of its own,  *)
(* AUTH with one of the two of the crate, which have none.                 *)
Login   == {"LOGIN", "AUTH", "SASL", "APOP"}
OnEach  == {"RETR", "DELE", "TOP"}
OnAny   == {"UIDL", "LIST"}
OnNone  == {"NOOP", "STAT", "RSET", "CAPA", "QUIT"}
Op      == Login \cup OnEach \cup OnAny \cup OnNone

Argument(op) ==
  CASE op \in Login  -> Credential
    [] op \in OnEach -> Message
    [] op \in OnAny  -> Message \cup {NoArg}
    [] OTHER         -> {NoArg}

is_deleted(m)      == m \in marked_as_del
has_capability(c)  == c \in capabilities
has_auth_mechanism == "SASL PLAIN" \in capabilities

(* What a method checks before it sends its (first) request. *)
Allowed(op, arg) ==
  /\ connected /\ state \in {"Authentication", "Transaction"}
  /\ op \in Login => state = "Authentication" /\ read_greeting
  /\ op \in OnEach \cup OnAny => ~is_deleted(arg)
  /\ op \in {"UIDL", "TOP"} => has_capability(op)

FirstCommand(op) ==
  CASE op = "SASL"  -> "AUTH"
    [] op = "LOGIN" -> IF has_auth_mechanism THEN "AUTH" ELSE "USER"
    [] OTHER        -> op

Awaits(op) ==
  CASE op = "SASL"                               -> "handle"
    [] op # "SASL" /\ FirstCommand(op) = "AUTH" -> "auth"
    [] FirstCommand(op) = "USER"                 -> "user"
    [] OTHER                                     -> "reply"

(* A request that is written to a lost connection fails there or, at the   *)
(* latest, when its reply is awaited.                                      *)
sent(q, cmd, arg) == IF link = "lost" THEN q ELSE Append(q, [cmd |-> cmd, arg |-> arg])

Invoke(op, arg) ==
  /\ step = "idle" /\ link # "orphaned"
  /\ calls < MaxCalls
  /\ Allowed(op, arg)
  /\ calls' = calls + 1
  /\ call' = [op |-> op, arg |-> arg, ok |-> TRUE]
  /\ step' = Awaits(op)
  /\ queue' = sent(queue, FirstCommand(op), arg)
  /\ UNCHANGED <<client, result, replies, short, link, server, history>>

InvokeRefused(op, arg) ==
  /\ step = "idle" /\ link # "orphaned"
  /\ calls < MaxCalls
  /\ ~Allowed(op, arg)
  /\ calls' = calls + 1
  /\ result' = Failure
  /\ UNCHANGED <<client, call, step, stream, server, history>>

----------------------------------------------------------------------------
(* read_response: the awaited reply, or an error.  The reply to an earlier *)
(* request comes first when the call that awaited it was dropped.          *)

(* The network cuts replies as it likes: a cut in the wrong place leaves a *)
(* need that is more than the rest of the reply, or more than the replies  *)
(* that follow, until enough has arrived (stream_stale_need).  The parser  *)
(* asks for a number of bytes from the first capability list on.           *)
MayBeShort ==
  IF "split" \in Faults /\ step # "greeting" /\ link' = "open" /\ replies' # <<>>
  THEN BOOLEAN ELSE {FALSE}

RepliesOnly == replies # <<>> /\ ~short   \* mutant: errors of the stream are not seen
Readable == link \in {"invalid", "lost"} \/ (replies # <<>> /\ ~short)

(* In an orphaned session the CAPA of the login is handed the reply to a   *)
(* line of the authenticator: no capability list, so that its grammar      *)
(* rejects all but an error.                                               *)
Takes ==
  \/ link = "open" /\ Head(replies).kind # "garbage"
  \/ link = "orphaned" /\ Head(replies).kind \in IF step = "capa" THEN {"Err"} ELSE Kind \ {"garbage"}

Response == IF Takes THEN Head(replies).kind ELSE "Err"

rest == IF Takes THEN Tail(queue) ELSE queue

Resume(at) ==
  /\ step = at
  /\ Readable
  /\ replies' = IF Takes THEN Tail(replies) ELSE replies
  /\ link' = IF link \in {"open", "orphaned"} /\ ~Takes THEN "invalid" ELSE link
  /\ short' \in MayBeShort
  /\ UNCHANGED <<calls, server, owed>>

(* The call goes on to its next request. *)
Continue(cmd, at) ==
  /\ queue' = sent(rest, cmd, call.arg)
  /\ step' = at
  /\ UNCHANGED result

Return(ok) ==
  /\ queue' = rest
  /\ step' = "idle"
  /\ result' = IF ok THEN [call EXCEPT !.ok = TRUE] ELSE Failure
  /\ call' = NoCall

(* login and apop look at what kind of reply they got after everything     *)
(* else is done.                                                           *)
Remember == call' = [call EXCEPT !.ok = @ /\ Response = "Message"]

(* create_client_from_socket: without a greeting there is no client. *)
ReadGreeting ==
  /\ Resume("greeting")
  /\ Response = "Message"
  /\ read_greeting' = TRUE
  /\ Continue("CAPA", "capa")
  /\ UNCHANGED <<state, connected, capabilities, marked_as_del, call, refreshed, unseen>>

NotGreeted ==
  /\ Resume("greeting")
  /\ Response # "Message"
  /\ connected' = FALSE
  /\ state' = "None"
  /\ Return(FALSE)
  /\ UNCHANGED <<capabilities, marked_as_del, read_greeting, refreshed, unseen>>

(* update_capabilities, at the end of a connect or a login: an error is    *)
(* ignored, and the list stays as it was.                                  *)
(* mutant: the list is only fetched when the client connects *)
listed_once ==
  IF call.op = "NEW" /\ Response = "Capability" THEN Head(replies).caps ELSE capabilities
listed == IF Response = "Capability" THEN Head(replies).caps ELSE capabilities

(* mutant: a login fails when its CAPA does *)
CapabilitiesOrError ==
  /\ Resume("capa")
  /\ capabilities' = listed
  /\ refreshed' = (Response = "Capability")
  /\ state' = IF call.op = "NEW" \/ Response # "Capability" THEN state ELSE "Transaction"
  /\ IF Response # "Capability" /\ call.op = "LOGIN" /\ has_auth_mechanism
     THEN Continue("USER", "user") /\ UNCHANGED call
     ELSE Return(Response = "Capability")
  /\ UNCHANGED <<connected, marked_as_del, read_greeting, unseen>>

UpdateCapabilities ==
  /\ Resume("capa")
  /\ capabilities' = listed
  /\ refreshed' = (Response = "Capability")
  /\ state' = IF call.op = "NEW" THEN state ELSE "Transaction"
  /\ Return(call.ok)
  /\ UNCHANGED <<connected, marked_as_del, read_greeting, unseen>>

AuthSucceeds ==
  /\ Resume("auth")
  /\ Response = "Message"
  /\ Continue("CAPA", "capa")
  /\ UNCHANGED <<client, call, refreshed, unseen>>

(* login ignores why auth failed. *)
AuthFails ==
  /\ Resume("auth")
  /\ Response # "Message"
  /\ IF call.op = "LOGIN" THEN Continue("USER", "user") /\ UNCHANGED call ELSE Return(FALSE)
  /\ UNCHANGED <<client, refreshed, unseen>>

(* The handle of an authenticator, which is code of the program, between   *)
(* AUTH and the reply to it.  It sends lines, asks for challenges and      *)
(* returns in any order; at handle a line is not answered yet, at answer   *)
(* there is none.  When it asks for a challenge, or returns, with no line  *)
(* sent, nobody sends the reply that is awaited then.  When it sends two   *)
(* lines or fails with a line unanswered, a reply comes for which no       *)
(* command is queued.  Either way the link is orphaned: commands and       *)
(* replies do not go together any more.                                    *)
Orphan(at) == link' = IF step = at /\ link = "open" THEN "orphaned" ELSE link

NextChallenge ==
  /\ step \in {"handle", "answer"}
  /\ step' = "challenge"
  /\ Orphan("answer")
  /\ UNCHANGED <<client, call, result, calls, queue, replies, short, server, history>>

HandleOk ==
  /\ step \in {"handle", "answer"}
  /\ step' = "auth"
  /\ Orphan("answer")
  /\ UNCHANGED <<client, call, result, calls, queue, replies, short, server, history>>

HandleFails ==
  /\ step \in {"handle", "answer"}
  /\ step' = "idle" /\ result' = Failure /\ call' = NoCall
  /\ Orphan("handle")
  /\ UNCHANGED <<client, calls, queue, replies, short, server, history>>

Challenged ==
  /\ Resume("challenge")
  /\ Response = "Challenge"
  /\ step' = "answer"
  /\ queue' = rest
  /\ UNCHANGED <<client, call, result, refreshed, unseen>>

(* The reply that was no challenge is the end of the exchange, and lost:   *)
(* a handle passes on the error of next_challenge.                         *)
NotChallenged ==
  /\ Resume("challenge")
  /\ Response # "Challenge"
  /\ unseen' = (unseen \/ Response = "Message")
  /\ Return(FALSE)
  /\ UNCHANGED <<client, refreshed>>

(* A line of the exchange.  (A handle sends one line too many at most.) *)
Writes(line) ==
  /\ step = "answer" \/ (step = "handle" /\ link = "open")
  /\ queue' = sent(queue, line, call.arg)
  /\ step' = "handle"
  /\ Orphan("handle")
  /\ UNCHANGED <<client, call, result, calls, replies, short, server, history>>

Send == Writes("BASE64")
Stop == Writes("*")

UserAnswered ==
  /\ Resume("user")
  /\ IF Response = "Err" THEN Return(FALSE) ELSE Continue("PASS", "pass") /\ Remember
  /\ UNCHANGED <<client, refreshed, unseen>>

(* mutant: the reply to PASS is not looked at *)
PassNotChecked ==
  /\ Resume("pass")
  /\ Continue("CAPA", "capa")
  /\ Remember
  /\ UNCHANGED <<client, refreshed, unseen>>

PassAnswered ==
  /\ Resume("pass")
  /\ IF Response = "Err" THEN Return(FALSE) ELSE Continue("CAPA", "capa") /\ Remember
  /\ UNCHANGED <<client, refreshed, unseen>>

ApopAnswered ==
  /\ Resume("reply")
  /\ call.op = "APOP"
  /\ IF Response = "Err" THEN Return(FALSE) ELSE Continue("CAPA", "capa") /\ Remember
  /\ UNCHANGED <<client, refreshed, unseen>>

(* mutant: an error reply counts as text *)
ExpectedOrError(op) ==
  CASE op = "STAT"            -> {"Stat"}
    [] op = "UIDL"            -> {"Uidl"}
    [] op = "LIST"            -> {"List", "Stat"}
    [] op \in {"RETR", "TOP"} -> {"Bytes"}
    [] op = "CAPA"            -> {"Capability"}
    [] OTHER                  -> {"Message", "Err"}

(* The replies a method accepts. *)
Expected(op) ==
  CASE op = "NOOP"            -> Kind \ {"Err"}
    [] op = "STAT"            -> {"Stat"}
    [] op = "UIDL"            -> {"Uidl"}
    [] op = "LIST"            -> {"List", "Stat"}
    [] op \in {"RETR", "TOP"} -> {"Bytes"}
    [] op = "CAPA"            -> {"Capability"}
    [] OTHER                  -> {"Message"}

RsetDone ==
  /\ Resume("reply")
  /\ call.op = "RSET" /\ Response # "Err"
  /\ marked_as_del' = {}
  /\ Return(Response \in Expected("RSET"))
  /\ UNCHANGED <<state, connected, capabilities, read_greeting, refreshed, unseen>>

(* mutant: the state stays Update *)
QuitInUpdate ==
  /\ Resume("reply")
  /\ call.op = "QUIT" /\ Response # "Err"
  /\ state' = "Update"
  /\ connected' = FALSE
  /\ UNCHANGED <<read_greeting, marked_as_del, capabilities>>
  /\ Return(Response \in Expected("QUIT"))
  /\ UNCHANGED <<refreshed, unseen>>

(* The state is Update for a moment in which nothing is awaited. *)
QuitDone ==
  /\ Resume("reply")
  /\ call.op = "QUIT" /\ Response # "Err"
  /\ state' = "None"
  /\ connected' = FALSE
  /\ read_greeting' = FALSE
  /\ marked_as_del' = {}
  /\ capabilities' = {}
  /\ Return(Response \in Expected("QUIT"))
  /\ UNCHANGED <<refreshed, unseen>>

MethodReturns ==
  /\ Resume("reply")
  /\ call.op # "APOP"
  /\ call.op \in {"RSET", "QUIT"} => Response = "Err"
  /\ Return(Response \in Expected(call.op))
  /\ UNCHANGED <<client, refreshed, unseen>>

(* The caller drops the future it awaits, in a timeout for instance. *)
DropFuture ==
  /\ "cancel" \in Faults
  /\ step # "idle"
  /\ call.op # "NEW"
  /\ step' = "idle"
  /\ result' = Failure
  /\ call' = NoCall
  /\ owed' = IF step \in {"handle", "answer"} THEN owed ELSE owed + 1
  /\ Orphan("handle")
  /\ UNCHANGED <<client, calls, queue, replies, short, server, refreshed, unseen>>

(* Nothing on its way can be read or answered any more. *)
LoseConnection ==
  /\ "loss" \in Faults
  /\ link # "lost"
  /\ link' = "lost"
  /\ queue' = <<>>
  /\ replies' = <<>>
  /\ short' = FALSE
  /\ UNCHANGED <<client, call, step, result, calls, server, history>>

----------------------------------------------------------------------------
(* The server: a POP3 server as the client uses it.                        *)

Listed == IF srv = "transaction" THEN TransactionCapabilities ELSE AuthorizationCapabilities

Reply(kind) ==
  replies' = Append(replies, [kind |-> kind, caps |-> IF kind = "Capability" THEN Listed ELSE {}])

Accepts(req) ==
  /\ \/ srv = "authorization" /\ req.cmd \in {"AUTH", "APOP"}
     \/ srv = "challenged" /\ req.cmd = "BASE64"
     \/ srv = "user" /\ req.cmd = "PASS"
  /\ req.arg = "good"
  /\ srv' = "transaction"
  /\ Reply("Message")
  /\ UNCHANGED deleted

(* The server does not take the initial response of AUTH and asks for one. *)
Challenges(req) ==
  /\ "challenge" \in Faults
  /\ srv = "authorization" /\ req.cmd = "AUTH"
  /\ srv' = "challenged"
  /\ Reply("Challenge")
  /\ UNCHANGED deleted

NamesUser(req) ==
  /\ srv \in {"authorization", "user"} /\ req.cmd = "USER"
  /\ srv' = "user"
  /\ Reply("Message")
  /\ UNCHANGED deleted

Greets(req) ==
  /\ req.cmd = "GREET"
  /\ Reply("Message")
  /\ UNCHANGED server

(* A list the client's grammar does not know, e.g. SASL PLAIN LOGIN. *)
Lists(req) ==
  /\ srv # "challenged" /\ req.cmd = "CAPA"
  /\ \E kind \in {"Capability"} \cup (Faults \cap {"garbage"}) : Reply(kind)
  /\ UNCHANGED server

Maildrop(req) ==
  /\ srv = "transaction"
  /\ req.cmd \in OnEach \cup OnAny \cup {"NOOP", "STAT", "RSET"}
  /\ req.arg \notin deleted
  /\ deleted' = CASE req.cmd = "DELE" -> deleted \cup {req.arg}
                  [] req.cmd = "RSET" -> {}
                  [] OTHER            -> deleted
  /\ Reply(CASE req.cmd = "STAT"            -> "Stat"
             [] req.cmd = "UIDL"            -> "Uidl"
             [] req.cmd = "LIST"            -> IF req.arg = NoArg THEN "List" ELSE "Stat"
             [] req.cmd \in {"RETR", "TOP"} -> "Bytes"
             [] OTHER                       -> "Message")
  /\ UNCHANGED srv

Quits(req) ==
  /\ srv # "challenged" /\ req.cmd = "QUIT"
  /\ srv' = "closed"
  /\ Reply("Message")
  /\ UNCHANGED deleted

(* A challenged server takes any line for the response to its challenge. *)
Refuses(req) ==
  /\ req.cmd # "QUIT" \/ srv = "challenged"
  /\ srv' = IF srv = "transaction" THEN srv ELSE "authorization"
  /\ Reply("Err")
  /\ UNCHANGED deleted

ServerAnswers ==
  /\ link # "lost" /\ srv # "closed"
  /\ Len(replies) < Len(queue)
  /\ LET req == queue[Len(replies) + 1]
     IN  \/ Accepts(req) \/ Challenges(req) \/ NamesUser(req) \/ Greets(req)
         \/ Lists(req) \/ Maildrop(req) \/ Quits(req) \/ Refuses(req)
  /\ UNCHANGED <<client, call, step, result, calls, queue, link, history>>
  /\ short' \in MayBeShort

----------------------------------------------------------------------------
Calls == \E op \in Op : \E arg \in Argument(op) : Invoke(op, arg) \/ InvokeRefused(op, arg)

Authenticates ==
  NextChallenge \/ HandleOk \/ HandleFails \/ Send \/ Stop

Resumes ==
  \/ Challenged \/ NotChallenged
  \/ ReadGreeting \/ NotGreeted \/ UpdateCapabilities
  \/ AuthSucceeds \/ AuthFails \/ UserAnswered \/ PassAnswered
  \/ ApopAnswered \/ RsetDone \/ QuitDone \/ MethodReturns

Next == Calls \/ Authenticates \/ Resumes \/ DropFuture \/ LoseConnection \/ ServerAnswers

Spec == Init /\ [][Next]_vars

(* The executor resumes a call whose reply the stream hands over, an       *)
(* authenticator goes on or returns, and the server answers every request. *)
FairSpec ==
  Spec /\ WF_vars(Authenticates) /\ WF_vars(Resumes) /\ WF_vars(ServerAnswers)

----------------------------------------------------------------------------
(* Every variable has its type, and a client whose state is None has let   *)
(* go of its connection.  Update is never seen by a caller.                *)
TypeOK ==
  /\ state \in {"Authentication", "Transaction", "None"}
  /\ connected = (state # "None")
  /\ capabilities \subseteq Capability
  /\ marked_as_del \subseteq Message
  /\ read_greeting \in BOOLEAN
  /\ call \in [op : Op \cup {"NEW", "none"}, arg : Message \cup Credential \cup {NoArg}, ok : BOOLEAN]
  /\ step \in Step
  /\ result \in [op : Op \cup {"NEW", "none"}, arg : Message \cup Credential \cup {NoArg}, ok : BOOLEAN]
  /\ calls \in 0 .. MaxCalls
  /\ queue \in Seq([cmd : Op \cup {"GREET", "USER", "PASS", "BASE64", "*"},
                    arg : Message \cup Credential \cup {NoArg}])
  /\ replies \in Seq([kind : Kind, caps : SUBSET Capability])
  /\ Len(replies) <= Len(queue)
  /\ short \in BOOLEAN
  /\ link \in {"open", "invalid", "orphaned", "lost"}
  /\ srv \in {"authorization", "challenged", "user", "transaction", "closed"}
  /\ deleted \subseteq Message
  /\ refreshed \in BOOLEAN /\ unseen \in BOOLEAN
  /\ owed \in 0 .. calls

(* No call is under way, no reply is outstanding (as it is for ever after  *)
(* a future was dropped), and neither side has failed.                     *)
Quiet   == step = "idle" /\ queue = <<>> /\ link = "open"
Settled == Quiet /\ connected

(* A client that believes it has logged in has been let in by the server.  *)
(* A login takes up to four requests, each of which may be refused.        *)
TransactionIsTrue == Settled /\ state = "Transaction" => srv = "transaction"

(* A client that was let in knows it: no login returns early when the      *)
(* server has accepted it, whichever of its ways was taken, unless an      *)
(* authenticator asked for a challenge when the server had accepted.       *)
AccessIsKnown == Settled /\ srv = "transaction" => state = "Transaction" \/ unseen

(* A call that returned Ok has been carried out by the server when it      *)
(* returns, and the messages it asked for are not among the deleted ones.  *)
OkIsDone ==
  Quiet /\ result.ok =>
    CASE result.op \in Login                        -> srv = "transaction"
      [] result.op = "DELE"                         -> result.arg \in deleted
      [] result.op = "RSET"                         -> deleted = {}
      [] result.op = "QUIT"                         -> srv = "closed"
      [] result.op \in {"RETR", "TOP"} \cup OnAny   -> result.arg \notin deleted
      [] OTHER                                      -> TRUE

(* What the client checks requests against is what the server can do in    *)
(* the state the session is in now, unless the last list was refused or    *)
(* invalid, or the client has not seen that it was let in.                 *)
CapabilitiesKnown == Settled /\ refreshed => capabilities = Listed \/ unseen

(* The password is not sent once more, by USER and PASS, when the server   *)
(* has already accepted it and the client has seen that.                   *)
PasswordNotAgain ==
  [][(step' = "user" /\ step # "user" /\ link' = "open" /\ Len(queue') = 1)
       => srv # "transaction" \/ unseen]_vars

(* Every call ends: no method awaits a reply that nobody sends, also when  *)
(* the session is invalid or the connection lost.  There are three ways to *)
(* wait for ever: decode_needs asks for more than the replies that came    *)
(* (stream_stale_need), an authenticator has left lines and replies that   *)
(* do not go together, and the server has closed the connection            *)
(* (stream_closed).                                                        *)
CallEnds ==
  step # "idle" ~> step = "idle" \/ short \/ link = "orphaned" \/ srv = "closed"

(* get_state "indicates what state the client is currently in" (lib.rs:    *)
(* 215): Transaction is never said of a session the server has not let in. *)
StateIsTrue == step = "idle" /\ link = "open" /\ state = "Transaction" => srv # "authorization"

(* is_deleted "checks whether a given message is marked as deleted by the  *)
(* server" (lib.rs:316).                                                   *)
DeletedIsKnown == Settled => \A m \in deleted : is_deleted(m)

(* After an AUTH that failed another command may be tried (lib.rs:574):    *)
(* the server does not wait any more for the rest of the exchange.         *)
AuthSettles == Settled => srv # "challenged"
============================================================================

# A verification project for getemail and async-pop2

`getemail` reads the mails of a mailbox, by IMAP or by POP3. Its POP3 client is
the vendored crate `async-pop2`, which holds most of the program's own logic: a
hand-written stream that turns segments of TCP into replies, a parser, and a
client with a state of its own. This directory models that crate and the readers of
`getemail` above it in TLA+, checks them with TLC and proves the central facts
about the stream, the readers and the server map with TLAPS.

Paths below are relative to the root of the repository.

## The system

| part | where | state | operations |
|---|---|---|---|
| response parser | `async-pop2/src/response/parser/` | none | `parse(bytes, command)`: a reply and the rest, a need for more bytes, or an error |
| stream | `async-pop2/src/stream.rs` | `Buffer` (bytes and cursor), `CommandQueue`, `decode_needs`, the socket | `encode`, `read_response`, `poll_next`, `decode`, `ensure_capacity`, `grow`, `reset_with` |
| client | `async-pop2/src/lib.rs` | `state`, `capabilities`, `marked_as_del`, `read_greeting`, `inner` | connect, the POP3 commands, `login`, `auth`, `apop`, `quit` |
| SASL | `async-pop2/src/sasl.rs` | `Communicator.requests` | `send`, `next_challenge`, `stop` |
| connecting | `src/lib.rs` | none | `connect_any`, `connect_any_global_map` |
| readers | `src/pop3_protocol.rs`, `src/imap_protocol.rs` | the client or session | connect, `dyn_get_filtered_emails` |
| server map | `src/server_map.rs` | domain to endpoints, behind a lock | `add_server`, `get_by_domain`, `servers`, `read`, `write` |
| filters | `src/filters.rs` | none | `filter`, `and`, `or` |

A method of the client calls `encode` (write, flush), then `read_response`, which
queues the command and polls the stream. `poll_next` decodes what is in the
buffer, makes room, reads, and decodes again. `decode` asks the parser for the
reply to the oldest command of the queue.

What is hard here:

* the network cuts and joins replies wherever it likes, and the parser is asked
  again on every prefix. What it asks for is kept in `decode_needs`, a variable
  that lives longer than the reply it is about;
* everything is asynchronous, and a future may be dropped wherever it awaits:
  buffer, queue and client then stay as the last step left them;
* one error leaves the buffer lost and the cursor where it was, another leaves
  the buffer full;
* a reader takes many requests for one result, while the mailbox changes under it;
  its read may be dropped half way and the reader be used again;
* an authenticator is code of the program that talks to the server over the
  client's own stream, between two steps of `auth`;
* the server map is shared by all tasks, and a connect keeps its guard for as long
  as it takes, which nothing bounds;
* the client tracks a session that is really the server's, through logins of up
  to four requests whose errors are partly ignored.

What makes the parts correct: a caller is handed the reply to its own request,
whole, whatever the segmentation; every call ends; a session that failed fails
for good; the buffer keeps to its limits; a read returns what matches, or an
error; the client's state, its capabilities and the results of its methods agree
with the server; a server is in the map with all of its domains or with none.

`PROJECT.json` lists the hazards one by one, each at its line, with the
properties that watch it.

## The modules

| module | what it is |
|---|---|
| `PopParser` | the framing decisions of the parser, as operators over sequences of tokens |
| `PopFeed` | bytes arriving one by one, for one command: the properties of the parser |
| `ReplyFifo` | the abstract specification: what a caller of the stream may count on |
| `PopStream` | buffer, queue, `decode_needs`, one call at a time, the wire and the server; implements `ReplyFifo` |
| `MCPopStream` | the replies of the server for TLC |
| `PopClient` | the client's methods over the stream's promises, with a POP3 server |
| `MailReader` | `connect_any`, the two readers and the filters, over an account that changes |
| `MCMailReader` | mails, folders and filters for TLC |
| `ServerTable` | the abstract specification: what the shared server map promises |
| `GlobalMap` | the map behind tokio's lock, connects, lists and writers; implements `ServerTable` |
| `MCGlobalMap` | servers and tasks for TLC |
| `PopParserProofs`, `PopFeedProofs`, `PopStreamProofs`, `PopClientProofs`, `MailReaderProofs`, `GlobalMapProofs` | theorems and proofs |
| `PopFifoProofs` | theorems about the stream that need the framing of whole replies, the refinement of `ReplyFifo` among them |

Definitions that end in a comment `mutant` are variants a mistake in the code
would produce. No specification uses them; each property is known to fail with
one of them in place (`PROJECT.json`, `mutants`).

### PopParser and PopFeed

A byte string is a sequence of tokens. CR, LF, a dot and the letters with which a
keyword begins are one byte each, because the decisions hinge on them one by one; a
status word or any other run of text is one token. What depends on the grammar of a
line is kept as the kind of its text: what `stat` takes (`scan`: two numbers, or
`long` when more text is behind them) and `uidl` (`scan` only: a number and a word),
the first line of a scan listing (`stats`), what the capability grammar or base64
knows (`word`, or `long` when free text is behind it), the beginning of a keyword
(`tag`), or `other`, as is `SASL PLAIN LOGIN`, a capability the grammar rejects because
`LOGIN` is no mechanism it knows. A CR is always followed by an LF.

The needs (`Incomplete(n)`) are those of nom's streaming combinators, and three of them
matter, as they may ask for more than the reply has left: the two bytes that
`line_ending` wants behind a lone CR; the rest of a keyword that `tag` and
`tag_no_case` want behind its beginning (`CutNeed`, `KeywordRest`), although the line
is `LANG` and no `LOGIN-DELAY`; and `Needed::Unknown` (0), which `decode` takes for no
need at all, in free text. `TagLength` is how long the keyword is. A cut inside of a
status word is left out: there `tag` asks for exactly the bytes that the word lacks,
so that the parser is asked again when it is there and never later.

`parse` is the function of that name, `Success` its match on the command,
`ManyTill` the loops of the three listings, `TakeUntil` the body of a message.

`PopFeed` has one action, `Receive`: a byte that may follow what was seen. Its
constants are the texts and a bound on the length.

### PopStream

| code | model |
|---|---|
| `Buffer.inner`, `cursor`; `decode_needs`; `CommandQueue.list` | `inner`, `cursor`; `decode_needs`; `queue` |
| `encode` and `read_response` up to the first poll | `SendRequest`; `SendDropped` when the caller gives up while it writes; `SendFails` |
| the branches of `decode` | `DecodeWaits`, `DecodeDone`, `DecodeIncomplete`, `DecodeInvalid`, `DecodePanics` |
| `ensure_capacity`, `grow` | `HasCapacity`, `Grow`, `RefuseTooLarge` |
| `poll_read` and `move_cursor` | `PollRead(n)`, `PollReadNothing` (end of stream), `PollReadFails` |
| dropping the future | `DropFuture`, at the only place where `read_response` can be pending |
| network and server | `wire`, `CloseByServer`, `ResetByPeer` |

`pc` is where the current call is. The stream is behind a `&mut`, so that there
is one call at a time; interleaving comes from dropped calls, from the server and
from the network. Each byte carries the number of the call it answers, which the
program does not see and the properties use. `Segmentation` says where a read may
stop short: anywhere, at the end of a line, or only at the end of a reply. The
constants are `Chunk` and `MaxSize` (2048 and 20 MiB in the code), the replies of
the server per command, a bound on the calls and the faults allowed.

A future that is polled again starts at the top of `poll_next`, whereas the model
goes on at the read. That this is the same is a property (`RepollStutters`) and a
theorem, not an assumption.

### PopClient

A call is its method and argument (`call`) and what it awaits (`step`): `Invoke`
checks and sends the first request, the actions under `Resumes` take a reply and
send the next request or return. `login` is the sequence AUTH, USER, PASS, CAPA
with its early exits. Below is the stream as `ReplyFifo` promises it: replies in
the order of the requests (`queue`, `replies`), a dropped call leaves its request
in front of the next one, after an invalid response every call fails although its
request is sent (`link`). What the stream does not promise is that a reply that has
arrived is handed out: `short` says that `decode_needs` asks for more than all that is
there, as a cut in the wrong place makes it (`split` in `Faults`), until enough follows. A write to a lost connection may fail at once or when
the reply is awaited; the model takes the second for both, as nothing lies
between them. A call dropped inside of `encode` is left to `PopStream`.

The server is not part of the repository: any request may be refused, good
credentials are accepted, bad ones are not, `DELE` marks and `RSET` unmarks,
`QUIT` closes, and a challenged server takes any line for the response to its
challenge. `marked_as_del` is a set, as its order and duplicates make no
difference to `is_deleted`.

`AUTH` is the method `auth` with one of the two authenticators of the crate, which
have no `handle` of their own; `SASL` is `auth` with one that has. Such a handle is
code of the program, and uses the operations of `Communicator` in any order: it sends
a line or the `*` of `stop` (`Writes`), waits for a challenge (`NextChallenge`, then
`Challenged` or `NotChallenged`) and returns (`HandleOk`, `HandleFails`). `handle` is
the step at which the reply to the last line has not been asked for, `answer` the one at
which no reply is outstanding. A handle that sends a second line at `handle`, or fails
or is dropped there, leaves a reply for which no command is queued; one that waits for
a challenge or returns `Ok` at `answer` makes the client wait for a reply that nobody
sends. In both cases `link` is `orphaned` from then on: the call goes on to its end, or
waits for ever, but the session makes no more calls in the model, as replies and
commands are shifted for good. (Two such lines are the most a handle sends too many.)
The capability list that a login of such a session asks for is answered by the reply to
a line of the exchange, which its grammar rejects unless it is an error. A handle
passes on the error of `next_challenge`; one that swallowed it is not followed. A server challenges once per AUTH; whether
it then accepts depends on the credential. The variables `owed` (replies to calls
that were dropped) and `unseen` (a login was accepted when a challenge was waited
for) are history: no action reads them.

### MailReader

`pc` is the request the program awaits. `LookUp`, `ImapConnects`, `ImapRefused`,
`Pop3Connects` and `Pop3Refused` are `connect_any`; `Begin` starts
`dyn_get_filtered_emails`; `Stat` and `Retr` are the loop of `Pop3`, `GetFolders`,
`Select` and `Fetch` those of `ImapProtocol`; `RequestFails` is every `?` on the way,
which drops what was read; `DropRead` is the caller that drops the future, after
which the reader may be used again. With POP3 the replies to what was asked are then
still to come, and are handed to the next requests in their order, as the stream
does (`ReplyFifo`): `pending` has them, 0 for STAT and n for RETR n, and a reply of
another kind than the request has is an error. The grammar is that of the request
the reply belongs to, as `CommandQueue` keeps it. IMAP tags its requests; that the
library skips what belongs to a dropped one is taken for granted. A connect stands for the transport, the greeting or
CAPABILITY and the login by password or token, all of which only succeed or fail
here. The result is kept as a count per mail, as its order depends on the server.

A filter is the set of mails it lets through. A mail has a subject, the patterns its
subject contains, a sender, a date and an HTML text, each of which may be missing,
and a body that may be empty, which is what `MessageParser` refuses. A regular
expression is asked about the empty text when there is none, so that, unlike the
other filters, it may let a mail through that lacks what it looks at.

The server is not part of the repository: `Change` delivers, moves and removes mails
at any time, the maildrop of a POP3 session is fixed at the login, FETCH is answered
for the messages of the SELECT less those that are gone. A FETCH that the server
refuses is taken to reach the code as an error; whether the library tells it from an
empty answer is not decided by the code of the repository. `moved` counts how often
each mail changed its place. Only of those that stayed can completeness be claimed:
a mail that is moved from a folder not yet crawled to one that was is not returned,
and one that is moved the other way may be returned once more for each move.

### GlobalMap and ServerTable

The tasks of a program share one `ServerMap` behind tokio's `RwLock`, whose queue is
fair: guards are given in the order in which they were asked for (`waiters`,
`Grant`), readers together, a writer alone. A connector calls
`connect_any_global_map`: `Connect` asks for the read guard, `LookUp` or
`ServerNotFound` is `get_by_domain`, and the guard is kept until the connect returns
(`ConnectEnds`). A lister holds the guard of `ArcMap::read` and calls `servers`
(`List`); `Within` says which connects are made while it does. A writer adds a server,
domain by domain (`AddServer`, `Insert`, `WriteEnds`). Any task may be dropped where
it awaits (`GiveUp` in the queue, `Drop` behind it; `add_server` awaits nothing).
`Silent` are the connects whose server never answers: no connect has a timeout.
What a connect does between lookup and end is `MailReader`.

`ServerTable` has the same operations without a lock, each at once: a server is
added with all of its domains, and `servers` returns a set that denotes the table. The
refinement maps the map to the table in which a server that is being added is
there already, from `AddServer` on, when the writer is alone with the map.

## What is checked

| run | question | bounds | distinct states |
|---|---|---|---|
| `parser_feed` | Is the parser's answer stable, and where does a reply end? | every input of at most 10 bytes, 7 commands, keywords of 3 bytes | 1 261 561 |
| `stream_serial` | Is every caller handed its own reply, within the limits of the buffer? | 3 calls, `Chunk` 4, `MaxSize` 12, any segmentation, close and reset, keywords of 7 bytes | 8 903 |
| `stream_cancelled` | Do buffer and queue stay aligned when callers give up? Is `ReplyFifo` implemented? | 4 calls, `Chunk` 4, `MaxSize` 12, any segmentation | 90 438 |
| `stream_live` | Does every call end? | 5 calls, replies unsplit, resets | 2 145 |
| `stream_stale_need` | the same, replies split at line ends: **violated** | 3 calls | |
| `stream_closed` | Is a closed connection reported? **violated** | 2 calls | |
| `client_session` | Do client and server agree on the session? What makes a call wait for ever? | 3 calls after the connect, all faults, any authenticator | 1 126 045 |
| `mail_reader` | Does a read return what matches, once? Is every endpoint tried? Does a read end? | 3 mails, 3 folders, 3 reads, 2 changes, any request may fail, any read be dropped | 746 128 |
| `global_map` | Is the shared map a table? Who waits for ever, and for whom? | 3 connects (one nested, one to a silent server), 1 lister, 2 writers, 2 servers that share a domain | 37 670 |
| `client_deleted` | Does the client know what it deleted? **violated** | 2 calls | |
| `client_cancelled` | Is `Transaction` true after a dropped call? **violated** | 3 calls | |
| `client_challenged` | Does a failed AUTH leave the server ready? **violated** | 2 calls | |

Why the bounds suffice: a keyword of three bytes can be cut behind one and behind two,
and with seven the need goes beyond the reply and, near `MaxSize`, beyond the
buffer. Ten bytes hold every shape the grammar distinguishes, a
first line, an item, the terminating line and the start of another reply behind
them. With `Chunk` 4 and `MaxSize` 12 the replies of 3 to 15 bytes are smaller
than a chunk, fill it exactly, need one growth or two, and do not fit at all.
Three calls show what one reply leaves behind for the next and the one after;
four are needed for two dropped calls with replies on both sides. Three calls of
a client are a login, a change and the call that should notice. Two changes of the
account take a mail away and bring another, or move one twice. Three reads are two
that are dropped and one that finds their replies in front of its own: with one
mail in the maildrop it takes those of the second for its own, and rightly so. Two
servers that share a domain show a domain that changes hands and a list with
merged and with shadowed entries; two writers and a nested connect are what it
takes to queue a writer between a guard and a second guard of the same task.

All bounds: `MaxLen` (bytes of `PopFeed`), `MaxSent` (calls of `PopStream`),
`MaxCalls` (calls of `PopClient`), `MaxReads` and `MaxChanges` (of `MailReader`);
`GlobalMap` needs none, as its tasks call again for ever. `CHECK_DEADLOCK FALSE` is set throughout:
when the calls are used up, or a session is over, nothing has to happen.

### Fairness

`FairSpec` of `PopStream` has weak fairness on decoding, making room and reading:
the executor polls a future whose socket is ready, and a reply that was sent
arrives. No caller has to call and no server to close. `FairSpec` of `PopClient`
has weak fairness on resuming a call whose reply the stream hands over (`Readable`: it is
there, and `decode_needs` does not ask for more, or the stream has an error), and on the
server answering each request. It does not say that a reply that is there is handed
over, as the code does not (`stream_stale_need`): `CallEnds` has `short` among the ways
to wait for ever, and `stream_live` says when the stream hands it over. An authenticator
goes on or returns (weak fairness on its steps as a whole). In `MailReader` each request
is answered or fails. In `GlobalMap` the lock serves its queue, and every task goes on that can;
nothing makes a silent server answer. A task that holds a guard and connects under
it may call again and again; that it ends is strong fairness on `ReadEnds`: it
makes finitely many calls inside of one guard. The assumptions about servers are
assumptions about the environment; what a server that closes instead does to a caller is
`stream_closed`.

### The violations

1. **`decode_needs` outlives its reply** (`stream_stale_need`, `stream.rs:81`).
   A CAPA reply cut at the end of a line, or behind the beginning of a keyword, leaves a
   need that is longer than the following `+OK`, which is received and never decoded.
   `OnlyNeedsDelay`, which holds in `stream_serial`, says that this is the only way to
   miss a reply, and `stream_live` that without such a cut every call ends.
2. **A closed connection is not noticed** (`stream_closed`, `stream.rs:163`).
   A read of zero bytes is decoded like any other and repeated for ever;
   `ErrorKind::ConnectionClosed` exists and is never constructed.
3. **`dele` does not record** (`client_deleted`, `lib.rs:361`): `is_deleted` is
   always false. The server refuses the message all the same (`OkIsDone`).
4. **A dropped call shifts the replies** (`client_cancelled`): the next login takes
   the `+OK` of another request for its own, and says `Transaction` of a session
   the server has not let in.
5. **A challenge is left open** (`client_challenged`, `lib.rs:599`): the client
   returns without the `*` that would end the exchange.

## What is proved

`tlapm` checks the proofs from nothing. Every invariant and every action property
that the runs check, and both refinements, are theorems for every value of the
constants, from the `ASSUME`s on them, which TLC evaluates in every run:

| assumption | what it says | why |
|---|---|---|
| `SizeAssumption` | `Chunk` is positive, `MaxSize` a multiple of it | `CHUNK_SIZE` and `MAX_SIZE` in `stream.rs:216` |
| `EnvironmentAssumption`, `FeedAssumption` | replies consist of tokens | the shape of the model |
| `ReplyAssumption` | the parser takes each reply of the server as a whole, or rejects it | about the server; the exceptions are below, under what is not modelled |
| `ClientAssumption`, `ReaderAssumption`, `MapAssumption` | the types of the constants, that different things have different names, and that the mails are finitely many | the shape of the model |

Three theorems have a hypothesis besides, that no caller gives up: `StreamOwnReply` and
`StreamPanicsOnlyAfterInvalid` (`Patient`, as in `stream_serial`) and
`ClientStateIsTrue`. Without it the three properties are false, as a dropped call leaves a
reply in the buffer, which the next one takes (`client_cancelled`) or `reset_with` has
no room for (`stream.rs:250`).

### The parser

* `FeedStable`: `Spec => ReplyIsStable`, for inputs of any length. It rests on
  `ParseStable` of `PopParserProofs`, which goes through the parser branch by
  branch: appending a byte does not change what lies in front of it (`AtStable`),
  the line where a listing stops stays the first that is no item
  (`LinesStable`, `StopIsUnique`), and the first terminator stays the first.
* `FeedWhole`: `Spec => []ReplyEndsLine`, from a lemma per grammar: where it accepts,
  a line ends.
* `FeedListing`: `Spec => []ListingEndsWithDot`. What is received has a CR in front
  of every LF (`LinesEndWithCRLF`, which is inductive). A listing of any of the three
  commands stops at the first line with a dot (`ListingDot`); the terminator of a message
  is the first behind its first line (`BodyDot`), and the dot that this passes over is
  directly behind that line, nowhere else. That such a message is not complete is
  what the code does, and stated by the property.

### The stream

* `StreamTyped`: `Spec => []TypeOK`, for every `Chunk`, `MaxSize`, set of replies
  and faults. `TypeOK` is not inductive: that `remaining` is a suffix of the
  buffer needs the cursor inside of it unless the buffer was lost, and that there
  is a current command needs `RequestKnown`. `TypeInv` adds both.
* `StreamRepoll`: `Spec => []RepollStutters`. `NeedInv` adds to `TypeInv` that the
  need of a call behind `decode` is the one that the parser would find now.
* `StreamFailStop`: `Spec => FailStop`. `FailInv` says what a failed session looks
  like: after an invalid response the buffer starts with a zero byte (or ends in
  front of the cursor, where `decode` panics), which no grammar accepts
  (`ZeroRejected`); after one that was too large the oldest command, the bytes and
  the need are all as they were when the buffer could not grow, so that it cannot
  grow for the next call either.
* `StreamRequestKnown`: `decode` always finds a command in the queue, so that
  `MissingRequest` is never returned.
* `StreamRefusedIsLarge`: `Spec => RefusedIsLarge`. It is a statement about
  every refusal: the buffer holds `MaxSize` bytes, or what the parser asks for behind the
  bytes that are there ends behind `MaxSize`. That may be more than the response has left
  (two bytes behind a CR, a longer keyword), so that one that just fits may be refused.
  `CapacityInv` says that the buffer is a whole number of chunks and that a
  need beyond `MaxSize` is the one the parser has now (`NeedIsParsed`): one that
  outlived its reply was met by a buffer before.
* `StreamAligned`, `StreamOnlyNeedsDelay`, `StreamImplementsFifo`: `Aligned`,
  `OnlyNeedsDelay` and the refinement of `ReplyFifo`, whoever gives up when, for any
  replies that `ReplyAssumption` admits. None is inductive, as none says what is in the buffer. `Framed` does:
  the unread bytes, those of the buffer in front of those of the wire, are
  the replies to the queued commands one behind the other, the last one cut if the
  server closed (`Frames`). A call appends a frame (`FramesAppend`), a close cuts
  (`FramesCut`), and a reply that is found takes the first frame, no byte more or less
  (`FramesTail`): by `ReplyAssumption` the whole frame parses to its length, and by
  `ParseStable` what was found in a part of it would have been found in
  the whole (`HeadReply`). `FifoInv` adds that the queue is in the order of the calls
  and that no byte comes from a call that was not made. A step is then one of
  `ReplyFifo` or a stutter (`FifoStep`).
* `StreamOwnReply`, `StreamPanicsOnlyAfterInvalid`, under `Patient`: `SerialInv` adds that a
  sound session has the command of the current call in its queue and no other; with
  `FifoInv`, nothing follows its reply (`NothingBehind`), so that what is left for
  `reset_with` is empty.

### The client

`ClientTyped` is inductive together with `InStep`, which counts the requests on an
open link, and with a server that deletes nothing but messages. (`InStep` is no result:
`link` is `orphaned`, by definition, when an authenticator breaks it.) The rest
(`ClientTransactionIsTrue`, `ClientAccessIsKnown`, `ClientOkIsDone`, `ClientCapabilitiesKnown`, `ClientPasswordNotAgain`) follows from one
invariant, `ClientInv`: as long as the connection is open and no reply is owed to a
dropped call (`Synced`), there is one request at most and it is that of the step the
call is at (`RequestInv`); an answer on its way says what the server did for it
(`AnswerInv`); between two calls client and server agree on the session
(`SessionInv`), on the capabilities (`KnownInv`) and on the last result (`DoneInv`). By
`InStep` a client that is in sync cannot have taken another request's answer
(`InTurn`, `Took`), which is why the parts hold of every step of a login. Nothing is
claimed of a client out of sync: `client_cancelled` shows what it believes.
`ClientStateIsTrue` is the other half of that violation: when no call is dropped no reply
is ever owed (`NothingOwed`), and `StateIsTrue` holds.

### The readers and the map

* `ReaderTyped`, `BestConnection`, `ResultIsExact`, `ResultIsComplete`: `TypeOK`,
  `ConnectIsBest`, `ReadIsExact` and `ReadIsComplete` of `MailReader`, for every
  finite set of mails, every filter, and any number of reads and changes. None
  is inductive. `ConnInv` says what has been tried at each step of `connect_any`.
  `ImapInv` relates the count of a mail in the result to its moves, to
  whether its folder is still to be crawled and to whether it was there at the
  SELECT: a mail in a folder to come was counted once less than it may be. `PopInv`
  does it for the numbers of the maildrop. `PendInv` is about dropped reads: their
  replies are runs of STAT, RETR 1, RETR 2, ... in order, so that a read that has
  been handed a STAT finds next either RETR 1 or another STAT, and so on: it takes
  the replies of one read, or fails (`OwnMail`).
* `MapTyped`, `MapEntryIsCurrent`, `MapImplementsTable`: `TypeOK`, `EntryIsCurrent` and
  `ImplementsTable` of `GlobalMap`, for any sets of tasks, servers and domains. The
  invariant adds to `TypeOK` that a writer is alone and that nobody adds who does not
  hold the write guard; the refinement maps every step to one of `ServerTable` or to a
  stutter.

### Only model-checked

The liveness properties (`Answered`, `CallEnds`, `ReadEnds`, `Served`): liveness under
fairness is out of the prover's reach. That the loops of the parser find what a
recursive reading of the grammar would is not stated: they are defined by the line where
they stop, and what is proved is proved of that.

## What is not modelled

The values inside of a line (numbers, texts, base64), how requests are written
out, TLS, proxies and the runtime: pure I/O and conversions. `trace!` unwraps a
conversion to UTF-8 of the buffer (`stream.rs:76`), which panics for mails in other
encodings when tracing is on; the model has no encodings. A reply of the server
is always one that a POP3 server may send; a LIST whose first line consists of
two numbers is in the parser's model and in no run: a server that sends it makes
the caller of LIST take the listing for the reply to the next command. Neither is a
mail without any line, whose dot directly behind the first line is not taken for the
end. `ReplyAssumption` states what is left out.

How a server of the map is written as JSON or TOML and read back (the untagged
`Endpoints`), dot-stuffing of message bodies and the values inside of a challenge
are conversions. The filter of a reference to a filter (`filters.rs:22`) is `todo!()`.

A session in which an authenticator sent, awaited or left unanswered a line too many or
too few makes no more calls in `PopClient`; calls dropped inside of a write are
not in `PopClient` and `MailReader`: `PopStream` shows the latter for the stream.

## Plan

Every module of the plan is written, and every safety property that is checked is
proved. What is left:

1. The promises that `PopClient` builds on, stated of it as a refinement of `ReplyFifo`,
   so that client and stream meet at one specification.
2. What holds of the stream when callers give up while a request is being written:
   so far `FailStop`, `ImplementsFifo` and `Aligned` hold there, and `Aligned` claims nothing
   of a session that was orphaned.

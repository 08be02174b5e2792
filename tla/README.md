# Verification of libstomp

libstomp is a small C client library for the STOMP messaging protocol, built on
the Apache Portable Runtime (APR). An application creates a *messenger*, gives it
an endpoint, connects, subscribes, sends and receives. This directory holds TLA+
models of the library, the TLC configurations that check them and TLAPS proofs
about them. Paths below are relative to the repository; `stomp_messenger.c:246`
means line 246 of `src/stomp_messenger.c`.

## Inventory

| Component | State | Operations | Interacts with |
|---|---|---|---|
| Messenger (`stomp_messenger.c`) | `connection`, `uri`, `status`, `options`, `exchange_properties`, `pool` | init, destroy, set_timeout, set_endpoint, connect, disconnect, subscribe, unsubscribe, ack, nack, begin, commit, abort, send, receive | calls engine and I/O; reads their last errors |
| Engine (`stomp_engine.c`) | a static `error`; per connection a socket and addresses | connect, set_timeout, disconnect, last_status | called by the messenger; owns the socket |
| Frame reader (`stomp_io.c`) | a static `error`, the position in the byte stream, the frame being built | read, read_line, read_buffer, can_read, last_status | called by the messenger |
| Frame writer (`stomp_io.c`) | the same static `error` | write, write_buffer | called by the messenger |
| Status (`stomp_status.c`) | a code (bit mask) and a formatted message | set, reset, success, stomp_success, stomp_error | used by every layer |
| Exchange properties (`stomp_ex_properties.c`) | a hash of headers | add, get, clear, util_ctime | copied into each SEND, replaced by each receive |
| Message (`stomp_message.c`) | body, size, a pool | create, destroy, format | filled by receive, read by send |
| Example programs (`example/messenger`, `example/engine`) | the place in the program, exit status | a client and a server on the messenger, and the same on the engine | call the messenger, or the engine and I/O |

The library starts no thread and has no callbacks. All concurrency is between the
application's one thread and what is on the other side of the socket: a broker
that answers, dispatches messages when it likes, refuses, closes; and a network
that delivers in pieces, late, or not at all. What makes the code hard to get right
is therefore:

* **order**: a reply is "the first frame that comes" (`stomp_messenger.c:200`,
  `:235`). Only its command is compared, never the id of the receipt, and the broker
  may dispatch a message in front of it;
* **time**: every wait has a timeout, after which the answer may still come, to be
  met by whatever call reads next;
* **pieces**: a recv may return less than asked, or time out in the middle of a
  frame, and a send may fail half way through one. There is no resynchronisation:
  the next call continues where the stream stands;
* **reports**: three status objects exist (messenger, engine, I/O), and the
  details of an error are copied from one to the other by hand;
* **memory**: strings are handed on as pointers into pools that go at different
  times: the properties keep pointers into a received message, every messenger
  terminates APR for the whole process, and only the end of a pool closes a socket;
* **numbers**: ids of 64 bits go through the `int` of `apr_itoa`, a size of -1 is
  kept in an unsigned field, and a size counts the NUL.

What makes each component correct:

* *reader*: in sync, frames come out whole, unaltered and in order, and a timeout
  before the first byte costs nothing; a call returns; an error has a cause outside
  the parser;
* *messenger*: success with a receipt means that the broker has carried out the
  request and all before it; success of connect means a session; messages reach
  the application once and in order, and no call reports success for one it drops, but
  for a receive whose time is over in the middle of it; the return value and the status
  agree;
* *writer*: what is written is one frame the peer can read, or the call fails;
* *engine*: a failed connect leaves the old connection as it was; a connection that
  stomp_connect has reported is one with a peer; no socket outlives its messenger;
* *exchange properties and message*: what they hand out stays valid as long as the
  documentation says;
* *ids*: two transactions of the application are two at the broker, and what is sent
  in one gets into the queue when it is committed, and only then;
* *programs*: each comes to an end, and exits with success when it has done what it is
  for.

## Modules

| Module | Models | Kind |
|---|---|---|
| `StompStatus` | `stomp_status.c` | operators shared by the others |
| `FrameChannel` | what `stomp_read` promises, frame by frame | abstract specification |
| `StompRead` | `stomp_read`, `stomp_read_line`, `stomp_read_buffer` | one action per recv; implements `FrameChannel` |
| `StompMessenger` | every call of `stomp_messenger.c`, the broker and the network | composed with `FrameChannel` through `INSTANCE` |
| `WriteChannel` | what `stomp_write` promises, frame by frame | abstract specification |
| `StompWrite` | `stomp_write`, `stomp_write_buffer`, and a broker that reads the bytes | one action per send; implements `WriteChannel` |
| `StompExchange` | exchange properties and messages, as `stomp_send` and `stomp_receive` use them | one action per call |
| `StompEngine` | `stomp_engine.c`, and init, destroy, set_timeout, connect and disconnect of the messenger as far as sockets and pools go | one action per call |
| `DataBlocks` | the memory of `stomp_read_line` and `stomp_read_buffer` | one action per byte received and per block copied |
| `StompTransactions` | the ids and the ack mode the messenger writes, and what a broker makes of them | one action per call |
| `StompPrograms` | the four example programs, a broker and its queues | one action per step of a program |
| `StompReadProofs` | | types and errors of `StompRead`, and that it implements `FrameChannel`, proved |
| `StompMessengerProofs` | | types, receipts and sessions of `StompMessenger`, proved |
| `StompDeliveryProofs` | | messages and statuses of `StompMessenger`, proved |
| `StompExchangeProofs` | | all of `StompExchange` that the run checks, proved |
| `StompEngineProofs` | | all of `StompEngine` that the run checks, proved |
| `DataBlocksProofs` | | all of `DataBlocks`, proved |
| `StompTransactionsProofs` | | the transactions of `StompTransactions`, proved |
| `StompProgramsProofs` | | all of `StompPrograms` but that the programs end, proved |
| `MC...` | | instances for TLC |

The modules cut the library along its layers. `StompRead` and `StompWrite` stand for the
bytes of one connection, `DataBlocks` for the memory below `StompRead`;
`FrameChannel` and `WriteChannel` are the two promises that the messenger is built on.
`StompMessenger`, `StompExchange`, `StompTransactions` and `StompEngine` are four
views of the same calls, for the order of frames, for headers and bodies, for ids, and
for sockets and pools; what one leaves out is in another. `StompPrograms` puts
several applications around one broker.

### StompRead and FrameChannel

`stream` is every byte sent on the connection and `rpos` how many the reader has
consumed; what has *arrived* is no state of its own, because any recv may also time
out or return fewer bytes. `pc` is the place in the call: `command` and
`headers` are the two uses of `stomp_read_line`, `body` and `terminator` the two recvs
after a `content-length` header (`stomp_io.c:472`, `:481`), `rest` and `endline`
those of `stomp_read_buffer`. Each action is one recv with all the code that follows
it up to the next recv or the return. `line` and `frame` are the line read so far and
the frame `f`; `result` is what the last call returned; `sent` and `base` are history
variables. A byte of the model is a delimiter, a digit or a whole name: nothing in the
code depends on how long a name is, except for the blocks the bytes are collected
in, which the model replaces by the sequence they hold. The recv whose result
is not looked at (`stomp_io.c:208`) leaves `endline[0]` uninitialised when it
fails; `ReadEndline` then chooses. A connection that is reset looks like one that has
ended and has lost bytes; the callers do not tell the two apart.

`FrameChannel` says the same in terms of frames. `inflight` holds the frames sent and
not yet read, `insync` says whether the reader stands on the first byte of one. In
sync, a read returns the oldest frame or fails; a failure inside a frame
destroys it and loses sync. A read that succeeds may lose sync too, since a frame is
returned even when the line feed behind its NUL did not come. A body that contains
the bytes NUL and LF may be cut there (`ReadCut`). Out of sync nothing is
promised (`ReadAstray`). `ImplementsFrameChannel` maps `StompRead` to it: `inflight`
is the list of frames that begin at or after `base`, `insync` says that `base` is a
frame boundary. `FramesAssumption` says which frames a peer sends: what delimits a frame is
no part of its names and values (a value may hold a colon), and a `content-length`, where
there is one, is the length of the body. `Number` is what a numeral stands for, the data
behind `apr_atoi64`.

### StompMessenger

The application is one thread. A call that needs no reply is one step; one that does
is a step that writes the request (`call.ret` becomes `Pending`) and a step,
`AwaitReply`, that ends the wait: the code of `stomp_process_receipt` and of the end of
`stomp_connect`, which differ in the command they expect. `stomp_receive` is one step,
since what it reads before it returns touches nothing else the application can see.
The broker (`Accept`, `Refuse`, `Dispatch`) and the network (`Disconnect`) act at any
time in between. The broker is external: it carries requests out in order, answers
those that ask for a receipt, and closes after an ERROR, as a STOMP broker does.

`stomp_write` is one step with four outcomes: it succeeds; it fails and the peer has
nothing of the frame; it fails and the peer has part of it (`torn`: what follows on that
connection is no request for the broker); it fails on the last line feed, which the
peer does not need. `stomp_connect` replaces the connection with a fresh one when
`stomp_engine_connect` succeeds and keeps the old one when it fails. A status is
its code and the pair (text, detail), where detail is what the code formats into
the message: that is where the three status objects meet.

`written`, `processed`, `subscribed`, `dispatched`, `delivered` and `clean` are history
variables. `clean` says that on this connection every write succeeded, every read began
in sync and every wait for a reply ended in success; an empty `stomp_receive` or one
that gets an ERROR does not spoil it.

Preconditions of the application: it makes no request without a connection, connects
after it has set an endpoint with a path, and subscribes, unsubscribes and
sends with a valid path. (The code dereferences what is missing.)

Left out of `StompMessenger`: headers other than receipt and destination, the body
of a message, the exchange properties that `stomp_receive` replaces and `stomp_send`
copies (`StompExchange`), `stomp_messenger_destroy` (`StompEngine`), failing
allocations. None of them influences the state that is modelled, with one exception: a
`receipt` or `transaction` that came in with a received frame goes out with the next
SEND (`StompExchange`), so applications are those that clear the properties, or whose
broker drops what was meant for itself. A connection without a peer, which
`stomp_engine_connect` makes of EAGAIN (`StompEngine`), is one on which every write
fails: `EngineConnects` followed by `WriteFails`.

### StompWrite and WriteChannel

`todo` holds the pieces of the frame that are still to be sent, one for each call of
`stomp_write_buffer`; `Pieces` is the whole of `stomp_write` up to its sends, with the
headers in any order the hash may give. A send takes any number of bytes of the first
piece, or fails and ends the call. `peer` is a broker that reads every byte the socket
takes: it knows lines, headers and both kinds of body, counts the first of two equal
headers, and takes a `content-length` that is no length (-1, which the code writes for a
frame without a body because `body_length` is unsigned, `stomp_io.c:326`) for none.
`ImplementsWriteChannel` says that what this broker has made out, when a call
returns, is what `WriteChannel` allows: the frames that were written, in order, with
their headers and bodies; after a failure nothing, or all of the frame, or a part that
spoils the rest of the connection (`torn`). These are the outcomes `WriteRequest` and
`WriteFails` of `StompMessenger` have.

### StompExchange

A property is an entry of a hash: the pool its key is in, the pool its value is in, and
what the value says. The pools are the application's, the messenger's, and one for each
message. `stomp_receive` lays the headers of the frame, which are in the pool
of the message, over the properties, in a new hash; `apr_hash_set` keeps the key an entry
has. `stomp_send` copies the hash, adds what the call asks for, and writes; `sent` is
what goes out, and what a broker reads of it: the first `content-length` counts, and that
is one that came in with an earlier frame. A call asks for a receipt, for a transaction,
for both or for neither (`Asks`), since the code tests the two numbers by themselves
(`stomp_messenger.c:551`). What the broker has read may come back to the application
(`Echo`); which headers a broker leaves out of the message is its own affair (`Dropped`),
and so are the headers of a frame from elsewhere, which may have any names, `receipt`,
`transaction` and `creation` among them. `known` is a history variable: for each name put
into the properties since they were cleared the newest text, and who brought the name
first and who brought the text last.

`HeadersAsAsked` compares the headers of a SEND with `known` and with what its call asked
for, as whole functions: a header that is missing, stale or left over is a difference.
`PropertiesStay` says the same of the properties themselves, and that key and value are in
memory for as long as the messages that brought them: the key counts too, because
`apr_hash_set` keeps the one that came first. So a creation time that is set after a frame
with a `creation` header has come in lasts no longer than that message, which
`OwnPropertiesDurable.cfg` shows.
`Intact` says that every pointer can be followed; the operations that follow them have
it as their precondition, since an application that destroys a message it has
received into must clear the properties first or leave them alone.

### StompEngine

Each socket is a record of the pool it was created in, its state, its timeout and its
mode; `connection[m]` is the socket `messenger->connection` refers to.
`stomp_engine_connect` can fail at seven steps, and `Abandoned` says what each leaves
behind. A connect that returns EAGAIN passes as a success (`stomp_engine.c:88`), and the
socket has no peer: `PastConnect` holds both states a socket may be in from there on. The
steps behind it may fail on such a socket or not; where none does, the connection refers to
it, and `stomp_connect` fails at the CONNECT it writes. `established` is a history
variable: `stomp_connect` has reported success on the connection the messenger has.
`ConnectionUsable` says that such a connection has a peer, whatever connects failed
since, and that every connection is an open socket of its own messenger. `apr_initialize` and `apr_terminate` count for the whole process, which is why
there are several messengers. `stomp_messenger_init` is modelled without its failing
allocations. The frames that `stomp_connect` and `stomp_disconnect` exchange are a
choice between success and failure here, where there is a peer, and fail where there is
none. That a peer goes away later is left to `StompMessenger`.

### DataBlocks

One call of `stomp_read_line` or `stomp_read_buffer`, told apart by `call`. Memory is a
function on offsets, so that a byte stored outside is one outside its domain. `blocks`,
`i`, `bytesRead`, `head` and `p` are the variables of the code; `received` is history.
A recv that returns no byte and no error changes nothing. In `stomp_read_buffer`
the last byte is a NUL already; that the line feed behind it may be missing is the choice
between `ReceiveLast` and `ReceiveWrong`.

### StompTransactions

The number in a `transaction` header is `apr_itoa` of the id: the id modulo `Wrap`, around
0, where `Wrap` stands for 2^32. The broker has the open transactions under the numbers
it reads. `fate` records what the application wants of each message it has sent. Requests
reach the broker in order and all of them (`StompMessenger` has the other cases), and
the application begins no transaction twice and ends only those it has begun. The
second half are the ack modes: the code never writes `header->ack`, so the broker
takes every subscription for `auto`. A transaction in an ACK is left out.

### StompPrograms

Each program is a sequence of steps, `Script(p)`: the calls of `main` in their order, with
a messenger call split into the write and the wait as in `StompMessenger`. A step that
fails ends the program. The programs of the engine read with no timeout on a socket that
does not block, so that a `read` may fail whenever the frame is not there. The broker
carries out requests in order, may put a MESSAGE in front of the RECEIPT of the
SUBSCRIBE, may refuse, and may lose the connection at any time; a connection that never had
a peer (EAGAIN) is one whose first write fails. Two things are assumed of
it: it takes `SUB`, which `engine/server.c` writes, for SUBSCRIBE, and a queue's
name with and without its root for the same queue. `engine/server.c` names another queue than
the rest, so other applications (`Others`) send to it. `Casts` bounds which
programs run side by side.

## Runs

| Run | Bounds | Properties |
|---|---|---|
| `MCStompRead.cfg` | 2 frames out of 4 | `TypeOK`, `ImplementsFrameChannel`, `ErrorsAreExplained`, `CallReturns` |
| `MCStompMessenger.cfg` | 3 requests, 2 messages; CONNECT, SUBSCRIBE, SEND | `ReceiptCovers`, `ConnectMeansSession`, `MessagesConserved`, `OneReceiptAtATime`, `OnlyTimeoutDropsSilently` |
| `EveryCall.cfg` | 2 requests, 1 message; all ten requests, a valid, an empty and no path | `TypeOK`, `StatusAgrees` |
| `MCStompWrite.cfg` | 3 writes of 5 frames | `ImplementsWriteChannel`, `WriteReturns` |
| `MCStompExchange.cfg` | 2 messages, 1 text; a property `receipt`, which the frame from elsewhere has too, beside a `destination`; an echo without `transaction` | `HeadersAsAsked`, `TextSurvives`, `PropertiesStay` |
| `MCStompEngine.cfg` | 2 messengers, 3 sockets, a timeout of -1 and one of 1000 | `TypeOK`, `PoolWhileInUse`, `NothingLeftOpen`, `ConnectionUsable`, `FailedConnectKeeps` |
| `MCDataBlocks.cfg` | blocks of 3 bytes, 8 bytes | `TypeOK`, `InsideMemory`, `DataIsReceived`, `NoEmptyBlock` |
| `MCStompPrograms.cfg` | a client and a server of the messenger with a client of the engine; or a client and a server of the engine with 2 other applications | `TypeOK`, `SuccessMeansSent`, `FirstMessagePrinted`, `Terminates` |
| `MCStompTransactions.cfg` | ids 0 and 3, an int of 4 numbers, 3 messages | `QueueAsAsked`, `NeverRefused` |

*Frames.* The four frames are the four ways the reader can go: without a
`content-length`; with one, around a body that contains the terminator; with a
`content-length` of 0; with a header given twice and a value that holds a colon. Two
frames are enough for what goes wrong in one to reach the next.

*Requests.* An answer taken for another needs two requests, and a reconnection
makes the third. The requests differ in three things: whether they replace the connection,
whether they subscribe, and whether they ask for a receipt; CONNECT, SUBSCRIBE and SEND
show all three, and `EveryCall` runs the rest. Two messages are the least that can be
lost, repeated or overtaken. With four requests and one message (1.1 million states)
nothing new appears.

*Writes.* The five frames are the kinds the library and its examples write: with headers
of which one is empty, with a text and its size, with a size and a NUL inside, without a
size, and without headers or body. Three writes let a frame follow one that was cut,
and one that follows it.

*Messages and sockets.* Two messages are needed for one to be received into while
another is sent on, or destroyed. The names are chosen to meet: a property of the
application and a header of the frame are called as the header that `stomp_send` adds, and
a header of the frame as the one it overwrites. Three sockets allow a connection of one messenger
beside a reconnect of the other. Nothing in the engine depends on the value of a
timeout but its sign.

*Blocks.* Two full blocks and two bytes more let the end fall on every place of a
block, the first of all included; the proofs take every size.

*Programs.* Two senders are the least for a second message to come before the first has been
read. *Transactions*: one message in each of two transactions and one outside; an
int of two bits narrows 3 to -1, which a frame may carry and the test for -1 must not see
(the bug `WritesNarrowed`).

*View.* The run of `MCStompMessenger.cfg` identifies states that differ in the three
status objects only. They are written and never read, except into one another, so they
change neither what can happen nor any property of that run.

In `MCStompEngine.cfg` the view leaves out the statuses and the last call, which are not
read either. *Symmetry* is used for messages and messengers where no property is a
liveness property.

*Deadlock* is checked in the runs of `StompRead`, `StompMessenger`, `StompWrite` and
`StompTransactions`, where something can always go on. Where `CHECK_DEADLOCK FALSE`
is set the system may really stop: the programs end, a call of `DataBlocks` returns and is
not made again, messengers and messages are not created twice, and an application whose
properties point into a destroyed message can do nothing with them.

Three runs state what a comment of the code says and TLC refutes:

| Configuration | What the counterexample shows |
|---|---|
| `SuccessMeansProcessed.cfg` | The wait for receipt 1 times out; its RECEIPT then comes and is taken for that of request 2, which the broker has not read (`stomp_messenger.c:246`). |
| `StompReadFully.cfg` | The body of a frame is received in two pieces; only the first is read (`stomp_io.c:472`). |
| `SendsTheMessage.cfg` | The `content-length` of a received frame goes out with the next SEND, in front of the right one (`:536`). |

The other places where a comment and the code differ have a configuration each, which
PROJECT.json does not list; TLC refutes the one invariant each of them names, with the
`MC` module of the specification that defines it.

| Configuration | What the counterexample shows |
|---|---|
| `FailureMeansNotProcessed.cfg` | A MESSAGE arrives before the RECEIPT: the message is dropped, the call fails, and the broker carries the request out. |
| `TimeoutMeansNoData.cfg` | A `stomp_receive` that times out inside a frame returns `STOMP_SUCCESS` without `STOMP_NO_DATA` and without a message (`stomp_messenger.c:606`); `OnlyTimeoutDropsSilently` says that nothing else does. |
| `FailureSetsStatus.cfg` | A `stomp_receive` that gets a frame other than MESSAGE fails and leaves the status alone (`:603`). |
| `WriteFailureHasDetail.cfg` | The detail of a failed write is the engine's last error, not that of the write (`:182` and its copies). |
| `DestinationsStripped.cfg` | UNSUBSCRIBE carries the destination with the root that SUBSCRIBE strips (`:358`). |
| `PropertiesDurable.cfg` | After a receive the properties point into the message, and are left dangling when it is destroyed (`stomp_messenger.c:596`). |
| `OwnPropertiesDurable.cfg` | The same happens to the key of a property, or of the creation time, that the application has set again after a frame that had it. |
| `HoldsTheData.cfg` | Data with a NUL inside is cut there (`stomp_message.c:51`). |
| `Disconnected.cfg` | After `stomp_disconnect` the socket is open (`stomp_messenger.c:294`). |
| `EngineStatusAgrees.cfg` | `stomp_engine_disconnect` fails and leaves the engine's status as it was (`stomp_engine.c:190`). |
| `ConnectFailureHasCause.cfg` | Five of the seven messages of `stomp_engine_connect` hold the host where the cause should be (`:82` and its copies). |
| `TimeoutSetsBlocking.cfg` | A negative timeout does not make the socket block (`:160`, `:100`). |
| `OneMessageExchanged.cfg` | `server.c` exits with success and without a message when its time is over inside a frame (`example/messenger/server.c:93`). |
| `ReplyIsRead.cfg` | `engine/client.c` gives up, on a connection that stands, because the reply has not come yet (`example/engine/client.c:80`). |
| `AnyIdIsAnId.cfg` | Ids that differ by a multiple of 2^32 are one transaction at the broker (`stomp_messenger.c:406`). |
| `KeptUntilAcknowledged.cfg` | The ack mode is not written: a message is forgotten by the broker before it is acknowledged (`:323`). |

### Fairness

`StompRead` assumes weak fairness of the reader's own step: a recv returns. The code
justifies it where the application passes `stomp_connect` or
`stomp_messenger_set_timeout` a timeout that is not negative, as the examples do: then
every recv ends at the latest with APR_TIMEUP. Nothing is assumed of the peer, and
no call is assumed to be made. `StompWrite` assumes the same of a send, for the same
reason, and lets the broker stop taking bytes for ever. `StompPrograms` assumes weak fairness of each
program's own steps: the programs of the messenger set timeouts of 1000 and 10000 ms, those of
the engine read from sockets that do not block. Nothing is assumed of the
broker. `StompMessenger` states no fairness and no liveness:
each of its waits is a poll with the same timeout, followed by one `stomp_read`.

## Proofs

`StompReadProofs` proves, for any number of frames of any length, any interleaving of the
reader with the peer and any loss of the connection, from `FramesAssumption`,
`NumberAssumption` and `MaxFramesAssumption`:

* `TypeCorrect`: `Spec => []TypeOK`.
* `ErrorsExplained`: `Spec => ErrorsAreExplained`. The parser itself never refuses what a
  peer sent correctly.
* `ReadImplementsChannel`: `Spec => ImplementsFrameChannel`, the refinement that
  `StompMessenger` is built on.

None of the three is inductive. The invariant is `IInv`, which TLC has checked on the
instance of `MCStompRead` before:

* `Sends`: the stream is the frames sent, one behind the other, up to where a lost connection
  has cut it off; `Counted`: for every position there is a number of frames that begin
  before it, which is what makes `Begun` and `Ahead` of the refinement mapping computable.
* `Follows`: a reader that began on the first byte of a frame is where that frame says.
  `Progress` has one part for each place of the code: which byte of the frame comes next,
  what `line` holds, and what has been built of the frame (`Made`, with the headers read
  so far in `Merged`). In `InTerminator` and `InRest` the body may be any part of the
  frame's, since the one recv of a body may be short.
* `Fresh` and `Built`: a call begins with nothing read and an empty frame, and what is being
  built has the shape of a frame.

The lemmas go along the code. `EncodeIs` says which byte of a frame stands where; one lemma
for each place (`CommandInSync`, `HeadersInSync` and so on) says how an action moves `Progress`
on, and `Outcome` what a step can be: it goes on, a recv ends the call, or the call returns
with the whole frame, with a part of its body, or with a broken terminator. For the refinement,
`BegunOfIs` and `AheadNow` evaluate the mapping, `AheadGrows` and `AheadTail` say what a
frame sent and a frame read do to it, and `TakesOne` joins the two sides. Each outcome then
is an action of `FrameChannel`: a whole frame is `ReadFrame` (`WholeRefines`), one cut short
`ReadCut` (`CutRefines`), a failure before the first byte `ReadNothing` (`NothingRefines`),
any other failure in sync `ReadPart` (`PartRefines`), everything out of sync `ReadAstray`
(`AstrayRefines`), and a recv in the middle of a call is a stutter.

The proofs hold no induction over the length of a frame. `Encode` is given by the byte at
each position, so an argument about one position is enough, and where a least position is
needed (the first colon of a line, the first NUL of a text) it comes from the
well-foundedness of the natural numbers.

`StompMessengerProofs` proves, for all bounds, workloads and paths, from
`BoundsAssumption` and `WorkloadAssumption`:

* `TypeCorrect`: `Spec => []TypeOK`. `TypeOK` is inductive. The lemmas `WriteType`,
  `AskType`, `ReadType` and `CannotReadType` each treat a part that many calls share.
* `OneReceipt`: `Spec => []OneReceiptAtATime`.
* `ReceiptsCover`: `Spec => []ReceiptCovers`, the property an application relies on when
  it asks for a receipt.

`ReceiptCovers` is not inductive: it speaks of a call that has returned, and says
nothing of the wait before. The invariant is `ReceiptInv`: `TypeOK`, `ReceiptCovers`,
`OneReceiptAtATime` and the fact that CONNECT asks for no receipt. `OneReceiptAtATime`
carries the argument. While a history is clean, every request written is carried out or
still on its way; one that asks for a receipt is the last one written, and its call is
waiting; when a RECEIPT is under way it is the only one, all the requests before it
have been carried out, and the call that asked for it still waits. So the first
RECEIPT that `AwaitReply` can take is the right one, though the code compares no id. The
failing run `SuccessMeansProcessed.cfg` shows that `clean` cannot be dropped. The lemma
`ReceiptStep` has one step per action; `ReadInSync` and `ReadKeeps` say what a read of
the channel leaves, `AskReceipts`, `ReceiveReceipts`, `AwaitReceipts`,
`AcceptReceipts` and `BrokerSends` treat the actions.

From the same assumptions it proves a third property, that of a session:

* `ConnectHasSession`: `Spec => []ConnectMeansSession`. The invariant is `SessionInv`:
  while a CONNECT waits, the reader is in sync, nothing but that CONNECT is on its way to the
  broker, and a CONNECTED on its way back means that the broker has carried it out
  (`ConnectWaits`). It holds without `clean`, because `stomp_engine_connect` makes a new
  connection: nothing of an earlier attempt can reach the new one.

`StompDeliveryProofs` adds three more, from the same assumptions:

* `MessagesAreConserved`: `Spec => []MessagesConserved`. The property is inductive once the
  types are known. Each step that moves messages has a lemma: `DispatchConserves` (the broker adds the
  next number behind the others), `TakeConserves` (the oldest frame goes, and is handed over if
  it is a message) and `LoseConserves` (the youngest goes with the connection). `SyncRead` says
  that a read that begins and ends in sync took a whole frame or none.
* `SuccessDelivers`: `Spec => OnlyTimeoutDropsSilently`, in every history, clean or not. It needs no
  invariant beyond the types: `AwaitTakesNone` says that a wait succeeds on the reply it expects only,
  `ReceiveDelivers` that a `stomp_receive` which succeeds has the message or timed out inside it
  (`TimedOutInside`), and `NothingTaken` that a call which leaves the channel alone takes nothing.
* `StatusIsTold`: `Spec => []StatusAgrees`, also in every history.

`StompExchangeProofs` proves, from `MessagesAssumption` (a message is none of the other pools)
and, for the last one, `TextsAssumption` (a text is a sequence):

* `SendHasHeaders`: `Spec => []HeadersAsAsked`, and `PropertiesLast`: `Spec => []PropertiesStay`, for
  all names, texts, brokers and frames of others. The invariant `PropertiesInv` holds both up: the
  properties have the names and texts of `known`, and an entry points into a message only
  for a key that message brought first and for a text it brought last (`KnownEntry`). It survives the
  overlay of a receive because `apr_hash_overlay` takes the key of one hash and the value
  of the other (`OverlayIs`), and the creation time because the hash itself is in no message's pool.
* `TextsSurvive`: `Spec => []TextSurvives`. The invariant `TextInv` says that the body of a
  message, and what a broker makes of the last SEND, is a text (`IsText`): characters of the
  texts somebody put in, which up to the first NUL are one of them. It is `Terminated` that
  makes this inductive: a text that has been received carries a NUL which counts in its size, and
  one that is sent and received again does not get another. `FirstIs` says where the first
  NUL of some data is.

`DataBlocksProofs` proves, for every size of a block, set of bytes and number of bytes:

* `ReceivedIsHandedOver`: `Spec => []DataIsReceived`;
* `MemoryIsKept`: `Spec => []InsideMemory`;
* `BlocksAreFilled`: `Spec => []NoEmptyBlock`;
* `BlocksTypeCorrect`: `Spec => []TypeOK`.

The invariant `IInv` places every byte: the n-th one received (from 0) is at `n - Base(b)`
of block b, where `Base(b) = (b - 1) * BlockSize`. While bytes come in, `bytesRead` is
`Base(Len(blocks)) + i` with `i < BlockSize`; while they are copied, `p` is `Base(head)`,
everything before it is in `data`, and every block from `head` on has a byte left. That
last fact is what the order of the tests in the code buys: a block gets its successor
only after a byte that is not the last (`stomp_io.c:108`, `:121`).

`StompTransactionsProofs` proves, for all ids that `apr_itoa` tells apart (`ToldApart`), all
messages and every width of an int, `Spec => []QueueAsAsked` (`TransactionsAsAsked`) and
`Spec => []NeverRefused` (`RequestsAreTaken`). The invariant says that the broker's open
transactions are those of the application, each under its narrowed id and with the messages sent
in it. `AnyIdIsAnId.cfg` shows that `ToldApart` cannot be dropped.

`StompEngineProofs` proves, for any messengers, timeouts and number of sockets: types
(`TypeCorrect`), `PoolWhileInUse` (`PoolStays`), `NothingLeftOpen` (`DestroyCloses`),
`ConnectionUsable` (`ConnectionIsUsable`) and `FailedConnectKeeps`
(`FailureKeepsConnection`). The invariant adds `Counted`: `initialized` is the number of
pools, which are those of the messengers in use. Without it the last `apr_terminate`, which
takes every pool, could come while a messenger is in use. Only `stomp_messenger_destroy` closes
the sockets nothing refers to, and it closes those of its own pool alone (`OnlyItsPool`).

`StompProgramsProofs` proves, for any number of programs and applications and any sets of them
started together, from `ProgramsAssumption` (a process runs one of the four programs),
`OthersAssumption`, `NobodyAssumption` and `CastsAssumption`:

* `ProgramsTypeCorrect`: `Spec => []TypeOK`, from `Typed` and `Absent` (what was not started
  takes no part).
* `ClientSuccess`: `Spec => []SuccessMeansSent`. The invariant `Sends` says of a client for which
  nothing has failed what is between it and the broker at each of its steps
  (`Conversation`): while it waits, its request is on its way, refused, or answered, and
  before its next request there is nothing. This is why a RECEIPT that is compared with no
  id is still the right one.
* `ServerPrintsFirst`: `Spec => []FirstMessagePrinted`. The invariant `Serves` says that as long
  as a server may still read, the first MESSAGE in its inbox is the first one sent to it
  (`FirstIsNext`). A messenger's server cannot step over it, since any frame but the expected
  reply ends the program; an engine's server reads whatever comes, but the first of its two
  reads comes before its subscription (`Unsubscribed`).

A step of one program leaves the others as they are (`LeavesOthers`, `PublishLeaves`), so each
invariant is shown for one program at a time.

Model-checked only: `ImplementsWriteChannel`, and the three liveness properties, `CallReturns`,
`WriteReturns` and `Terminates`. Liveness under fairness is out of the prover's reach. The
refinement of `StompWrite` is not proved because its data is given by folds: the broker's
reading of the bytes is `FoldLeft`, the bytes of a frame are `FlattenSeq` of its
pieces, a size is written with `ToString`, and what a fold computes for every input takes an
induction with an operator as its parameter.
What is proved of `ReceiptCovers` and of the transactions would be false without its
condition, as the runs `SuccessMeansProcessed.cfg` and `AnyIdIsAnId.cfg` show. What
`StompRead` does with bytes that are no frame of STOMP (a wrong `content-length`, a NUL in a
line) is left open by `FramesAssumption`.

## Plan

What is left, in this order:

1. The type invariant and the refinement of `StompWrite`, after its folds have been replaced by
   definitions that name the byte at each position, as `Encode` of `StompRead` does, and
   the broker's reading by the state it is in at each byte.
2. An abstract specification of a request with a receipt, implemented by
   `StompMessenger` while the history is clean.
3. The writes of `StompMessenger` as an instance of `WriteChannel`, as its reads are of
   `FrameChannel`.
4. The error paths of `stomp_messenger_init` and the other failing allocations.

## Not modelled

APR itself, beyond what the calls of the library need of it; the traces on stderr, and
what the library does with `STOMP_DEBUG`, which is more than print: `stomp_io.c:261`
follows `head` when the copying loop has moved it behind the last block; the heartbeat headers, which the code ignores;
failing allocations; lengths that do not fit an int; the transaction of an ACK; the header
files beyond the types the models use; the build, packaging and documentation files.

# Verification of megatron

TLA+ specifications of the megatron framework (`src/`), the TLC models that check them on small
instances, and TLAPS proofs of the properties that matter most.  The reference is the C++ code;
`PROJECT.json` gives the source lines of every definition that models code, under `map`.

## 1. The system and its parts

Megatron runs *services* inside *instances*.  A service is an object with a `handleEvent` function.
Services never call each other: they send events.  An event carries a route, the stack of the
addresses it came from, so a service answers with `passEvent`, which pops one address of the route and
delivers the event there.

An event from one node to another goes down a column of services and up the same column on the other
side:

    service --sendEvent(addr,...)--> RPC --SendPacket--> Oscar --write_--> SocketIO ==> network
    service <--IncomingOn...------- RPC <--PacketOn...-- Oscar <--StreamRead-- SocketIO <==

RPC and Oscar are *simple* listeners: their handlers run on the thread that delivers the event, that is
on the threads of services that send and on the epoll workers of SocketIO.  Most hazards of the code
come from there.  Services proper have a queue and a thread (`ListenerBuffered1Thread`) or several
(`ListenerBufferedNThread`).

| Part | Source (under `src/`) | Role | Module |
|---|---|---|---|
| Buffered listeners | `corelib/eventDeque.*`, `corelib/listenerBuffered*` | the event queue of a service and the thread(s) that drain it | `Listener`, abstract: `Mailbox` |
| Timer | `modules/timer` | timers and alarms, with a worker thread of its own | `Timer` |
| Instance | `main/CInstance.*` | creates services on demand, delivers events, tears services down | `Instance` |
| Oscar | `modules/oscar` | frames on a byte stream | `Oscar`, abstract: `PacketPipe` |
| SocketIO | `modules/socket`, `corelib/epoll_socket_info.*`, `corelib/networkMultiplexor.*` | sockets, epoll workers, out buffers, closing | `Socket` (stream sockets) |
| RPC | `modules/rpc` | sessions between nodes, caches of packets until a session exists | `Rpc` (sessions and caches) |
| HTTP service and parser | `modules/http`, `corelib/httpConnection.*`, `corelib/llhttp` | requests in, whole and chunked answers out, WebSocket upgrade | `Http`, `Llhttp` |
| WebSocket client | `modules/webSocketClient` | handshake and text frames from the other side | `WsClient`; composed in `HttpPeers` |
| Telnet | `modules/telnet` | a tree of commands and a line editor | `Telnet` |
| Object proxies, polled listener | `modules/objectProxy`, `corelib/objectHandler.*`, `corelib/listenerPolled.*` | events for objects that are not services | `ObjectProxy` |
| Buffers, addresses, routes | `corelib/ioBuffer.*`, `corelib/msockaddr_in.*`, `corelib/route_t.*` | packed forms and orders | `PackedNumber`, `WireTypes`, `IoBuffer` |
| Event classes | `Events`, `corelib/event_mt.*` | `pack` and `unpack` of every event that travels | `EventCodec` |
| Bit streams | `corelib/_bitStream.*` | numbers of any number of bits, TLV lengths | `BitStream` |
| Text helpers | `main/CUtils.cpp` | splitting, base64, hex, URI escapes | `TextHelpers` |
| Configuration | `main/configObj.*` | settings with prefixes, per thread | `ConfigObj` |
| Registries and plugins | `main/CUtils.cpp` | constructors of services and events | lookups, in `Instance` and `EventCodec` |
| Error dispatcher, web handler, logger, databases, TLS | `modules/...` | tools built on the above | section 8 |

`PROJECT.json` lists every component with its sources, and every hazard at the line where it bites.

## 2. How the modules are written

A step of a model is one access that another thread can observe: an access under a mutex, a read or
write of an unprotected field, a system call, an event handed on.  Mutexes held over several steps are
variables.  The labels of `pc` name the place in the function.  Where a service is single-threaded
(`Telnet`, and the HTTP service for one socket) a handler is one step.  Identifiers keep the names of
the source.  History variables (marked as such) exist only for properties.  Definitions that a comment
calls a mutant, or describes as another one "but" for a difference, are plausible bugs; each
property of a passing run is violated when one of them replaces the definition it mutates.  External
things (the network, epoll, descriptor numbers, a terminal) are modelled from how the code uses them.

An event, a packet, a payload or an address is a model value or a pair (sender, number): the properties
ask which event it is and in which order it comes, never what it says.  The conversions are the
exception, because their properties are about the bytes: `Oscar` and the codecs have bytes that are
numbers in a small base, the HTTP parser has bytes by class, Telnet has the keys of a terminal.

## 3. The modules

**`Listener`** models `EventDeque` (`push`, `pop`, `deinit`) and both buffered listeners.  Producers take
`listenToEvent` in its steps (the two unlocked reads of `m_container`, push under the mutex, signal
after it); workers take `worker()`: test of the flags, `pop` with the wait on the condition variable
(spurious wakeups included), the batch handled one event at a time; the owner runs `deinit()` with its
null event, flags, broadcast and join.  The number of workers chooses the class.  **`Mailbox`** is what
a listener with one thread promises: events one at a time, in order, once, and, while it is open, in the
end; closing it may discard the events posted last.  `IsMailbox` is the refinement.  The mailbox is the
worker's batch and the deque as one queue, up to the null event at which the worker ends.

**`Timer`** models the listener thread (`on_SetTimer`, `on_SetAlarm`, `on_ResetAlarm`, `on_StopTimer`,
`on_StopAlarm`, `on_startService`), the worker (it moves a second of `mx_nexts` to a private batch, ticks,
re-arms) and `deinit()`.  Time is a counter.  A key in `BadKeys` has a route on which `passEvent` throws.

**`Instance`** models `forwardEvent`, `getServiceOrCreate`, `initService` (two locks, checks before and after
each, plugin loading, `startService`), `initServices` and the destructor with `deinitServices`.  A
start handler may send to another service, which creates that one within `initService`.

**`Oscar`** has `sendPacketPlain`, `recv()` cutting the stream anywhere, and the loop of `on_StreamRead`,
over the packed numbers of `PackedNumber`.  Either end may be closed at any step: what the sender still
holds is then lost, and the receiver's loop, which does not look, goes on with the frames in its buffer.
**`PacketPipe`** is the promise: a first-in first-out pipe of whole packets that stops for ever at one that
is not admitted, or at a close.

**`Socket`** is the life of one stream socket.  `Setup` is the thread that accepts or connects;
`Worker` owns the epoll set; `Writers` call `write_` or `write_and_close`; `Closers` call
`epoll_socket_info::close` themselves, as Oscar's and RPC's handlers do too (`Handler`).
`NotifyClosing`, `RemoveFromMS`, `TestClosed`, `CloseFd`, `ClearFd` are `closeSocket()` and `close()` step by
step, run by any of these threads.  After a `::send` the worker reads the size of the out buffer and then
the mark of `write_and_close()`, in two steps.  `number` follows the descriptor after it is closed: another socket
of the process may get it.

**`Rpc`** has the sessions of one address and one accepted socket: `on_SendPacket` and `on_PassPacket` on the
senders' threads, `on_Connected`, `on_ConnectFailed`, `on_Disconnected`, `on_Accepted`, `on_Disaccepted` and
`on_NotifyBindAddress` on the workers', all sharing `addSendPacket` and `flushOutCache`.  `given` is what Oscar
was handed.

**`Llhttp`** is the parser as a state machine over classes of bytes, in the loose mode that `llhttp.h`
selects, with the callbacks as constant operators.  It keeps llparse's spans and the index into the word
being matched, so that a read may end anywhere.  **`Http`** gives it the callbacks of `httpService.cpp`
(the context of a request, the events to the application), and has `on_StreamRead` against
`on_Accepted`, and what `Response` writes: whole answers, chunks, WebSocket texts.  A WebSocket frame is a head
(opcode, final, masked), a mask and a payload; `WebSocket_getFrame` unmasks it in the buffer, and where its test of
the length lets a part of a frame through, what it takes for the payload is any of the possible readings.
**`WsClient`** is the client service: bytes arrive in its socket, each arrival queues a StreamRead, and each
StreamRead takes one frame.  **`HttpPeers`** composes the server with a browser that has written requests of given
shapes, the last perhaps an upgrade with frames behind it, or with the client: what one writes is what the
other reads.

**`Telnet`** has the tree of directories and commands, the negotiation, every key of the editor, ENTER,
and the answers of the services.  The terminal is modelled by what the sequences the service writes do to
the row of the cursor; the editor is right when that row shows the line ENTER would execute.

**`ObjectProxy`** has both proxies.  An object is built and destroyed in two stages (the base class
registers it before the derived class exists and removes it after the derived class is gone);
an answer finds its object by the address in its route; the polled proxy handles on the thread that
also builds and destroys, the threaded one on a thread of its own, and both give up the lock
before they call the object.

**`PackedNumber`** has the variable-length numbers (`put_PN`, `get_PN_nothrow`), with base and width as
constants (128 and ten digits of a 64-bit number in the code).  **`WireTypes`** adds strings, integers of
every width with their conversions, addresses with their packed form, and the orders of addresses and
routes; **`IoBuffer`** adds the packed form of routes.
**`EventCodec`** adds containers and a table of every event class that can be packed, with the order of its
members in `pack` and in `unpack`, and `packEvent` and `unpackEvent` with the lookup of the constructor.
**`BitStream`** has the writes to a bit stream and the reads that belong to them.  **`TextHelpers`** and
**`ConfigObj`** have the codings of `CUtils` and the configuration with its stack of prefixes and its
getters.

Composition: `Rpc` uses of Oscar only that it takes packets, `Oscar` uses of SocketIO that it delivers the
bytes in order, which `StreamIntact` of `Socket` says of the sending side.  `Instance` uses of a listener
that `listenToEvent` keeps events in order, which `Mailbox` says.  `Http` and `WsClient` are composed as
modules; `MCServices` and `MCCodecs` only put parts that do not interact into one run.

## 4. The runs

Bounds are chosen so that each race named in the hazards can happen: two producers, senders or callers
where two threads must meet, two events each where the second can overtake the first.

| Run | Instance | Shows |
|---|---|---|
| `listener_1thread` | 1 worker, 2 producers, 2 events each | mailbox refinement, no lost wakeup, the worker can be joined |
| `listener_nthread` | 2 workers, 2 producers, 1 event each | each event in one place (`EachEventOnce`) and handled in the end although a push wakes one worker; a worker sleeps through `deinit()` only if another took the one null event (`StrandedOnlyWithoutNull`) |
| `timer` | 2 requests of any kind, 2 keys (one bad), times 0 to 3 | no early tick, cancelled tasks silent unless the worker held them (`CancelledIsSilent`), no task lost or armed twice; alarms tick, `deinit()` returns |
| `timer_stop` | 2 requests, 1 key | a counterexample to `StoppedNotArmed`: section 5 |
| `instance` | 3 services (one a plugin) whose start handlers send to one another, 1 caller with 2 events, `initServices` with a list of four (the third unknown), destructor | one object per service (`OneObject`), delivery once and in order (`DeliveredInOrder`), one `startService` (`StartedOnce`); no call waits for ever; the Start list is started up to its first unknown name |
| `oscar` | 3 frames, every cut, oversize and wrong start byte, a close of either end at any step | refinement of `PacketPipe` with fairness |
| `socket` | both kinds, 2 threads that write or write and close (two bytes and one), the first of which may close, one arrival | the stream is whole; EPOLLOUT is asked for; closing waits for the flush but for one race; the end is told once; the closing thread does not touch the number again; `write_and_close()` closes in the end |
| `rpc` | 2 senders, 1 passer, 2 packets between them, 1 worker, losses | given once, never vanishing; where packets may wait, and through which races they get stuck; otherwise given in the end |
| `http` | up to 2 of 14 shapes of request, three of them upgrades with up to three frames (text, ping, not final, masked or not), reads of 2 or all bytes (the requests have odd and even lengths, so the second is cut anywhere), contents of 0 or 2 bytes, 2 chunks; or the client and 2 texts of the server | the application gets the requests as they were sent (`RequestsAsSent`); answers can be told apart (`AnswersDelimited`); texts stay in order (`TextsInOrder`) |
| `http_texts` | the client and 1 text | a counterexample to `TextsAreGiven`: section 5 |
| `services` | Telnet: 4 keys of 16 with one cut or run together, 3 registrations; proxies: 2 addresses, 2 objects at each, 3 requests | the screen shows the line; commands go to the last registrant (`LastRegistrantAnswers`); answers go to the asker or nobody, once, in order; the polled proxy calls whole objects only |
| `codecs` | all numbers of 3 digits in base 8, every event class over small values and all its cuts, triples of addresses and routes, 4 writes to a bit stream, texts of 3 bytes, configurations of 4 lines and 2 threads | what is written comes back (`PacketsComeBack`, `BitsComeBack`); what is cut is refused (`CutPacketRefused`); orders are strict; codings invert each other; a setting is read under the prefixes of the thread that reads (`ConfigAsWritten`) |

Two requests are enough for the races of `Timer` that the properties are about (an insertion or a
cancellation against the worker's batch, two tasks in one second, one of them undeliverable); what needs
more requests is proved for any number of them (section 6).  In `codecs` every value is an initial
choice and nothing happens afterwards: the run enumerates inputs.

Symmetry is used for the addresses of `services`, whose properties are invariants and one action property that
does not mention them.  Deadlock is not checked: all these systems
may come to rest (no more requests, joined, closed), and the liveness properties say what must not be
left undone when they do.

`CancelledIsSilent`, `NotStranded`, `FlushedBeforeClose`, `MarkedIsClosed`, `ClosedIsToldOnce`,
`CachedBehindFlush`, `Transmitted`, `ScreenShowsLine`, `RequestsAsSent`, `AnswersDelimited`, `TextsInOrder` and
`AskerOrNobody` name exceptions.  These are cases the code does not handle; the
property says that there is no other way to the bad state.

### Fairness

Threads that can run do, and a handler that has begun goes on (weak fairness of each thread's steps).
Mutexes of `Listener` and `Instance` are granted fairly.  The clock of `Timer` advances.  A
socket that stays writable takes data in the end (strong fairness of a non-empty `Send`), the kernel
settles a pending connection, and an accepted socket is announced.  Nobody is obliged to send, stop,
close or destroy, no connection is obliged to end, and no spurious wakeup is needed.

## 5. Where the code and its documentation disagree

Two runs end with a counterexample.

* `timer_stop`: `doc/02.Timer` says a timer can be stopped.  A task that the worker has already moved to its
  batch is not found by `on_StopTimer`, ticks, and is armed again, for ever.
* `http_texts`: the test of WebSockets (`test_ws`) waits for the text its client sent.  `on_headers_complete`
  marks the context of the request as a WebSocket, `on_message_complete` (`httpService.cpp`, line 207) puts a
  new context in its place, and what comes after the upgrade is handed to the parser, which is paused
  (`HPE_PAUSED_UPGRADE`): `on_StreamRead` throws, and no text is given to the application.

### Cases the code does not handle

The models contain these; the properties name them as exceptions, or they are steps no property forbids.
A case that no module contains is marked (not modelled).

Listeners, timer and instance:

* `ListenerBufferedNThread`: workers run `handleEvent` at the same time, although the comment on the class
  speaks of a single thread; and one null event is pushed for n workers.
* `on_ResetAlarm` does not find an alarm in the worker's batch, so the old and the new one both tick.  The
  destructor joins a worker that was never started if `startService` never came (not modelled).
* A service is in the container of the instance before it is given `startService`; another thread's event
  can come first.  `forwardEvent` uses the service after it has given up the lock (not modelled: services go
  only with the instance).

Sockets and RPC:

* Data can be passed up before `Connected`: the test below the comment that excludes it
  (`socketService.cpp`, line 264) is commented out.
* The worker reads the size of the out buffer before the mark of `write_and_close()`: a write that falls between
  the two reads is closed unsent (`"between"` in `Socket`).  The size and `sockStopWrite()` are apart in the same
  way: in a socket that was known before it was connected a write in between waits for the next one (`"early"`).
* The loop of Oscar's `on_StreamRead` does not look whether its socket has been closed, and passes on the
  frames it has.
* A `close()` by a handler tells nobody and leaves the socket in the container; a failing `connect()` is told
  twice.
* A sender that sees a session without its socket may cache its packet after `on_Connected` has flushed
  (`late` in `Rpc`); two first senders to an address may both create a session, of which the map keeps one
  (`orphans`).  The cache of a session is dropped with it when a connection fails or ends.
* Unsubscribing from RPC erases by the route as it came, subscribing stores it with one address
  popped (not modelled).

HTTP and WebSocket:

* An empty header value in the middle of a request joins the names around it.  A request that is neither GET nor
  POST, and not chunked, gives no event and leaves its context to the next one.
* `make_response("")` on a connection that is kept cannot be told from the answer after it;
  `send_chunked("")` ends the answer; chunked answers say `Connection: close` and keep it.
* Trailers change the headers of a context the application already has.
* Frames after a text frame in one read are lost.  Other frames, and texts that are not final, stay in the buffer
  and are passed on again with the next read.  The length test of a masked frame does not count the mask, so that
  a part of a frame can be taken for one, and a frame that stays in the buffer is unmasked again.
* The client reads one frame per StreamRead, of at most 125 bytes, and passes an empty text on for a StreamRead
  that finds nothing.

Telnet (the exceptions of `ScreenShowsLine`):

* ENTER does not reset the position of the cursor; UP and DOWN past the ends of the history, and ESC, clear
  the row and not the line; TAB appends to the line and writes at the cursor; an answer that comes while a
  line is typed redraws the prompt without it.
* A read that does not begin with a known key contributes its first byte only, and a sequence cut by the
  end of a read is typed.  A window size cut that way gives width 0, by which LEFT and RIGHT divide.
* `on_Reply` uses the session before it tests that it exists.  Bytes that come before `Accepted` wait for
  the next read.

Object proxies (the exceptions of `AskerOrNobody` and the reason why only the polled proxy has
`PolledCallsWholeObjects`):

* An object is registered before its derived class is built and removed after that is gone, so the threaded proxy
  may call a part of one.  An object at the address of a destroyed one gets its answers.
* The polled proxy does not store the popped route in the event inside `IncomingOnConnector`.
* `sendEvent` with the name of a remote host calls itself for ever in the threaded handler (not modelled),
  against `objectHandler.h`, line 14.

Codecs, texts and configuration:

* The order of addresses holds both ways for two UNIX sockets; `OrdersAreStrict` is about the other families.
* Bit streams write 64-bit and packed numbers from bit 56 down: bit 63 is lost.  `get_bit` does not test
  the end.
* A null buffer arrives as an empty one.  Routes of an unknown type are skipped without their contents, routes to
  listeners are refused.
* `key = value` keeps the blank before `=` in the key.  `;` separates a set of strings in the file and not in
  a value set by the program.  `get_tcpaddr` throws on an empty field, `get_tcpaddr2` does not.
* A malformed escape makes `uriDecode` use an uninitialised number; `unescapeURL` takes `:` to `@` for
  digits.  `TextsComeBack` is about well-formed texts.

## 6. What is proved

`tlapm` checks the following for all values of the constants that satisfy the modules' ASSUMEs (which
only say that bounds are natural numbers, that sets of threads are disjoint, and the like).

`ListenerProofs`, for any numbers of workers, producers and events:

* `TypeCorrect`: `TypeOK`, strengthened by `SentInv` (a producer inside `listenToEvent` has counted its call).
* `LostWakeupFree`: `NoLostWakeup`.  The strengthening `WakeInv` adds `SleepInv`: a worker on the condition
  variable's list is at its wait, and a worker between the test and the wait still sees an empty deque
  because it holds the mutex.  Without that, a push in the window would be missed.
* `FaultFreeBeforeDeinit`: `FaultOnlyInDeinit`, from the conjunct of `SleepInv` that `deinit()` has not
  touched the deque before it is called.
* `OneThreadNotStranded`: `NoStrandedWorker` for one worker.  The flag of `EventDeque::deinit()` is set
  without the mutex, so the flag alone does not save the worker; `NullInv` does: from the push of the null
  event on, it is in the deque or in the worker's batch until the worker has ended.
* `StrandedMissedNull`: `StrandedOnlyWithoutNull`, for any number of workers.  `MissedInv` extends it to the
  end of `deinit()`; by `SleepInv` a worker goes to sleep only with the deque empty, so the null event is gone.
* `EventsAreKept`: `EachEventOnce`.  The deque, the batches and the history are one function `Held`;
  `OnceInv` says that nothing is in it twice, that an event about to be pushed is not in it yet
  (`FreshInv`), that until `deinit()` it holds what was pushed (`PushedInv`), and that there is no null event before
  `deinit()` pushes its own.
* `OneThreadIsMailbox`: the safety part of `IsMailbox` (`M!Safe`), for one worker.  Under the mapping each step is
  a `Post`, `Deliver`, `Close` or `Discard`, or changes nothing there.  `pop()` changes nothing, because the
  batch is empty before it.  `LineInv` says that the queue always has a place where the worker would end.  The
  fairness of `Mailbox` is left to TLC.

`TimerProofs`, for any number of requests, keys and delays:

* `TypeCorrect`: with `CountInv`, `KnownInv`, `RequestInv`: `mx_nexts` and the batch hold only tasks
  that requests created.
* `AlarmTicksOnce`: `AlarmOnce`.  `TickedInv` says that an alarm that has ticked is marked erased, in the
  same step of the worker, and erased tasks are skipped.
* `CancelledStaysSilent`: the action property `CancelledIsSilent`.  `SilentInv` says that a task for which a Stop or
  Reset request has been handled, and that the worker did not hold then, is marked or is in no queue.  It rests
  on `PlaceInv`: a task that is not in the batch is in one deque of `mx_nexts` or nowhere, and a handler scans them all.
* `TasksAreKept` and `TicksAreNotEarly`: `NoTaskLost` and the action property `NeverEarly`.  `PlaceInv` says that a
  task is in one deque of `mx_nexts` or in the worker's batch, once, that the deque is the one of its due
  time, and that what is in the batch is due.  `KeptInv` adds that until `deinit()` a task is somewhere
  unless it is erased or abandoned.  Insertion, the move of a second to the batch and the re-arming are
  the moves of `DataLemmas`.

`InstanceProofs`, for any numbers of services, threads and events, and whatever the start handlers send:

* `OneObjectPerService`: `OneObject`.  `LockInv` says that every call inside `initService` holds the mutex of its
  service, the outer calls of a thread included, which wait in a start handler, and that no two of them hold
  the same one.  `ObjectInv` says that until `deinitServices` the container has every object, and that a
  thread about to insert has seen none.  The unlocked look-up of line 281 may miss an object, but not the one
  under the mutex.
* `ServicesStartedOnce`: `StartedOnce`.  `StartInv` says that an object without `startService` has a creator about
  to give it, and that this creator holds the mutex.
* `EventsInOrder`: `DeliveredInOrder`.  `CallOk` says that a call that waits in a start handler or is about to deliver
  has the object of its service, that only the outermost call of a thread carries an event of a caller,
  and that this is the last event it has sent.  `InOrder` relates the log of an object to what a caller has
  sent; four lemmas say what becomes of it when an event is delivered, dropped, sent, or is
  somebody else's.

`RpcProofs`, for any numbers of senders, passers, workers and packets:

* `NothingLeftBehind`: `CachedBehindFlush`, which is inductive with `LocalInv` (where each thread is and what it
  holds there).  `OutBehind` and `PassBehind` are its two halves, for packets to an address and for packets on an
  accepted socket.
* `PacketsGivenOnce`: `GivenOnceNoneLost`.  The places a packet can be in (caches, deques, hands of threads, Oscar)
  are one function `Contents`, and `OnceInv` says that every issued packet, and nothing else, is in exactly
  one of them, once.  `MoveHead`, `MoveAll` and `AppendNew` (in `DataLemmas`) say this of moves between sequences
  in general; each step of the code is one such move or none.  `LocalInv` is needed beside it: the deque of a
  thread is empty before its flush, and `passCache` is drained into empty hands, so nothing is overwritten.

`SocketProofs`, for any numbers of writers and closers and writes of any length:

* `StreamStaysIntact` and `ClosedAfterFlush`: `StreamIntact` and `FlushedBeforeClose`, by `BufferInv`: what was
  sent and what is buffered is what was written, and from the worker's reading of an empty buffer on everything up to
  the mark of `write_and_close()` is sent, unless that write fell between the two reads.
* `DescriptorLeftAlone`: `OwnDescriptor`.  `OwnInv` says that a thread that has closed the number is about to reset
  `fd_`, or that `fd_` has been reset, so that this thread does not get past a test of `fd_` again.
* `WaitingDataAskedFor`: `NotStranded`.  `StrandInv` says that nothing is read or written before the socket is
  added to epoll, and that at `sockStopWrite()` the buffer is empty unless a write came early.
* `EndIsToldOnce`: `ClosedIsToldOnce`.  `EndInv` says that nothing happens to a socket before it is in the
  container (`SetupInv`), that a set-up that fails before `connect()` has the socket for itself (`FailInv`),
  that only the worker and the set-up tell and that who has told is on its way to reset `fd_` (`TellInv`), and
  that the number is given up only after that, unless `close()` came from outside (`GoneInv`).
* All of them rest on `ControlInv`, the labels each kind of thread can be at.

`ServiceProofs`, of the object proxies for any set of addresses and any number of requests, and of Telnet for any
sets of keys, directories, commands and registrations and any number of them:

* `WholeObjectsCalled`: `PolledCallsWholeObjects`.  By `TypeInv` the registered addresses are those with an object;
  `HandledInv` adds that in the polled proxy an object that has been found stays whole until its handler is
  entered, since the thread that polls is the one that would destroy it.
* `AnswersGoToAskers`: `AskerOrNobody`, with `HandledInv` and the shape of the routes in each queue.
* `AnswersInOrder`: `TakenUpInOrder`, by the laws of concatenation.
* `LineIsShown`: `ScreenShowsLine`.  By itself it is not inductive: a key that writes the row anew needs to know
  that the cursor is on the row and that terminal and editor agree on the mode of insertion, also while the row is
  out of step.  `SessionInv` adds this (`Row`).  The argument is one lemma per key, each of which says that the key
  keeps the row (`KeepsRow`); writing, inserting and erasing cells are all `Spliced`, and `WriteBehind` says
  that splicing behind the prompt is splicing the line.  The lemma on `Negotiate` follows the recursion over the
  bytes that were read: whatever negotiation is in them, what remains are keys.
* `LastAnswers`: the action property `LastRegistrantAnswers`, by `LatestInv`: the tree holds, for each text of a directory,
  the service that registered it last.  `KeyAsks` says that of all keys only ENTER sends a command, and only
  one of the session's directory.

`WireProofs`, for every base and width of packed numbers, all payloads, and all strings and addresses that fit:

* `NumbersComeBack` and `CutNumbersRefused`: what `put_PN$` writes `get_PN_nothrow` reads, whatever follows, and a number
  cut short is refused.  `ShiftedDigits` is the core: after k digits have been shifted in, the reader holds
  the number without its lower digits (`Above`), and never more than its width holds.
* `StringsComeBack`, `CutStringsRefused` and `AddressesComeBack` carry this over to `put_PSTR` and to the three families
  of addresses.  The last assumes that a family fits a byte and a port a number, as they do in
  the code; `SwapTwice` says that two changes of byte order cancel.
* `AddressOrder` and `RouteOrder`: `operator<` is a strict total order that agrees with `operator==`, for
  IPv4 and IPv6 addresses and for routes (`StrictOrder`, which `OrdersAreStrict` checks on triples).  Both are orders
  by the first difference (`BeforeOrders`).  For two UNIX sockets the statement is false, see section 5.
* `StreamInvariant`: while the socket is open or the loop is running, the buffer of `on_StreamRead`, the wire and
  what a closing sender lost are together the frames of the packets not yet passed on (`Joined`), so that what looks
  like a frame at the front of the buffer is the next one that was sent (`UnframeFrame`).
* `ConnectionIsPipe`: the safety part of `ImplementsPipe` (`Pipe!Safe`), for every way of cutting the stream and with
  either end closed at any step.
* `PacketsPassedAsSent`: the packets passed on are a prefix of those sent.

`DataLemmas` has what these share: induction and recursion over numbers, division, cutting and joining
sequences, and sequences whose elements move between places.  The induction theorems of the library
have an operator as parameter, which the installed provers cannot instantiate; `SetInduction` and
`IntervalInduction` state induction for a *set* of numbers instead, from the well-foundedness of `<`, and
`RecursionExists` gives the function that a recursive definition chooses.  With them `Weight`, `Shifted`, `Slc`
and `Items`, which are recursive functions, can be reasoned about.

Everything else is model-checked only.

* Liveness (`EventuallyHandled`, `DeinitReturns`, `AlarmFires`, `CallReturns`, `StartListStarted`, `MarkedIsClosed`,
  `Transmitted`, and the fairness in `IsMailbox` and `ImplementsPipe`) is outside the prover's reach.
* `HttpPeers` (`RequestsAsSent`, `TextsInOrder`, `AnswersDelimited`) rests on the states of a whole parser, and on
  recursive operators, in whose presence the prover has no SMT backend.
* The properties of `codecs` as they stand range over containers, event classes, bit streams, texts and settings, whose
  operators are recursive too.  What `WireProofs` shows are the parts of `PacketsComeBack`, `CutPacketRefused` and
  `OrdersAreStrict` that concern numbers, strings, addresses and orders.

## 7. Abstractions to keep in mind

* `Socket`: one socket; no TLS, no listening socket, no kqueue or select build.  A call made with a
  descriptor number that now belongs to another socket is recorded and taken to fail.  `epoll_ctl` is taken to
  add a socket when asked; the close that follows a failure (`networkMultiplexor.cpp`, line 194) is left out.
* `Rpc`: one address, one accepted socket; one Connected per connection.  Notifications to subscribers
  are left out, but the moment between the notification and the erase of a session is a state of its
  own.
* `Oscar`: a small base, so that packed sizes of one and two digits both occur; a packet above the largest
  size is sent as any other; the receiver keeps it at the front of its buffer and passes on nothing more.
* `Timer`: seconds are counted, fractions are not.
* `Instance`: two or three services; a service's own queue is the history of what it was given.
* `Http`: the HTTP state of a socket is inserted in one step, although `httpService.cpp`, line 373, inserts it
  into `additions_` without a lock; texts of a WebSocket have up to 125 bytes, in the short form of a frame's length.
* `Llhttp`: requests only; no responses, lenient flags, pausing by callbacks or errors from callbacks, no `llhttp_finish`.
  Bytes are classes: two letters the parser does not tell apart are one.
* `Telnet`: lines are shorter than the terminal is wide; `path()` names directories from the leaf.
* `EventCodec`: `double` and `float` members, which are sent as texts with six decimals, are left out.  The ids of
  events are small integers of either sign.
* `BitStream`: lengths are below 2^32, of which a TLV length keeps the lower four bytes.
* `TextHelpers`: texts of three bytes, which do not overflow the `int` in which base64 collects its bits.
* `ConfigObj`: the marks of settings that were used, and the cache of resolved names, are left out.

## 8. What is not modelled

* Error dispatcher: its `handleEvent` tests the result of a `static_cast`, which is never null, so every event is
  taken for a subscription and no other handler can be reached.
* Web handler, logger and databases: pages, files and client libraries, without state that two parties share.
* TLS wraps a library.
* Of RPC, the lists of subscribers, `DoListen` and what becomes of incoming packets.
* Of SocketIO, listening sockets; of the program, signals and the main loop, which waits for a flag.
* Tests and tools are read as documentation.

## 9. What would come next

The way of a route over several nodes, with the handlers of RPC for incoming packets (the promise of
`doc/01.Concept`, from line 183, that an answer returns to the first sender); the composition of `Socket`
with `Oscar`, and of `Listener` with `Instance`, whose objects now are the logs of what they were given.

# TLA+ models of PeerToPeerWebRTC

Specifications of the concurrent parts of this repository, with the TLC
configurations that check them and proofs of their main properties for TLAPS.
Paths below are relative to `src/Communicator/`; `X.cpp:10-20` are lines.

    tlc -workers 2 -config ReceiveQueue.cfg ReceiveQueue     # a run
    tlapm PeerConnectionProofs.tla                           # the proofs

`PROJECT.json` lists the runs, the lines of the code each definition stands
for, the hazards, the findings and the theorems.

## 1. The system

A Windows library, in C++, that gives an application a stream to a peer. The
application talks to a `Communicator` (peer connections set up by exchanging
SDP) or to a `SocketStreamHandler` (a stream over WebRTC, TCP/TLS or WebSocket).

    application
      | StartPeerConnection, setPeerConnection*        | events (callbacks)
    Communicator -- PeerConnectionHandler --------------'
      |                                    SocketStreamHandler  (2 locks)
      |                                      | connect/close/reset/restart
      |                                    CSocket  (send queue, sender thread)
      |                                      |
      |            CPeerConnectionImpl | CTCPImpl | CWebSocketImpl
      |               |
    CPeerConnection  (receive queue, lock, event)
      |
    Connection  (callbacks of WebRTC's signalling thread)
      |
    webrtc::PeerConnection, data channel

| component | state | operations | talks to |
|---|---|---|---|
| `CSocket` (ConnectionUtils/src/clientSocket/Socket.cpp) | `sendQueue`, `bRunSenderThread`, `bSenderThreadRunning`, `hSenderThread` | `checkSenderThreadStatus`, `sendStringAsync`, `sendVectorAsync`, `DestroySocket`, `senderThread` | its subclass' `sendString`, `shutDownSocket`, `isSocketLive` |
| `CPeerConnectionImpl` (PeerConnectionImpl.cpp) | `_pPeerConnection` | `initialize`, `connect`, `sendString`, `close`, `shutDownSocket` | `CPeerConnection` |
| `SocketStreamHandler` (Src/SocketStreamHandler.cpp) | `socketHandle`, `isConnected`, `b_isSocketOpen`, two locks | connect, `closeSocket`, `ResetConnection`, `Restart`, reads, sends | the socket it owns |
| `CPeerConnection`, receiving (PeerConnectionHandler/src/PeerConnection.cpp) | `stringData`, `hQueueEvent`, `m_SendQueueLock` | `receiveString`, `receiveBytes` | `DataChannelObserver::OnMessage` |
| peer connection set-up (`Communicator`, `PeerConnectionHandler`, `CPeerConnection`, `Connection`) | `bCreator`, the WebRTC signalling state | start, offer, answer, candidates, error relays | the other peer, through a signalling server the application provides |
| `CPeerConnection`, connecting and sending (PeerConnection.cpp) | `isRunning`, `hConEvent`, retry counter, buffered amount | `connect`, `sendString`, `sendBytes`, `close` | `webrtcFactoryThread`, the WebRTC data channel |
| line and byte readers (SocketStreamHandler) | look-ahead buffer | `readLine`, `readBytes*` | `receiveString` of the socket |
| `CTCPImpl`, `CWebSocketImpl` | socket, SSL objects, POCO session | connect, tunnel, shut down | Winsock, OpenSSL, POCO |
| HTTP client (ConnectionUtils/HttpHandler) | session, retry flags | requests, redirects, proxy, downloads | POCO |
| proxy resolver (ProxyHandler) | proxy list and cursor | resolve, fail over | WinHTTP |
| JSON, reference counting, logger, events, error tables | see PROJECT.json | | |

Where it is hard:

* `CSocket` has **no lock** on its flags, its handle and `_pPeerConnection`:
  the sender, the threads that check and restart it, and the one that closes
  the socket meet at every line. Only the entry of `senderThread` is guarded.
* Close is bounded: `DestroySocket` waits 50 times 100 ms and goes on. Everything
  after that runs beside a sender that may still be sending.
* The reader of the receive queue looks at the size **outside** the lock and
  waits on an auto-reset event: the classical lost wake-up, and `front()` on an
  empty queue.
* `connect` may take its ten seconds under one lock; `closeSocket` takes the
  other so as not to wait. What the flags mean when the two overlap is the
  question.
* The handshake is carried by hand or by a server, between two sides that may
  both make an offer, while callbacks and the application race on `bCreator`.
* `sendString` waits for room in a buffer that other threads fill, on a flag
  that `connect` and `close` set without regard for each other.
* The TLS socket switches its secure mode off while it talks to a proxy, falls
  back to the plain socket when it has no SSL object, and is shut down by the
  closing thread and by the sender alike.
* The bytes a read leaves over are kept for the next in a buffer with two
  counters that `Restart` clears under no lock of the reader's.
* The HTTP client keeps one session and one response across requests, redirects
  and exceptions; a download owns a second kind of session and a timer whose
  callback runs on another thread.
* The proxy resolver keeps its cursor, its flags and its last result from call
  to call, and from request to request.

What makes each component correct:

* sender: one at a time; in order, nothing twice; a close returns; a queued
  message is not left behind by a running sender.
* receive queue: in order, nothing twice, nothing lost; no lost wake-up; no
  access to an empty queue.
* stream handler: one closer at a time; the socket is not replaced in use; no
  deadlock of the two locks; the two flags agree with the socket.
* set-up: what a side holds is an offer and its answer; both sides hold the
  same; candidates are not refused without need; the application hears of the
  outcome.
* data channel: the buffer stays bounded; nothing is sent after close; a message
  that is dropped is reported; a call returns.
* readers: a read returns what comes next in the stream, and what is left is
  the rest of it; a line is of one connection; what was received is handed on.
* TCP/TLS socket: nothing of a secure connection goes in the clear; OpenSSL is
  given no object that is not alive; a shutdown closes; a blocked reader is
  released.
* HTTP client: a response is that of the request; requests go where they are
  configured to; sessions and handlers are used while they exist; calls return.
* proxy resolver: the mechanisms and the proxies are tried in order, each once;
  success means an answer; the fail-over ends.

## 2. The modules

| module | stands for | lines |
|---|---|---|
| `SenderThread` | `CSocket` and the teardown of `CPeerConnectionImpl` | Socket.cpp:13-284, PeerConnectionImpl.cpp:22-29, 317-405 |
| `LossyFifo` | abstract specification of the asynchronous send path | |
| `SenderThreadProofs` | types, one sender, refinement of `LossyFifo` | |
| `ReceiveQueue` | `OnMessage`, `receiveString`, `receiveBytes` | Connection.cpp:384-390, PeerConnection.cpp:436-525 |
| `StreamHandler` | connect, close, reset, restart of `SocketStreamHandler` | SocketStreamHandler.cpp:148-551, 1015-1053 |
| `StreamHandlerProofs` | locks, one closer, no replacement in use, the flags | |
| `LineReader` | the readers of `SocketStreamHandler` and their buffer | SocketStreamHandler.cpp:651-1012, 1098-1130 |
| `LineReaderProofs` | types, the unread bytes, what a read returns, the connection of a line | |
| `TcpSocket` | `CTCPImpl` with its sender, reader and closers | TCPImpl.cpp:14-972, 1019-1076 |
| `TcpSocketProofs` | types, a shutdown closes, a secure connection stays secure | |
| `DataChannel` | `CPeerConnection` connecting, sending and closing | PeerConnection.cpp:40-182, 547-729, Connection.cpp:397-404, PeerConnectionImpl.cpp:317-405 |
| `PeerConnectionProofs` | `DataChannel`: types, the buffer, after close, the report of drops; `ReceiveQueue`: types, order, the sole reader | |
| `PeerSignaling` | two peers, from `StartPeerConnection` to ICE | Communicator.cpp:50-133, PeerConnectionHandler.cpp (PeerConnection/Src), PeerConnection.cpp:83-374, Connection.cpp |
| `PeerSignalingProofs` | types, the answer that matches its offer, the sessions, the candidates | |
| `HttpClient` | requests and downloads of `HttpClientConnection` | HttpClientConnection.cpp:108-1538, 1591-1648, FileProgressHandler.h |
| `HttpClientProofs` | types, sessions, response, configuration, handler | |
| `ProxyResolver` | `ProxyResolver` and the loop that uses it | WinHttpProxyResolver.cpp:36-539, 726-1086, WinhttpProxyUnitTest.cpp:30-118 |
| `ProxyResolverProofs` | types, mechanisms, order of the proxies, success | |

The modules meet at their assumptions, not by composition in one state space:
`StreamHandler` shows that closers exclude each other, which `SenderThread` and
`TcpSocket` take for granted (`DestroyBegin`, `ShutDown`); `DataChannel` shows
that `sendString` returns, which the fairness of `SenderThread` needs; `TcpSocket`
shows that a reader of a closed socket is released, which `LineReader` assumes
(`ReceiveFromShut`); `SenderThread` has in full the sender that `StreamHandler`
and `TcpSocket` have in a few steps.

### SenderThread

`Callers` are application threads, `Threads` the sender threads that
`CreateThread` can return. Each has a program counter (`call`, `pc`); a step is
**one access to a field that others use without a lock**, so that
`checkSenderThreadStatus` is four steps (test, forget the handle, set the flag,
create) and `DestroySocket` followed by `shutDownSocket` is six. Messages
are numbered in the order in which they were queued and carry nothing else.

The sender collects short messages: `__DO_BUFFER__` is defined in all builds
(ConnectionUtils/ConnectionUtils.vcxproj:74,104,136). `LongMsgs` says which
messages have 1024 bytes and more; how many short ones fill the batch is left
open from two on. `wire` is the sequence of packets `sendString` accepted, each
a sequence of messages.

`sendString` can return "all", "none" (0: the channel is not open or the buffer
stays full) or "error" (-1). It returns "none" once `_pPeerConnection` is NULL.
`QueueHandler.h` is not in the repository; the queue is modelled from its use:
`QueueReadData` waits for data or for `NotifyWaitingThreads`, which wakes those
that wait at that moment.

Two callers do not close at once (`DestroyBegin`): `ShutDown` runs under
`socketShutdownLock`, which `StreamHandler` shows to be enough (`OneCloser`).

`LossyFifo` is the promise: messages are accepted, put together in packets,
lost or delivered, and what is delivered was accepted, is delivered once, and
in order. The refinement maps `inTransit` to the messages queued, held or
collected by some sender.

### ReceiveQueue

`stringData`, the event and the lock are variables; `receiveString` and
`receiveBytes` are one sequence of points that differ where the code does
(`receiveBytes` calls `front()` without looking again). `front()` on an empty
queue is undefined behaviour: the model stops in a state `broken`, and the
property is that a sole reader never gets there. A buffer is small or large, a
message short or long; one that does not fit is refused with -1 and stays at the
head (PeerConnection.cpp:460-463), so that a reader whose buffers are always too
small never gets past it: `AllReceived` says that this is the only way in which
a message is not received. `DataChannel` is
about the same object and has no variable in common with it; the names here
(`ReceiveInit`, `ReceiveSpec`, `at`) differ from those there, so that
`PeerConnectionProofs` extends both.

### StreamHandler

Each of three threads begins any of four operations, connect (direct or through
a proxy), close, reset and restart, as often as `MaxOps` allows in all. The two
critical sections are owners per lock. The sockets a handler has had are
numbered, `dead` are those whose `isSocketLive` is false, `ending` those whose
sender was told to quit and will call `shutDownSocket` itself; a sender whose send
fails does the same to a socket that nobody has closed (`SenderQuits`). `connectedTo` and
`overlapped` are history: the socket of the last successful connect, and whether
a close ended while a connect was under way.

### PeerSignaling

Two peers, each with an application thread in `StartPeerConnection`, a thread
that hands in messages and WebRTC's signalling thread. `peer_connection` is
modelled by its signalling state (stable, have-local-offer, have-remote-offer)
and its two descriptions, as far as the code depends on them; these operators
are external. A description records who made it, as the how-manieth, and which
offer it answers. The channel is a sequence per peer; `Faults` says whether it
may lose, copy or reorder. The type in the JSON is not part of a message,
because the receiver does not read it: it goes by `bCreator`, which is read at
three places on two threads, each its own step; the second read (`TestCreator`,
Connection.cpp:104) and the call of CreateAnswer it leads to are two, so that an
`InitOffer` may come between them.

### DataChannel

One `CPeerConnection` from connect to close. Nothing in it is under a lock, so
that a step is one read or write of `isRunning`, of the state of the channel or
of its buffer. `connect` waits for the event of `webrtcFactoryThread` or times
out; `Threads` call `sendString` or `sendBytes`, which take the same steps; one
thread calls `close`, after which `CPeerConnectionImpl` forgets the object. The
history variables `up` (flag and channel have been up during the whole call),
`late` (the call began after close) and `overlapped` (connect returned after
close) are what the properties speak of.

An overflow is reported at two places with the same error. The retry loop reports
it and drops its message; `OnBufferedAmountChange` (Connection.cpp:397-404)
reports it whenever it finds more than `DTCH_BUFFER_MAX` in the buffer, and as
that is 3 MB (Connection.h:21) and messages are sent up to 4 MB, it also does so
while all messages are sent. `told` keeps the two apart ("loop", "observer") for
each call; the application cannot. WebRTC calls the observer when the amount
falls; whether it does so when it grows is left open.

The channel is WebRTC's and external: it opens and closes when it likes, the
network takes any part of the buffer or nothing, and `Send` on an open channel
accepts the message or closes the channel; on any other it refuses. `Send` does
not refuse and leave the channel open: with that the loop of
PeerConnection.cpp:557-588 would not end, as it counts and waits only above the
threshold. There is one data channel and an `errorHandler` is registered, as
`PeerConnectionHandler` does. `connectThroughProxy` is not modelled because
nothing sets `isProxyEnabled`. (The threshold is 4 MB; the comment of
PeerConnectionHandler/include/PeerConnection.h:49 says 2048 KB. It is a constant
of the model.)

`CallsReturn` is what `SenderThread` assumes of `sendString`.

### LineReader

One thread calls the readers, the other closes, restarts and connects the handler.
A byte is its position in the sequence `stream` of all bytes received, which says
whether it is `\r`, `\n` or another one and which connection it came from; that
is what the properties compare lines with. `readBuffer` keeps positions, so that
a chunk that is overwritten, skipped or read twice shows. Steps are the accesses
to what the threads share: `bytesRemaining` when a line is looked for, when the
count is tested again (`TakeLineCleared`, line 681) and when the line is taken,
`isConnected` before each receive, the counters after it.
`readBytes`, `readBytesTcp` and `readBytesVector` differ in the type of the
caller's buffer and are one sequence of steps; `readBytesWs` goes past the
buffer. `before` and `after` note where in the stream a read began and ended;
what a read has taken from the buffer or the socket counts as handed on
(`HandedOn`) when the read has returned and not before.

Four history variables name the cases in which the code does not keep the
stream together, and the properties exempt them: `raced` (a `Restart` cleared
the counters under a reader), `bypassed` (`readBytesWs` with bytes unread),
`mixed` (the handler was connected again with bytes unread or a read under way,
as after `ResetConnection`) and `lost` (a read that found the handler closed;
the last chunk is then in the line twice, lines 750 and 756).

### TcpSocket

The opener resets and connects, the closer closes, the quitter is the sender
thread once it has left its loop; a sender and a reader use the socket beside
them. Sockets are numbered as they are created, SSL objects carry the number of
their socket, and `lpSSL` may be `Garbage`, since no constructor initialises it.
`misuse` collects what must not happen: "plain", a message of a secure
connection in the clear, and "ssl", a pointer given to OpenSSL that is not a
live object. `TunnelBegin` to `TunnelOpen` are the time in which
`doTunnelHandshake` has the secure mode off.

`crossed` becomes true when `isShutdownInitiated` is set while `initialize` is
between clearing it (TCPImpl.cpp:89) and creating the socket (line 123): the new
socket is then marked as shut down, and no later shutdown closes it.

`excused` becomes true when calls overlap that the code does not keep apart: a
shutdown with a connect, a reset or another shutdown, a sender that outlives
`DestroySocket`, a reset of a connected socket. The calls under way are followed
to their ends, and `ShutMeansClosed` is checked on all of it; no new call begins
after that (`MayBegin`), and `SecureStaysSecure` exempts it. One thing does
go wrong: a `closeSocket` that overlaps the secure `connectViaProxy` after the
tunnel was opened (`is_connected_to_peer`) and before `SSL_new` finds `lpSSL` not
NULL and gives the uninitialised pointer to `SSL_pending` (TCPImpl.cpp:736).

### HttpClient

One thread calls; `calls` numbers the calls. The three requests have the same
loop in the code three times, which is one set of steps with three names. A
session is a record of host, way (direct, through the configured proxy, or the
one a server named) and whether the password was set, as that is what it is
compared by. The sessions of `openHttp` and `openHttps` are numbered per call,
`live` are those not deleted. Each call of POCO may throw. `timer`, `handler`
and `inCallback` are the progress timer, which runs its callback at any time
while it is running.

### ProxyResolver

A list is a sequence of names and separators, in all ways up to `MaxList`. What
WinHTTP answers is open at each call. `SetNextProxySetting` is split at its
outcomes (first proxy, no fail-over, next proxy, end of the list); `EntryEnd` and
`EntryStart` are its two loops over the characters. `extendedAPI` is what the
constructor finds; the code of the extended API is compiled out in half, as
WINVER is 0x0501, and `SetNextProxySettingEx` is modelled with what is left of it.
`offered` is history: the positions in the list of the proxies set so far.

## 3. The runs

| run | instance | checked | distinct states |
|---|---|---|---|
| `sender` | 2 senders, 2 callers, 3 messages (one long), 2 checks, 1 wait | `OneSender`, `SendsInOrder`, `CloseReturns`, `SenderDrains` | 434,497 |
| `sender_no_restart` | 2 senders, 1 caller, 1 long message | violation of `NoRestartAfterQuit` | |
| `receive_two_readers` | 2 readers, both calls, both buffers, 3 messages | `ReceivedInOrder` | 14,692 |
| `receive_sole_reader` | 1 reader, both calls, both buffers, 6 messages (one long) | `NoLostWakeup`, `ReaderFindsMessage`, `AllReceived` | 2,220 |
| `stream_handler` | 3 threads, 4 operations | `OneCloser`, `ConnectedMeansOpen`, `HandleNotReplacedInUse`, `OperationsFinish` | 352,868 |
| `signaling` | 2 peers, 1 candidate each, channel that loses, copies and reorders, 2 faults | `AnswerMatchesOffer`, `SessionsAgree`, `CandidatesFollow`, `HandshakeHeard` | 576,394 |
| `data_channel` | 2 threads, 3 calls, threshold 2, observer's limit 1, messages of 1 or 2, 2 retries | `TypeOK`, `BufferBounded`, `NothingSentAfterClose`, `DropsReported`, `CallsReturn` | 558,739 |
| `http_client` | 2 hosts, 3 calls, 2 redirects | `ResponseOfLastCall`, `RequestAsConfigured`, `SessionsDeletedOnce`, `CallbackOnLiveHandler`, `CallsReturn` | 104,940 |
| `http_redirect` | 2 hosts, 1 call | violation of `RepeatedUntilAnswered` | |
| `proxy_resolver` | all lists up to 5, 2 requests, DWORD of 3 values | `TypeOK`, `FirstMechanismThatWorks`, `ProxiesInOrder`, `SuccessMeansAnswered`, `RequestEnds` | 119,672 |
| `line_reader` | buffer of 3, stream of 3 bytes, 2 connections, reads of 2 bytes | `TypeOK`, `UnreadIsRest`, `ReadIsNextOfStream`, `LineOfOneConnection`, `CommandsHeard` | 1,107,034 |
| `tcp_socket` | 2 sockets | `TypeOK`, `SecureStaysSecure`, `ShutMeansClosed`, `ReaderReleased` | 712,709 |

The five modules whose `TypeOK` no run lists have it proved (section 5).

**Why the bounds are enough.** Sender: two threads are created by two checks
that overlap, and one that has quit can be created again by a restart; two callers
let a close and a check meet. Three messages with the second long give a batch
ended by a long message, a long message alone, and one that is left. One wait of
`DestroySocket` shows both ways out of its loop; the code's 50 add nothing but
repetitions. In `sender_no_restart` the one message is long, because only a long one
ends the loop when its send fails (Socket.cpp:97, and not line 74). Receive queue: two readers are what it takes to steal a message from
one another, three messages let one be popped, one be at the head and one arrive.
Stream handler: three threads and four operations contain a connect, a close that
overlaps it and a restart that waits for both, with one more. Signaling: a peer
makes one offer, so that two faults (lose one, copy the other) reach every
mismatch an exchange can have. Data channel: two threads are what it takes to
pass the threshold, the longest message fills it, the observer's limit is below
it as in the code, and three calls let one follow a
close or an overflow of another. HTTP client: three calls put a redirect or an
exception between two that succeed; two hosts tell the configured one from
another. Proxy resolver: five characters hold three names, or two with a
separator of two characters between them and one behind; the second request
finds what the first has left. Line reader: three bytes
hold a line that ends in `\r\n` and one more byte, in every division into chunks;
reads of two bytes end within a chunk and need two; two connections are one and
the next. TCP socket: the second socket is the one that replaces the first, and
the SSL object of the first is what must not be met again. What the bounds leave
open for safety is closed by the proofs, section 5, where there are any.

**Deadlock** is checked for the sender, in both its runs. All other systems may really stop: a
reader waits for a message that does not come, all calls are done and no other
is allowed by the bound, a handshake is over or its message was lost.

**Fairness**, and why the code justifies it:

* `SenderThread`: every thread that Windows created runs, and `sendString`
  returns. A call that was begun is continued; no call need ever begin. The wait
  of `DestroySocket` is bounded by its retries, so that `CloseReturns` does not
  rest on the sender. That `sendString` returns is `CallsReturn` of
  `DataChannel`.
* `ReceiveQueue`: `OnMessage`, once begun, ends; the reader calls again when a
  call returned, as the readers of the repository do. `AllReceived` is about the
  time when the peer has stopped sending, `MaxMsgs` being reached. Which buffer
  the reader brings is its choice; `AllReceived` exempts one that brings too small
  a buffer infinitely often (`[]<>Refused`), instead of assuming that it does not.
* `StreamHandler`: weak fairness for each thread's operation. Critical sections
  of Windows are not first-come-first-served; `OperationsFinish` therefore says
  that operations finish once no new one is begun (`MaxOps`), which is freedom
  from deadlock and not from starvation.
* `DataChannel`: a thread that is in a call goes on. Nothing is asked of the
  network, the other side, connect or close.
* `PeerSignaling`: what was started goes on, the server delivers what it does
  not lose, and WebRTC makes its callbacks and ends its checks.
* `HttpClient`: a call goes on, since POCO's requests time out, and a callback
  returns. `Timer::stop` waits for a callback that runs; that it gets its turn
  between callbacks that come again and again is strong fairness.
* `ProxyResolver`: a request goes on; WinHTTP answers or times out.
* `LineReader`: the loop goes on when it can, and `receiveString` of a socket
  that was shut down returns. The peer need not send, a restart need not go on.
* `TcpSocket`: connecting and closing go on (Winsock's connect times out), and a
  `recv` on a closed socket fails. Nothing is asked of the peer, of the sender or of
  the application.

## 4. What the runs found

Two places where the code does not do what its own text says:

1. Socket.cpp:118, *"Once Sender thread is quit, it should not be started again
   for same instance."* In the run of `sender_no_restart` a sender takes a
   message, `sendString` returns -1, and the thread leaves its loop; a check
   between Socket.cpp:127 and the shutdown of line 129, here that of an
   `initialize`, finds the socket live and no sender running, and starts one.
2. HttpClientConnection.cpp:365-367, *"Let the loop run for max redirection retry
   count, incase of any normal redirection or proxy retry error messages"*. A
   redirect sets `retry`, which ends the loop: a redirected request returns true,
   was not repeated and has an empty response (`http_redirect`).

Properties that hold only with a restriction, which the models make visible:

* `isConnected` may be true of a socket that no later close will shut down, if a
  close ends while a connect is under way (`overlapped` in `ConnectedMeansOpen`).
* A message longer than the buffer stays at the head of the queue and everything
  behind it waits, as long as the reader brings such buffers (`Refused` in
  `AllReceived`).
* Two readers of one connection can leave a message behind and reach `front()`
  on an empty queue (`NoLostWakeup` and `ReaderFindsMessage` are about one
  reader).
* A call that begins after a close can still send if a connect that close
  overtook sets the flag again (`overlapped` in `NothingSentAfterClose`).
* The overflow that the application hears of need not mean that a message was
  dropped: the observer reports the same error for messages that are sent
  ("observer" in `DropsReported`).
* After a copied offer two peers can end with different sessions, and after a
  lost message a side can wait for ever (`faults` in the properties of
  `PeerSignaling`).
* A closed TLS socket can be given an uninitialised pointer, and lose or expose
  what `excused` exempts, when a close overlaps a connect (`TcpSocket` above).
* A shutdown that sets `isShutdownInitiated` while `initialize` runs leaves the new
  socket open behind the flag (`crossed` in `ShutMeansClosed`); TLC finds this if
  the exemption is dropped.
* A line can hold a chunk twice, or bytes of two connections, and a command
  that a `Restart` finds unread, or `readBytesWs` has passed, need not be handed
  on (`LineReader` above; the exemptions of `CommandsHeard`).
* A request can go to the old server, or without the password, after the
  settings were changed or `InitSession` failed (`excused` in
  `RequestAsConfigured`).
* When `copyStream` throws, the progress handler is destroyed before the timer
  that calls it (`unwound` in `CallbackOnLiveHandler`). POCO's streams swallow
  errors while they are read, so that a truncated file is reported as a success;
  this needs no interleaving and is not modelled.
* With the extended API a proxy is never set, although the comment of
  WinHttpProxyResolver.cpp:424 says of success that a proxy *"has been set on the
  HINTERNET"*, and a request that keeps failing is repeated for ever (`RequestEnds`
  is about the other one).

## 5. The proofs

Each proof module extends its specification; constants are arbitrary, but for
the named assumption of the specification (`SenderAssumption`: `NoThread` is not
a thread, the bounds are natural numbers, ...). The bounds on messages, checks
and operations are constants too, so that the theorems hold for every value.

* `SenderThreadProofs`
  * `TypeCorrect`: the types, together with `Holding`, which says at which
    points a sender has a message or a batch. Without it the types are not
    inductive: a sender with no message would send message 0.
  * `OneSenderAlways`: every step but entry and exit keeps who is in the loop
    (`RunningKept`); entry tests and sets the flag under the mutex; the thread
    that clears the flag is the one in the loop.
  * `SenderImplementsFifo`: `Spec => Fifo!FifoSpec`. The invariant is
    `QueueOrdered`: the queue is increasing, a message taken from it is older
    than all in it, a batch is increasing and lies between the two. It needs
    `OneSender`, since two senders would each hold messages, and the order in
    which they are sent would be open. That the i-th message of a batch is
    message i or younger bounds its length without an induction.
* `StreamHandlerProofs`
  * `TypeCorrect`: `LockInv`, the types, which locks are held at which point,
    which points belong to which operation, and that the handle is NULL only
    between the two assignments of a restart.
  * `OneCloserAlways`, `NotReplacedInUse`, `ConnectedAlways`: from `LockInv`,
    the last with `FlagsInv`, which says what the flags are at the points of a
    connect and of a shutdown.
* `PeerSignalingProofs`, for any number of faults of any kind and any number of
  candidates
  * `TypeCorrect`: with `Described`, that an SDP message carries a description
    and that a side in the state haveRemoteOffer has one. The number of an
    answer is taken from it.
  * `AnswersAlways`: that the answer set on a side answers the offer set there
    follows from what is true of every description still about, on its way,
    being worked on or set (`Known`): there is a number for each peer that all
    its offers have and all answers to it name (`Numbers`). A peer makes one
    offer, since StartPeerConnection calls InitOffer once (`AskedOnce`), and as
    long as it may still make it (`Pending`) nothing about names its number. All
    steps but the creation of a description bring none that was not known
    (`Quiet`), so that the argument is made once for all of them.
  * `SessionsAlways`: without faults, when both sides have completed an exchange
    and are stable, each holds as remote description the local one of the other. The
    invariant is `Settled /\ (faults = 0 => SessionParts)`: only a creator offers
    (`Creators`), an answer about to be asked for is the first of either side
    (`AnswerDue`), a peer asks for one answer (`OneReply`), one SDP message reaches
    a peer that is not the creator (`OneMessage`), the sides do not answer each
    other (`OneReplies`), and the answers of a peer that are about are one
    (`SameAnswer`). Where there is one offer and one answer, what is set on the two
    sides cannot differ.
  * `CandidatesAlways`: a candidate is refused only by a side that has missed an
    SDP message before (`missed`). A peer gathers candidates only after it sent a
    description, and a channel without faults keeps the order, so that an SDP
    message is ahead of every candidate or the peer has had it (`Follows`,
    `Applied`), however the callbacks of the two sides interleave.
* `PeerConnectionProofs`, send side, for any number of threads and calls
  * `TypeCorrect`: with `RetriesLeft`, without which the count of retries could
    pass the value the loop compares it with, and `ConnectOnce`.
  * `BufferAlwaysBounded`: of the threads that have found room and not sent yet
    (`Committed`) there is one, the last that tested, for which there is room
    even if all others send their longest message first (`LastHasRoom`). A thread
    that sends uses its own share or that of one of the others.
  * `NothingAfterClose`: after a close that no connect overlaps the flag stays
    reset, so that a later call ends at its first test.
  * `DropsAlwaysReported`: who has had flag and channel up finds them up, and
    leaves the loop by `Send` or by the report of its own loop only, whatever
    the observer reports meanwhile; who has reported has left without sending.
* `PeerConnectionProofs`, receive side, for any readers, buffers and messages
  * `ReceiveTypesAlways`, with the lock held by exactly the thread in the
    critical section, and `FrontHeld`: the message copied by a reader is still
    the front when it is popped.
  * `InOrderAlways`: what was received followed by what is queued is all that
    arrived, in order, for any number of readers.
  * `SoleReader`, `SoleReaderFinds`: under the assumption of one reader, no
    wake-up is lost and the queue is not empty where `front()` is called.
* `LineReaderProofs`, for buffers of any length and any bytes in any chunks.
  The invariant is `LineInv`, of two halves.
  * `Reads` is about the stream. Its parts are `Typed` (types that hold also after
    `Restart` has cleared the counters under a reader: what is unread is inside
    `readBuffer`, so that no read leaves it), `Placed` and `Counted` (what the
    counters are at each place of a read, with and without such a `Restart`),
    `Collected` (what the reader holds and what of the last chunk is still to be
    used are one stretch of the stream, which begins where the read began) and
    `Returned`. `LineTypes`, `UnreadAlways` and `ReadAlways` follow from it. None
    is inductive alone: that the line is the next of the stream needs that the
    chunk is its end, which needs that the counters are those of the chunk.
    `LineLength` and `Delimiters`, which say where a line ends, are first shown to
    be the least position of a delimiter (`LineLengthIs`, `DelimitersIs`).
  * `Sources` is about connections, `OneConnectionAlways`. Bytes that are unread or
    in the last chunk are of the connection there is, and so is the line being
    read (`Sourced`), because `Restart` discards what is unread before the next
    connection is made (`Cleared`); where it does not, `mixed` says so.
* `HttpClientProofs`, for any hosts, any number of calls and redirects
  * `TypeCorrect`, with `OpenInv`, what the local variables of `openHttp` are at
    each place: a second session is made after a named proxy only, and the
    session is held by the call or by its stream, never both.
    `SessionsAlwaysDeletedOnce` is part of it.
  * `ResponseAlwaysOfLastCall`: `ResponseInv`, a request that is to be repeated
    has left no response; what it would return if the loop ends is empty.
  * `AlwaysAsConfigured`: `ConfiguredInv`, as long as nothing excuses it the
    session the flag speaks of is the one the settings describe, and a request
    that is on its way has one.
  * `CallbackAlwaysOnHandler`: `TimerInv`, what timer and handler are at each
    place of a download.
* `ProxyResolverProofs`, for lists of any length and any number of requests
  * The walk along the list first: `EntryEnd` and `EntryStart` are the least
    positions that satisfy their loops' conditions (`LeastPosition`, by
    well-foundedness of the natural numbers), from which `NextEntryIsNext`.
  * `AlwaysFirstMechanism`: `ResolvingInv`, what each mechanism has ended with at
    each place of `ResolveProxy`, of which the first half is the order of its ifs.
  * `TypeCorrect` and `ProxiesAlwaysInOrder`: `CursorInv`, the cursor is at the
    proxy set last, and all before it were set in order (`InOrder`).
  * `SuccessAlwaysAnswered`: `AnsweredInv`, once a proxy was tried there is an
    error to return; it rests on the reset of the cursor, without which the first
    call could say that there are no more.
* `TcpSocketProofs`, for any number of sockets
  * `TypeCorrect`: types, `tcpSocket` is open or NULL, and the mode is secure
    whenever no tunnel is being opened. Proved part by part for groups of steps.
  * `ShutAlwaysClosed`: `ShutInv`, for overlapping calls as well. The flag is
    cleared together with `tcpSocket` (`InitRefs`), a socket is created only by
    the same `initialize`, and a flag that is set in between is what `crossed`
    records; a shutdown that set the flag is still running or has been through
    `close`, and one that found it set changes nothing.
  * `SecureAlways`: no message of a secure connection is sent in the clear and
    OpenSSL is given no object that is not alive. `SecureInv` follows `lpSSL`
    through connect and shutdown: it is alive wherever it is handed on
    (`HandsLive`), a sender that may send has a live one (`SendsSecure`), it is
    not the uninitialised one once the handler takes itself to be connected
    (`Initialized`), and it is NULL or about to be freed once the socket is closed
    (`ClosedFreed`). That no two calls shut down at once (`OneShuts`) and that the
    sender has left before the objects go (`SenderLeft`) hold until `excused`;
    from then on nothing new begins, and the invariant says only that what is
    left does no harm that `misuse` would record.

Only model-checked: liveness (`CloseReturns`, `SenderDrains`, `AllReceived`,
`OperationsFinish`, `HandshakeHeard`, `RequestEnds`, `CommandsHeard`,
`ReaderReleased` and both `CallsReturn`), which needs reasoning about fairness
and ENABLED that the installed provers do not do. Every invariant a run checks is
proved.

## 6. Not modelled, and why

* `QueueHandler.h`, WebRTC, Winsock, OpenSSL, POCO and WinHTTP: outside the
  repository; modelled from their use where a module depends on them.
* `CWebSocketImpl`: calls of POCO, most of it. That its `connect` never starts the
  sender thread, unlike the other two sockets, is listed as a hazard.
* `testConnectionWithTimeOut` (SocketStreamHandler.cpp:1135-1249) and the setters
  of connection parameters.
* A reader that meets a NULL handle during `Restart`: readers take no lock, so
  that this is undefined behaviour from the first step and has nothing to check
  after it.
* In `TcpSocket` the SSL context, which no other thread reads, and SSL_free while
  a reader is inside SSL_read, which OpenSSL leaves undefined.
* `GetProxyForUrlEx` and its callback (WinHttpProxyResolver.cpp:543-723): compiled
  out.
* The JSON handler, reference counting, the logger, the error tables, the
  factories and the command line of the test program: no state of interest.
* Payloads, text, byte counts, logging; the parts of a form and the bytes of a
  file.
* Several connections in one process: `createPeerConnectionHandlerInstance`
  keeps one global instance, which is how `Communicator` uses it.
* The end of a connection during the handshake, TURN settings.
* Exceptions of the library's own code in the sender thread.

## 7. Plan

Done, in this order: `SenderThread` with `LossyFifo`, `ReceiveQueue`,
`StreamHandler`, `PeerSignaling`, `DataChannel`, `HttpClient`, `ProxyResolver`,
`LineReader`, `TcpSocket`.

To come: that `DataChannel` implements the step `SendResult` of `SenderThread`; an
abstract specification of what a handler promises a reader, with `LineReader`
shown to implement it; the life cycle of `CWebSocketImpl` beside `TcpSocket`.

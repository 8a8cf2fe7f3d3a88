# TLA+ development for car_detect

car_detect is a small video-monitoring system in three programs. Cameras push H.264 over RTP
inside KCP to a server; the server relays every camera's packets to the connected Qt viewers,
again over KCP; an RTSP dialogue (cameras, TCP port 8554) and a private text protocol (viewers,
TCP port 9000) set the streams up. This directory holds the TLA+ modules, TLC models and TLAPS
proofs kept beside the code. Paths below are relative to the repository root.

## 1. Inventory

| Part | Source | State | Operations |
|------|--------|-------|------------|
| Functor queue | reactor/Eventor.cc | `_pendings`, `_mutex`, eventfd counter | addEventcb, wakeUp, handleRead, doPenddingFunctors |
| Event loop | reactor/EventLoop.cc | `_isLooping`, `_tcpConns`, `_udpConns`, epoll set | loop, unloop, runInLoop, add/remove connections, handleMessage |
| Task queue, thread pool | reactor/TaskQueue.cc, ThreadPool.cc | bounded queue, two condition variables, `_notExit`, `_isExit` | push, pop, wakeUp, start, stop, doTask |
| Server start and stop | reactor/MultiThreadEventLoop.cc, RtspServer.cc | sub loops, round robin index, `_running` | start, stop (from a signal handler), getNextLoop, onNewConnection, onMessage, onClose |
| TCP connection | reactor/TcpConnection.cc, SocketIO.cc | receive and send buffers, `_isWriting` | send, recvOneItem, handleWriteCallback, isClosed |
| UDP connection | reactor/UdpConnection.cc, UdpSocket.cc | last peer address | recv, send |
| Timers | reactor/TimerManager.cc | `_timers`, timerfd | addTimer, addPeriodicTimer, removeTimer, handleRead |
| RTSP session | media/RtspConnect.cc | `_state`, `_session`, `_camKcp`, `_kcpThread`, `_kcpRunning` | OPTIONS, ANNOUNCE, SETUP, RECORD, TEARDOWN, releaseSession |
| Session registry | media/SessionManager.cc | `_sessions`, `_sessionCounter`, `nextUdpPort` | generateSessionId, addSession, removeSession, allocateUdpPorts |
| Monitor server | media/MonitorServer.cc | `_cams`, `_qtClients` with one `udpSession` (KCP, thread, mutex) per camera, `_mtx` | accept, SETUP, MESSAGE, ADDCAM, client close, UDP input, addCam, removeCam, onNaluUdp, kcp_update_thread |
| Camera client | camera/rtsp_client.c, rtsp.c, tcp.c, kcp.c | `running`, `session` (state, sockets, KCP, mutex), encoder, device, video thread | handshake, select loop, video thread, signal, cleanup; packetisation (single NALU, FU-A) |
| Viewer protocol | car_detect_qt/monitorclientwidget.cpp | `_camMap`, `_conv`, receive buffer | onReadyRead, sendSetup, sendMessage, sendAddCamRespond |
| Viewer reassembly | car_detect_qt/h264rtpreassembler.cpp, kcphandler.cpp, multistreamdecoder.cpp | `_lastSeq`, fragment map, frame, one object for all cameras | handleRtp, FU-A reassembly, frame emission |
| KCP | camera/ikcp.c (the same file in media/ and car_detect_qt/) | send and receive queues and buffers, windows, acknowledgement list | ikcp_send, ikcp_input, ikcp_recv, ikcp_flush, ikcp_update |
| Devices, decoding, display | camera/v4l2.c, car_detect_qt/h264decoder.cpp, videoopenglwidget.cpp | hardware and library handles | capture, decode, draw |

### How the parts interact

`MultiThreadEventLoop` owns a main loop, which accepts RTSP connections, and sub loops, each of
which is one never-ending task of the thread pool. A new connection is handed to the next sub loop
with `runInLoop`, that is, through the functor queue; from then on the sub loop's thread alone
serves it. The `RtspConnect` of a connection registers itself with the session registry and with
the monitor server (`addCam`), opens UDP connections in its loop's table, and on RECORD starts a
thread that drives its KCP object. Datagrams arrive in the loop thread, go through that KCP object
and are relayed by `onNaluUdp`. On TEARDOWN or disconnect `releaseSession` undoes all of it.

The monitor server has a thread of its own with an edge-triggered epoll over the listening socket,
the viewers' sockets and one UDP socket. `addCam`, `removeCam` and `onNaluUdp` are called by the
sub loops, so its tables are shared by several threads. Every subscription of a viewer to a camera
(a `udpSession`) has its own KCP object, update thread and mutex. A viewer holds the other end: it
draws the conversation ids, asks for cameras and acknowledges data.

### What is hard in this code

- Threads that share state under partial locking: `_mtx` and the per-session `_kcpMutex`, fields
  written without their mutex (`_notExit`, `_sessionCounter`, `_isLooping`), tables walked without
  a lock (`onNaluUdp`, SETUP).
- Threads that are joined: while a mutex is held, from an event loop, before an object is freed.
- Callbacks that capture raw pointers and live in a table with a life of its own.
- Wake-ups that can be lost: eventfd against a swapped queue, condition variables, edge-triggered
  events handled once.
- Requests in any order, and several requests or messages in one TCP read.
- Datagrams that arrive after what they belong to has gone.
- Shutdown from a signal handler while everything runs, at both ends.
- A reliable protocol over a network that loses, repeats and reorders, with windows that close.
- A cleanup that is reached from every step of a handshake.

### What makes each part correct

- Functor queue: no lost wake-up; every functor runs once, in order; unloop ends the loop.
- Thread pool: bounded queue; no task lost, repeated or reordered; what was added before a
  stop has been run when it returns.
- RTSP session: the KCP object outlives its thread; a closed connection leaves nothing behind;
  what the monitor server offers has a session, and the two registries agree between requests;
  out-of-order requests are refused.
- Monitor server: a session outlives its thread; closing a viewer or removing a camera ends (the joins
  of a close do, removing a camera does not); every viewer is accepted and shown the cameras there are;
  acknowledgements reach their session.
- Server start and stop: a stop ends, uses nothing that is gone and leaves no thread; a connection that
  was handed over is served.
- TCP connection: what was sent whole comes out whole, a request that has arrived is handled,
  neither the framing nor the writing of answers ends the server, and who has gone is closed.
- KCP: the receiver reads what the sender was given, in order and once, and all of it in the end.
- Reassembly: a frame that is emitted is one the camera sent, across the wrap of sequence numbers (as long
  as no fragment waits for a whole turn of them).
- Camera client: nothing is released under a thread that uses it, a stop ends the program and gives
  everything back.

## 2. Plan

Done, in this order: the functor queue with its abstract executor and proofs; the thread pool with
proofs; the RTSP session; the monitor server with the viewer protocol; packetisation and reassembly of
the video; KCP with the channel it implements; the server's start and stop as a composition of main,
pool, loops and signals; the TCP stream between camera and server; the camera's program; then the
proofs for the RTSP session, the monitor server, the server's start and stop, the camera's program,
the reassembler, the TCP stream and KCP.

Left, most important first:

1. The event loop's batches over several connections (a stale event, a descriptor that is reused
   within the batch).
2. An abstract relay (a viewer sees a camera or does not) that `MonitorServer` without faults implements.

## 3. Modules

| Module | Models | Used by |
|--------|--------|---------|
| `Eventor` | functor queue, loop and unloop | `MCEventor`, `ReactorProofs` |
| `FunctorExecutor` | abstract specification: a FIFO of functors | refined by `Eventor` |
| `ThreadPool` | task queue and thread pool | `MCThreadPool`, `ReactorProofs` |
| `RtspConnect` | RTSP sessions, session registry, the loops' UDP tables | `MCRtspConnect`, `RtspConnectProofs` |
| `MonitorServer` | monitor server and viewers | `MCMonitorServer`, `MonitorServerProofs` |
| `Reassembler` | the camera's packetisation and the viewer's reassembly | `MCReassembler`, `ReassemblerProofs` |
| `Kcp` | one KCP conversation, both ends and the network | `MCKcp`, `KcpProofs` |
| `KcpChannel` | abstract specification: a reliable ordered channel | refined by `Kcp` |
| `ServerLifecycle` | main, start, stop, the pool's workers and the loops, signals | `MCServerLifecycle`, `ServerLifecycleProofs` |
| `TcpConnection` | the server's end of the RTSP stream, and what the camera writes into it | `MCTcpConnection`, `TcpConnectionProofs` |
| `CameraClient` | the camera's program: main, video thread, signals, cleanup | `MCCameraClient`, `CameraClientProofs` |

**Eventor.** `pendings`, `mutex`, `evtfd` are `_pendings`, `_mutex` and the eventfd's counter; `tmp`
is the batch `doPenddingFunctors` has swapped out. `addEventcb` is four steps (lock, push, write the
eventfd, unlock), the loop's round is test, epoll, read, lock, swap and one step per functor.
`WaitEpollOther` is a round for another descriptor or the 3000 ms timeout. `queued` and `executed`
are history variables. A functor is named by its producer and number; what it does is not modelled
(the RTSP module models the functors the server submits).

**ThreadPool.** A critical section is one step except where `_notExit`, which `wakeUp` writes without
the mutex, is read inside: there each read and the wait are steps with the mutex held. Waiting on a
condition variable is membership in a set; `notify_one` takes any member, `SpuriousWakeup` may take one
at any time. `addTask`, `push`, `pop`, `doTask`, `start`, `wakeUp` and `stop` are the actions. `atStop`,
a history variable, is how many tasks had been pushed when stop began.

**RtspConnect.** One record of state per connection. A request is the set of header fields the handlers
branch on; each handler is one action with the code's order of effects, including the orders that are
surprising (RECORD acts before it tests `_state`). The constructor is two steps, `addSession`
(`NewConnection`) and `addCam` (`AddCam`), because they lock different mutexes and other loops and
viewers run between them. `releaseSession` is four (begin, removeCam, join, free), because other loops
and the KCP thread run between them; nothing else of the same loop does. Its removeCam returns
(`ReleaseRemoves`) or, as the run `monitor_remove` shows, never does (`ReleaseSticks`): then the loop is
stuck, and so is every later `addCam` and `removeCam`, since the mutex stays locked (`MonitorStuck`).
Whatever ends the process (null or wild pointer, overwritten joinable thread, use of a destroyed object,
an exception that leaves the loop) sets `fault` and stops the system. `_camKcp` has no initial value in
the code: `CamKcpInit` is the set of values it may start with. `generateSessionId` races with another
loop's constructor: `NewIds` allows the id the other one drew. Ids are natural numbers, and `Alone(c)`
says that nobody else has drawn the id of `c`. `UdpCamera` is the dialogue of camera/rtsp_client.c, for
the run and the theorems that are about cameras.

**MonitorServer.** The accept thread handles one event, request or datagram per step and is split
where it unlocks, joins or, with `_mtx` held, makes something that `onNaluUdp` uses without it: a
session is put into the map (`InsertSession`) before it has its KCP object and thread
(`StartSession`), and a camera's thread that finds it in between uses a null pointer. What belongs to one
session and is set under no lock anybody else takes (its conversation, its address, KCP object and thread)
is set in one step. `ready` is the set of descriptors with an edge epoll has not reported,
`batch` what the last `epoll_wait` returned: handling a close leaves the batch, as the code does.
`live` is the set of sessions, `kpc` their threads. Camera threads call `AddCam`, `RemoveCam` and
`NaluFind`; an `onNaluUdp` that walks over the clients without a lock is a choice of the viewer it
has reached, with the session looked up and used in separate steps. A viewer
closes with a FIN or a reset. After a reset recv returns -1, and `append(buf, -1)` throws out of the
thread (`RecvFails`), if no send has met the error before; a send to a viewer that has gone and was
already sent something raises SIGPIPE, which nothing ignores (`Tell`). The viewer's buffer, the
separator it cuts one character too long and the one message it handles per signal are modelled.
Conversation ids are natural numbers, drawn by each viewer from a counter of its own; viewers are not
descriptors of the server's own (`DescriptorsDiffer`).

**Reassembler.** A camera sends units of 1 to `MaxFragments` packets; a packet carries a fragment that
says which unit and place it belongs to, so that the properties can tell what was put together. `rx`
holds the members of `H264RtpReassembler`; `handleRtp` is one action (`HandleRtp`, or `HandleDuplicate`
for a packet it takes for a repetition), built from one operator per branch. Sequence numbers are taken
modulo `SeqMod` (65536 in the code), and where the code computes in `int` and not in 16 bits, so does
the model. The camera goes on for any number of turns of them; `turned`, a history variable, says that
the numbering has come round to the first packet of the unit in the buffer. Only what `rtp_send_h264`
can send is an input: the branches for malformed packets are not reached. The saved parameter sets are
never read and left out.

**Kcp, KcpChannel.** `snd` and `rcv` are the `ikcpcb`s of the two ends, with the fields each of them
uses: video goes one way, so the sender never has anything to acknowledge. The helpers of `ikcp.c` are
operators of the same names on such a record; a flush is the probe, the filling of `snd_buf`, the choice
of what to send and the adjustment of the window, in that order. `snd_buf` and `rcv_buf`, lists that the
code keeps in the order of the numbers, are functions from the numbers. The two hops differ in who
flushes and in how the receiver reads: the server calls `ikcp_recv` once per datagram, the viewer until
nothing is left; `reading` holds from `ikcp_input` until the last of these calls, with no other step of
the receiver between them (the server holds `_kcpMutex`, the viewer has one thread). An RTP packet fits
one segment (1396 of 1426 bytes), so fragments do not occur. Time is abstract: `late` are the segments
whose timer has run out at a flush, `due` says whether the probe's has, and where the code compares
timestamps (IKCP_FASTACK_CONSERVE) both outcomes are allowed. The network is a set of datagrams to
either side, from which anything may be lost, delivered in any order and delivered again. As it may
deliver a datagram however late, a conversation must end within half a turn of the numbers (assumption
`OneTurn`, 2^31 packets), beyond which an old one would be taken for new. A conversation is found new,
or idle just before its numbers wrap. `KcpChannel` has two operations, to give a packet and to read the
next one; `ImplementsChannel` is the refinement.

**ServerLifecycle.** One step per access to what threads share. Every thread has, besides its place in
the program (`mpc`, `wpc`), a place in the signal handler (`hpc`): while it is in the handler it does
nothing else. `stop` is therefore a sequence of steps that any thread may be in: `_running`, unloop of
the loops in turn, `_isExit`, `_notExit`, notify, the wait for an empty queue, the joins, the
destruction of the sub loops. What a destroyed loop, server or thread makes of a later use is a value of
`fault`. A loop tests `_isLooping` between its rounds only, and `epoll_wait` goes on after a signal
(EINTR): the last round of the main loop may accept a connection after the handler has stopped the
server (`Accept`, `TestSubLoops`: the sub loops are gone, and it stays in the main loop), and that of a
sub loop still runs functors and serves its cameras. Connections are counted in the loop's functor
queue; a camera that records keeps a KCP thread that only its RtspConnect's release would join. That
release, and the `addCam` of a new connection, may wait for ever for the monitor server
(`ReleaseSticks`, `MonitorStuck`), as in `RtspConnect`.

**TcpConnection.** The stream is a sequence of tokens: the pieces of a request or frame the server tells
apart, the four bytes that end a header and the text TEARDOWN among them. The payload of a frame is
arbitrary bytes, so it may contain both. A read returns any number of tokens; then one item is cut out,
as `recvOneItem` does: behind a `$` an interleaved frame, unless the buffer holds TEARDOWN, otherwise a
request with its body. What a request does is in `RtspConnect`: here its handler answers, ends the
process (as RECORD after a TCP SETUP does) or, TEARDOWN's, never returns; so may the release of the
session when the client has gone. Two threads of the camera write: requests, each after the answer to
the last, and frames, in one or two pieces. Accepted sockets are blocking (nobody sets O_NONBLOCK on
them), so `_sendBuffer`, `_isWriting` and `handleWriteCallback` are never reached; a write succeeds as a
whole or fails.

**CameraClient.** `main` walks through the program from connect to the return; every call that can fail
does so in some behaviour, and the cleanup starts from wherever the handshake has got to. `session` is
static and its initialisation is commented out: its descriptors are 0 and its KCP pointer null until
set, which the cleanup does not test; `fault` records what it then does. The video thread takes a
frame, sends up to `MaxPackets` packets, over KCP under the mutex or over the RTSP socket, and looks at
`running` between frames. The server answers, says something of its own, refuses, falls silent, closes
or resets.

## 4. Runs

| Run | Instance | Shows |
|-----|----------|-------|
| `eventor` | 2 producers x 2 functors | no lost wake-up, exactly once and in order, refinement of the executor, every functor runs, unloop ends the loop |
| `threadpool` | 2 adders x 2 tasks, 2 workers, queue of 1 | bound, front() on a non-empty queue, order, what was added before stop has run when it returns; every task runs and every push returns unless stopped |
| `server` | 2 workers, 2 signals to main or a worker, 1 camera | an ordinary stop uses nothing that is gone, with connections accepted and served in the last round of each loop, and ends (unless a wake-up is lost, a camera records or a release sticks); when main returns every worker has ended; a connection handed over is served |
| `tcp` | 1 request with a body, TEARDOWN, 2 frames, payloads with the texts the server looks for | requests and frames come out whole, an answer is not left in the buffer, framing and answers do not end the server, who has gone is closed |
| `rtsp_any` | 1 connection, any 6 requests | the KCP object outlives its thread; a closed connection leaves nothing; every release ends, unless a removeCam never returns |
| `rtsp_camera` | 3 cameras on 3 loops, the camera's UDP dialogue, cameras interchangeable | the only failure is the unset KCP pointer; no UDP connection left behind; what the monitor server offers has a session, the registries agree outside constructor and release, and relayed cameras are known, for an id that was drawn once |
| `kcp` | both hops, windows of 2, 3 packets, 2 datagrams each way, numbers modulo 10, new or about to wrap | refinement of the channel; what is acknowledged is held; the receiver stays within its window; the windows meet; neither end goes back |
| `kcp_live` | the same, 1 answer under way | every packet is accepted in the end |
| `camera` | frames of up to 2 packets | nothing is released under the video thread; writers of the KCP object exclude each other; main returns clean; which faults the cleanup can commit; a stop ends the program, except in three named cases |
| `monitor` | 1 viewer, 2 cameras | sessions outlive their threads, a forgotten viewer is clean, the conversations of a viewer differ, the joins of its close cannot deadlock |
| `monitor_remove` | 1 viewer, 1 camera | refuted: removing a camera ends |
| `reassembly` | 1 camera, 5 units of 1 to 4 packets, numbers modulo 8 from any start (two and a half turns), up to 4 missing in a row | no damaged unit and no halves of two are put together, unless an unfinished unit stays in the buffer for a whole turn; no new packet taken for an old one while fewer than `_maxSeqGap` are missing; a unit that arrived whole is kept, except exactly when it overflows the buffer or does not end before the wrap |

A run checks a module's invariants by the conjunctions that group them: `LockInv` and `OrderInv` of
`Eventor`, `QueueInv` of `ThreadPool`, `ReleaseInv` and `RegistryInv` of `RtspConnect`, `SessionInv` of
`MonitorServer`, `FrameInv` of `Reassembler`, `WindowInv` of `Kcp`, `ExitInv` of `ServerLifecycle`,
`StreamInv` of `TcpConnection`, `UseInv` of `CameraClient`. The first one of a module includes its
`TypeOK`; the parts are defined and explained beside them.

Several properties name the exceptions the code has: `StopEnds` (`LostWakeup`: the notification is over and
a worker that tested `_notExit` before is about to wait; `MonitorStuck`), `ConnectionsServed` and
`ReleaseEnds` (`MonitorStuck`), `OrdinaryStopIsSafe` (the KCP thread of a recording camera),
`OnlyWildKcpFails`, `ItemsIntact` and `TransportSurvives` (a payload with an end of header or TEARDOWN in
it), `FramesAreWhole` (`turned`), `CleanupFaults`, `CameraStopEnds`, `WholeUnitIsKept`. Each says that the
exception is the only one. `TransportSurvives` is about framing and writing: that a handler ends the
process is not its subject, and for the camera's dialogue `OnlyWildKcpFails` says which ones do.
`JoinCannotDeadlock` is about the joins of a close; the close may wait for `_mtx` itself for ever,
behind the removeCam of `monitor_remove`. `ConversationsDiffer` is about one viewer: two viewers may draw
the same id, and the server tells them apart by nothing else. Nor does `RegistryInv` say anything of
cameras that share an id.

**Bounds.** Two producers with two functors each give every overlap of a push with the loop's read
and swap and a second batch behind the first; the theorems cover the rest. A queue of one place with
two adders and two workers makes both condition variables have waiters at once, so that `notify_one`
must choose. Six requests are enough for SETUP, RECORD, TEARDOWN and again SETUP and RECORD with one
stray request. Three cameras on three loops: two are enough for the race on the session counter, but
only a third can draw the id of a camera that is being released, and then a closed camera's id is in
the registries again. The cameras are interchangeable (`SYMMETRY`): each has a loop named after it, they
hold the same dialogue, and the run checks no liveness. One viewer
and two cameras are enough for two sessions of one client, a close that joins two threads, and a
camera that is removed meanwhile; each camera and each viewer connects once (`Cams` and `Viewers`
bound the number of connections). Conversation ids of two viewers meet only with two viewers, which
is beyond a full exploration here and stated as a hazard. The reassembler's run goes
through two and a half turns of eight numbers and begins anywhere in them, so every unit meets the wrap
in some behaviour and a fragment may stay in the buffer for a turn; units go up to one packet above the
buffer's limit. With 65536 numbers a turn is some minutes of video. The exception `turned` is needed:
without it TLC finds, in 14 states, a fragment that stays while the packets up to the wrap are missing and
all those of the next turn are taken for repetitions, and is joined by one a turn later. What remains
assumed is that a unit is shorter than a turn (`UnitsFit`). Losses are what the class is written
for; KCP itself delivers every packet of a subscription, so in practice they stem from its edges.

Windows of two let the receiver's window close, open and be probed, and let a segment be overtaken by one
behind it; three packets are one more than a window, and ten numbers are the least that tell the
windows apart (`NumbersSuffice`); a conversation found at number 9 wraps within them. `FastResend` and
`FastLimit` of 1 reach the fast resend and its limit with one overtaking. Two workers are enough for one
to miss a wake-up while the other ends, and for a loop whose unloop comes before its start; the second
signal may meet the first one's stop on another thread. One request with a body and TEARDOWN, and two
frames, give every way in which a read can cut or join two items.

**Deadlock checking** is off where the system may really stop: all requests sent, process failed, pool
stopped.

**Fairness.** A thread that can take a step takes one: weak fairness for the loop threads, the accept
thread, the KCP threads of RTSP sessions and the pool's owner. Strong fairness stands for a mutex
that is released again and again and whose waiter is served in the end (pool workers and adders,
camera and update threads of the monitor server): POSIX mutexes do not promise it, but the other
users spend their time in `epoll_wait`, `usleep` or the network between two acquisitions. Nothing
obliges a client to send, a producer to submit, a camera to come or anyone to stop a loop. A task of
the pool is assumed to return; the server's own tasks are loops, which return after `unloop`.
KCP: both ends are updated for ever (the camera's select loop has a timeout, the server and the viewer
have update threads and a timer), a timer that runs runs out, and the network is good from some time on
(`Calm`): without that nothing can be promised over UDP. Strong fairness of the updates stands for the
periods in which they wait for datagrams under way. The server's and the camera's threads are
scheduled, and the camera's two contenders for the KCP mutex both get it in the end, since each spends
its time elsewhere (select, the encoder). Loops on TCP sockets are level-triggered, so what has arrived
is read. Nothing obliges the peer to answer, to read, to close or to send, nor anyone to send a signal.

**Abstractions.** In `RtspConnect` and `MonitorServer` requests and messages are whole (a read may
return several, never a part of one; `TcpConnection` has the cutting of RTSP requests); datagrams may be
lost, late or repeated; text, SDP, ports and time are left out; an `epoll_wait` that fails is not
modelled (an interrupted one is retried). The sockets to the viewers never fill: a send that blocks for
ever with `_mtx` held (media/MonitorServer.cc:314, 408, 448) is left out. SETUP of a viewer reads
`_cams` without a lock: the read is one step, the race inside `std::map` is below the model's grain. In
`Kcp` each segment is a datagram of its own; a real flush packs several into one, for which the server
then calls `ikcp_recv` once, so that packets stay in `rcv_queue` a little longer than in the model. In
`CameraClient` a descriptor that `udp_init` closed after a failed bind counts as closed, although its
number stays in the struct.

## 5. Proofs

All proofs are by an inductive invariant `IInv`: Init implies it, every step preserves it (one lemma or
one step per action), and it implies the property.

- `ReactorProofs` on `Eventor`, for any finite set of producers and any number of functors (assumptions:
  `ProducersFinite`, `MaxPerProducerNat`, `ThreadsDistinct`): type correctness, lock discipline, no
  lost wake-up, exactly once in order, per-producer order, and the refinement of `FunctorExecutor`.
  `NoLostWakeup` is inductive only together with the lock discipline (the loop that has read the
  eventfd has not swapped yet) and `BatchOnlyWhileRunning` (a swap finds an empty batch, so that the
  exchange loses nothing); order per producer needs `NumberedInOrder`, which ties the numbers in the
  queue to what the producer is submitting. A push maps to Submit, a run to Run, everything else,
  the swap included, leaves `tmp \o pendings` alone.
- `ReactorProofs` on `ThreadPool`, for any workers, adders and queue size (assumptions `WorkersFinite`,
  `AddersFinite`, `MaxPerAdderNat`, `QueueSizePositive`, `NoWorkerIsNone`): types, the bound, a task
  at the front, order, and `StopRunsTasks`. The invariant adds who holds the mutex (`MutexHeld`: a
  worker between its test and the front), that an adder in push has a task, and that no
  worker runs before start or after stop, nor holds a task outside its run (`WorkersFollowOwner`).
  `StopRunsTasks` rests on `Drained` besides: the tasks counted in `atStop` had been pushed, and when the
  drain has seen an empty queue, all of them have been taken (`TasksExactlyOnceInOrder`).
- `RtspConnectProofs`, for any connections and any assignment to loops (assumptions `LoopOfIsFunction`,
  `DialogueOfRequests`, `CamKcpInitValues`). For any dialogue: `UpdateIsSafe`, `ClosedHasNoThread` and
  `ClosedConnectionsReleased`. The first invariant is the order of a release: past the join there is no
  thread (`JoinedBeforeFree`), only open connections are released (`ReleasesOpen`), a closed one has
  neither thread nor KCP object (`ClosedIsEmpty`). The second adds the types, that ids are drawn from
  the counter (`IdsDrawn`), and `Registered`, which follows an id that is not shared through both
  registries, the steps of constructor and release in which they differ included. For the dialogue of
  camera/rtsp_client.c (`Dialogue = UdpCamera`, stated as a hypothesis of each theorem):
  `CameraFailsOnWildKcpOnly`, `CameraLeavesNoUdp` and `CameraRegistriesAgree`. There the number of
  requests sent tells the rest: the track is set up by the third (`SetUpByThird`), KCP object and thread
  come with the fourth (`KcpByFourth`), a UDP connection in the table is its camera's current one until
  the release that the fifth began is over (`UdpIsCurrent`), and an unshared camera is at the monitor
  server between its constructor and then (`KnownUntilFifth`). The proof showed that the earlier forms
  of `ClosedIsReleased` and `RegistriesAgree`, without `Alone`, are false from three connections on,
  which the run with two could not show.
- `MonitorServerProofs`, for any viewers and cameras (assumptions `ViewersFinite`, `CamsNumbered`,
  `DescriptorsDiffer`): `SessionsAreSound`, `ForgottenIsClean`, `JoinDoesNotDeadlock`. The invariant says
  who holds which mutex across steps (`MtxHolder`: the accept thread while it makes sessions or closes,
  a camera's thread throughout removeCam; `KmtxHolder`, `NaluTarget`); that events, requests and
  joins are of clients (`EventsOfClients`, `AcceptsClient`), which needs that a viewer connects once
  and that what is being closed gets no further event; and that sessions belong to clients and threads
  to sessions (`SessionOwner`). That conversations differ is inductive only for all the places a pair of
  camera and conversation can be in: the viewer's map, its requests under way, in the server's
  buffer and in its hands, and the sessions (`Known`, `ConvsTellCams`), with the fact that ADDCAM names
  one camera.
- `ServerLifecycleProofs`, for any number of workers, connections and signals, taken by any threads
  (assumptions `NPositive`, `SignalThreadsOk`, `BoundsNat`): `MainReturnsClean` and `OrdinaryStopSafe`. main
  returns only when somebody has unlooped it, and whoever does so with main in its loop goes on
  to join every thread, all of which are recorded by then (`Spawned`, `JoinsInTurn`, `MainUnlooped`);
  main leaves when no handler is under way (`ExitIsQuiet`). `OrdinaryStop` follows one stop through its
  phases, and then the connection that the last round of the main loop may still accept, which finds no
  sub loops and stays in the main loop; that there is only one stop needs `OneSignalOneStop`.
- `CameraClientProofs`, for frames of any number of packets (assumption `MaxPacketsAssumption`):
  `CameraUsesLive`, `CameraReturnsClean`, `CameraCleanupFaults`. The invariant ties what exists to where
  main is (`CaptureFollowsMain`), to how far the handshake has got (`SessionFollowsRequest`: the answer
  to SETUP makes the whole session, and only the last cleanup releases it) and the video thread to
  main (`VideoFollowsMain`: it is joined before anything is released); `MutexHolder` gives the exclusion.
- `ReassemblerProofs`, for one camera (`OneCamera`, stated as a hypothesis of each theorem) that begins
  anywhere in its numbering and goes through any number of turns of it, any gap, buffer, units and losses
  (assumptions `SeqModNat`, `MaxSeqGapNat`, `MaxFuBufferSizePositive`, `UnitsFit`, `BoundsNat`):
  `FramesOfOneCamera`, `NextIsNotDuplicate` and, for a gap above 0, `WholeUnitsAreKept`. Everything is
  counted back from the camera's next number (`Back`), which turns the arithmetic modulo `SeqMod` into one
  subtraction. That is exact within a turn: what `FramesOfOneCamera` needs of the buffer (`BufferFits`) holds
  until `turned`, while the other two need the last packets only (`LastProcessed`, `IntactFits`) and hold
  in any turn, whatever has become of the buffer before. The buffer may hold fragments of two units, when the
  packets between them are missing, so `FrameInv` is not inductive. The invariant says which key can hold what
  (`KeyFits`): up to the length of the unit that began the buffer its own fragments in their places, and
  never the number behind its last one, which a start packet or a packet of its own would have taken.
  A buffer without a hole that reaches the end packet is therefore one whole unit, the
  current one (`CompleteIsWhole`), since an older unit would have to be as old as it is long
  (`UnitFits`). `LastProcessed` ties the packets that are missing to the last number,
  and `IntactFits` is the buffer of a unit of which nothing is missing yet. With a gap of 0 every packet is
  a gap and no fragmented unit is kept, which TLC shows.
- `TcpConnectionProofs`, for any dialogue (any number of requests before TEARDOWN, with bodies of any
  length), any number of frames and any length of payloads (assumptions `RequestsOk`, `BoundsOk`):
  `StreamInv`, `AnswerIsThere` and `TransportSurvives` (`TransportCorrect`). All of it is about
  `Stream`, what the server has buffered, what is under way and what a partial write has not placed yet.
  Before the first frame the dialogue is strict: nothing is in it, or the one request asked last
  (`BeforeFrames`); after the dialogue no header waits for a body (`AfterDialogue`). While no payload
  has held an end of header or TEARDOWN, there is at most one end of a header, and no TEARDOWN behind it
  (`OneHeader`); while no frame was cut by a full socket either, each `$` begins a whole frame and each
  end of header ends TEARDOWN (`ItemsWhole`). That receiving, parsing and appending keep these needs
  facts about the first place of a token in a sequence and its prefixes and suffixes, which are lemmas
  of their own.
- `KcpProofs`, for both hops, any windows and limits of the fast resend, any first number and any
  network (assumptions `WindowsPositive`, `NumbersSuffice`, `OneTurn` and the others of `Kcp`):
  `WindowsKept`, `NoPacketDropped`, `EndsMoveForward` and `KeepsPromise`, the refinement of `KcpChannel`
  (a packet given is Give, one `ikcp_recv` is Read, everything else stutters). Numbers wrap, so the
  invariant counts them by their place from the first one (`Turn`), where `_itimediff` is a subtraction.
  With b packets given before, number n stands for packet b + `Turn`(n) + 1: at the sender
  (`SenderFits`), at the receiver (`ReceiverFits`) and under way (`NetFits`); read packets, queue and
  buffer of the receiver thus continue each other, which is the refinement. That an acknowledged packet
  is held needs that all acknowledgements, pending or under way, name what the receiver has
  (`AnswersTrue`) and that every number is outstanding or received (`NoneMissing`). `WindowsMeet` and
  `NeverBack` need more: `SomeOwed`, some number up to `rcv_nxt` is acknowledged neither at the sender
  nor on the way, so `snd_una` cannot pass `rcv_nxt`. `QueueFits` says that a queue and its buffer hold
  one window together, and one packet more only while the receiver reads: a queue that has room never
  leaves `rcv_nxt` in the buffer.
- `LockInvHolds`, `OrderInvHolds` and `QueueInvHolds` put the parts together as the runs check them.

Every inductive invariant was checked by TLC on an instance before it was proved. The invariants split
`TypeOK` into groups of variables (`MainTypes`, `SessionTypes`, ...), and a lemma `Frames` says once that a
step that leaves the variables of a part alone preserves the part; the lemma of an action then has one
step for each part that the action can disturb.

Every invariant and every action property of a passing run, and both refinements, have a theorem. Only
model-checked: the liveness properties, which rest on fairness and `ENABLED`, outside the prover's reach.

## 6. Disagreements with the repository's own statements

One is a run that TLC refutes, with the quoted line in `PROJECT.json`: `removeCam` joins an update thread
while it holds the mutex that thread waits for (media/MonitorServer.cc:450), so the event loop and
`_mtx` are stuck.

Further behaviours that the models contain and the hazard list names; the properties are stated so that
they hold with them as their only exceptions, or for instances without them:

- `TaskQueue::wakeUp` does not hold the mutex, and a worker can miss it (reactor/TaskQueue.cc:50);
  `ThreadPool::stop` ends the workers before it waits for the queue to drain (reactor/ThreadPool.cc:32),
  and `loop()` forgets an unloop that came first (reactor/EventLoop.cc:57): a stop during start hangs.
- Destroying the sub loops with a recording camera ends the process
  (reactor/MultiThreadEventLoop.cc:97), since ~RtspConnect does not stop the KCP thread.
- RECORD acts before it tests the state that would refuse it (media/RtspConnect.cc:257); after a TCP SETUP
  it uses a connection only UDP creates. With the camera's TCP dialogue `OnlyWildKcpFails` is violated.
- A disconnect before RECORD frees a KCP pointer that was never set (media/RtspConnect.cc:547).
- The main loop may accept a connection in its last round, after a stop; with no sub loops left the
  connection is served by the main loop, if at all (reactor/MultiThreadEventLoop.cc:105).
- A session is in the monitor server's map before it has its KCP object, and `onNaluUdp` uses it without
  `_mtx` (media/MonitorServer.cc:169, 353).
- A recv that fails makes `append(buf, -1)` throw out of the accept thread (media/MonitorServer.cc:139), and
  a send to a viewer that has gone raises SIGPIPE (lines 314, 408 and 448): a viewer that dies can end the
  server.
- The monitor's listening socket is edge-triggered and accepted from once per event
  (media/MonitorServer.cc:100): of two viewers that connect at once, one waits for the next.
- One reassembler serves all cameras of a viewer (car_detect_qt/h264rtpreassembler.cpp:109): with two
  streams `FramesAreWhole` is violated.
- A fragment that stays in the buffer for a whole turn of the sequence numbers can be joined by one of
  another unit (car_detect_qt/h264rtpreassembler.cpp:31, 199): three packets missing before the wrap make
  the whole next turn pass for repetitions.
- An interleaved payload with the four bytes of an end of header is taken for a request, and a TEARDOWN
  behind it makes `assign` throw, as does a payload with the text TEARDOWN behind the request TEARDOWN
  (reactor/TcpConnection.cc:168).
- The camera's cleanup before SETUP closes descriptor 0 and releases a null KCP object; after a failed
  pthread_create it joins an uninitialised id (camera/rtsp_client.c:531); a select error or a server that
  does not answer TEARDOWN keeps it from ending (lines 455 and 528), and so does a stream of datagrams that
  never leaves the socket empty (line 496).

## 7. Not modelled

- Capture (V4L2), encoding, decoding, display and logging: device and library calls without a protocol of
  their own. That the signal handler logs, and may meet a lock of the thread it interrupts, is below
  the models' grain.
- car_detect_qt/third_lib holds the headers of FFmpeg, some 38,000 of the repository's 48,000 lines: they
  declare a library and contain no code of this system, so the share of all lines the modules stand
  for is small whatever is modelled. The two other copies of ikcp.c (1,306 lines each) are
  stood for by the one that is mapped.
- Timers (reactor/TimerManager.cc): no program of the repository registers one.
- The send buffer of `TcpConnection` and EPOLLOUT: not reached, because accepted sockets are blocking.
- `onNaluTcp` has no caller. KCP's fragments, stream mode and RTT estimate: see `Kcp` above.
- The allocation of UDP ports (media/SessionManager.cc:39), which grows for ever and is truncated to 16
  bits, and UDP connections apart from their place in the loop's table.
- Several events of one connection in a batch of `epoll_wait`, and the reuse of a descriptor within it.
- A signal that interrupts its own handler.

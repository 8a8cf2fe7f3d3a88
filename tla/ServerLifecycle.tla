-------------------------- MODULE ServerLifecycle --------------------------
(***************************************************************************)
(* The server's life: main (RtspServer.cc), MultiThreadEventLoop's start,    *)
(* stop, getNextLoop and onNewConnection, with the loops as tasks of the     *)
(* thread pool.                                                             *)
(*                                                                          *)
(* stop is called by the signal handler, on whatever thread the signal is   *)
(* delivered to, on top of what that thread was doing.  It ends the loops,   *)
(* the pool and the threads, and destroys the sub loops.  After start has   *)
(* returned, main destroys the server.  The task queue's mutex is left out: *)
(* all tasks are added before there are workers, and wakeUp does not take   *)
(* it; module ThreadPool has the details.  A signal that interrupts its own *)
(* handler is left out.                                                     *)
(***************************************************************************)
EXTENDS Naturals, Sequences, FiniteSets

CONSTANTS N,             \* worker threads, and sub loops (4)
          SignalThreads, \* threads a signal may be delivered to
          MaxSignals,    \* bound: signals
          MaxConns       \* bound: cameras that connect

Main == 0                \* also the number of the main loop
Workers == 1..N          \* also the numbers of the sub loops
Other == N + 1           \* a thread of the monitor server
Threads == 0..(N + 1)

ASSUME NPositive == N \in Nat \ {0}
ASSUME SignalThreadsOk == SignalThreads \subseteq Threads
ASSUME BoundsNat == MaxSignals \in Nat /\ MaxConns \in Nat

VARIABLES
  server,     \* g_server: "none", "live" or "destroyed"
  running,    \* MultiThreadEventLoop::_running
  mpc,        \* where main is
  added,      \* tasks start has added
  queue,      \* TaskQueue::_queue: numbers of sub loops
  created,    \* worker threads created
  recorded,   \* those in ThreadPool::_threads
  joined,     \* those joined
  isExit,     \* ThreadPool::_isExit
  notExit,    \* TaskQueue::_notExit
  wpc,        \* where each worker is in doTask
  wloop,      \* the sub loop whose task it runs, 0 if none
  isLooping,  \* EventLoop::_isLooping of every loop
  subLoops,   \* the sub loops exist
  next,       \* _nextLoopIndex modulo N
  target,     \* the loop getNextLoop returned
  accepted,   \* connections accepted
  pending,    \* new connections in each loop's functor queue
  connected,  \* loops with a camera
  recording,  \* loops with a camera that records, that is, with a KCP thread
  hpc,        \* where each thread is in the signal handler
  hk,         \* how far it is in a loop of stop
  signals,    \* signals delivered
  stops,      \* the threads that have begun to stop the server
  at,         \* history: where main was when the first of them did
  fault       \* what ended the process

poolVars == <<queue, created, recorded, joined, isExit, notExit>>
workerVars == <<wpc, wloop>>
mainVars == <<server, mpc, added, next, target, accepted>>
cameraVars == <<pending, connected, recording>>
loopVars == <<isLooping, subLoops, cameraVars>>
handlerVars == <<hpc, hk, signals, stops, at>>
vars == <<running, poolVars, workerVars, mainVars, loopVars, handlerVars, fault>>

MainPCs == {"construct", "start", "push", "spawn", "record", "enter", "loop", "accepted",
            "pick", "hand", "left", "exit"}
WorkerPCs == {"unborn", "test", "pop", "sleep", "wait", "task", "loop", "addCam", "release",
              "stuck", "ended"}
HandlerPCs == {"none", "check", "set", "unloop", "exit", "notExit", "notify", "drain",
               "join", "clear"}

TypeOK ==
  /\ server \in {"none", "live", "destroyed"} /\ running \in BOOLEAN
  /\ mpc \in MainPCs /\ added \in 0..N
  /\ queue \in Seq(Workers)
  /\ created \in 0..N /\ recorded \in 0..N /\ joined \subseteq Workers
  /\ isExit \in BOOLEAN /\ notExit \in BOOLEAN
  /\ wpc \in [Workers -> WorkerPCs]
  /\ wloop \in [Workers -> 0..N]
  /\ isLooping \in [0..N -> BOOLEAN] /\ subLoops \in BOOLEAN
  /\ next \in 0..(N - 1) /\ target \in 0..N /\ accepted \in 0..MaxConns
  /\ pending \in [Workers -> 0..MaxConns]
  /\ connected \subseteq 0..N /\ recording \subseteq 0..N
  /\ hpc \in [Threads -> HandlerPCs] /\ hk \in [Threads -> 0..(N + 1)]
  /\ signals \in 0..MaxSignals /\ stops \subseteq Threads
  /\ at \in MainPCs \cup {"none"}
  /\ fault \in {"none", "cleared vector", "destroyed loop", "loop in use", "kcp thread",
                "joins itself", "joins twice", "server in use"}

Init ==
  /\ server = "none" /\ running = FALSE /\ mpc = "construct" /\ added = 0
  /\ queue = <<>> /\ created = 0 /\ recorded = 0 /\ joined = {}
  /\ isExit = FALSE /\ notExit = TRUE
  /\ wpc = [w \in Workers |-> "unborn"] /\ wloop = [w \in Workers |-> 0]
  /\ isLooping = [l \in 0..N |-> FALSE] /\ subLoops = FALSE
  /\ next = 0 /\ target = 0 /\ accepted = 0
  /\ pending = [l \in Workers |-> 0] /\ connected = {} /\ recording = {}
  /\ hpc = [t \in Threads |-> "none"] /\ hk = [t \in Threads |-> 0]
  /\ signals = 0 /\ stops = {} /\ at = "none" /\ fault = "none"

Alive == fault = "none" /\ mpc # "exit"

\* The thread executes its own code: it is not in the signal handler.
Free(t) == Alive /\ hpc[t] = "none"

MainAt(p) == Free(Main) /\ mpc = p

-----------------------------------------------------------------------------
(* Plausible mistakes, used to see that the properties can fail.            *)

\* stop destroys the loops without waiting for their threads.
JoinDetaches(k) == TRUE

\* getNextLoop does not test for empty.
SubLoopsAssumed == TRUE

\* wakeUp does not notify.
WakesNobody == wpc

\* The tasks of start share the variable they take their number from.
CapturedByReference == N

-----------------------------------------------------------------------------
(* main and start.                                                          *)

\* The constructor makes the sub loops.
MakeServer ==
  /\ MainAt("construct")
  /\ server' = "live" /\ subLoops' = TRUE /\ mpc' = "start"
  /\ UNCHANGED <<running, added, next, target, accepted, poolVars, workerVars, isLooping,
                 cameraVars, handlerVars, fault>>

Start ==
  /\ MainAt("start")
  /\ running' = TRUE /\ mpc' = "push"
  /\ UNCHANGED <<server, added, next, target, accepted, poolVars, workerVars, loopVars,
                 handlerVars, fault>>

TasksToAdd == N
LoopIndex == added + 1

\* One task per sub loop; the queue has room for all of them.
AddTask ==
  /\ MainAt("push")
  /\ IF added < TasksToAdd
     THEN added' = added + 1 /\ queue' = Append(queue, LoopIndex) /\ UNCHANGED mpc
     ELSE mpc' = "spawn" /\ UNCHANGED <<added, queue>>
  /\ UNCHANGED <<running, server, next, target, accepted, created, recorded, joined, isExit,
                 notExit, workerVars, loopVars, handlerVars, fault>>

\* ThreadPool::start: a thread runs before _threads has it.
SpawnWorker ==
  /\ MainAt("spawn")
  /\ IF created < N
     THEN /\ created' = created + 1
          /\ wpc' = [wpc EXCEPT ![created + 1] = "test"]
          /\ mpc' = "record"
     ELSE mpc' = "enter" /\ UNCHANGED <<created, wpc>>
  /\ UNCHANGED <<running, server, added, next, target, accepted, queue, recorded, joined,
                 isExit, notExit, wloop, loopVars, handlerVars, fault>>

RecordWorker ==
  /\ MainAt("record")
  /\ recorded' = created /\ mpc' = "spawn"
  /\ UNCHANGED <<running, server, added, next, target, accepted, queue, created, joined,
                 isExit, notExit, workerVars, loopVars, handlerVars, fault>>

\* Acceptor::ready, and loop() of the main loop begins.
EnterMainLoop ==
  /\ MainAt("enter")
  /\ isLooping' = [isLooping EXCEPT ![Main] = TRUE] /\ mpc' = "loop"
  /\ UNCHANGED <<running, server, added, next, target, accepted, poolVars, workerVars,
                 subLoops, cameraVars, handlerVars, fault>>

\* A round of the main loop that accepts a connection.  _isLooping is tested between
\* rounds only, and epoll_wait goes on after a signal (EINTR): the round may report the
\* connection when the handler has long stopped the server.
Accept ==
  /\ MainAt("loop")
  /\ accepted < MaxConns
  /\ accepted' = accepted + 1 /\ mpc' = "accepted"
  /\ UNCHANGED <<running, server, added, next, target, poolVars, workerVars, loopVars,
                 handlerVars, fault>>

HasSubLoops == subLoops

\* getNextLoop: the test of _subLoops.empty() ...
TestSubLoops ==
  /\ MainAt("accepted")
  /\ IF HasSubLoops THEN mpc' = "pick" /\ UNCHANGED target
                 ELSE mpc' = "hand" /\ target' = Main
  /\ UNCHANGED <<running, server, added, next, accepted, poolVars, workerVars, loopVars,
                 handlerVars, fault>>

NextLoop == next + 1

\* ... and the choice by _nextLoopIndex % size().
PickLoop ==
  /\ MainAt("pick")
  /\ IF subLoops
     THEN target' = NextLoop /\ next' = (next + 1) % N /\ mpc' = "hand" /\ UNCHANGED fault
     ELSE fault' = "cleared vector" /\ UNCHANGED <<target, next, mpc>>
  /\ UNCHANGED <<running, server, added, accepted, poolVars, workerVars, loopVars,
                 handlerVars>>

\* runInLoop: the main loop runs the functor at once, a sub loop gets it queued.
HandOver ==
  /\ MainAt("hand")
  /\ IF target # Main /\ ~subLoops
     THEN fault' = "destroyed loop" /\ UNCHANGED <<pending, mpc>>
     ELSE /\ pending' = IF target = Main THEN pending ELSE [pending EXCEPT ![target] = @ + 1]
          /\ mpc' = "loop" /\ UNCHANGED fault
  /\ target' = Main
  /\ UNCHANGED <<running, server, added, next, accepted, poolVars, workerVars, isLooping,
                 subLoops, connected, recording, handlerVars>>

\* _isLooping is tested after a round, or before the first.
LeaveMainLoop ==
  /\ MainAt("loop") /\ ~isLooping[Main]
  /\ mpc' = "left"
  /\ UNCHANGED <<running, server, added, next, target, accepted, poolVars, workerVars,
                 loopVars, handlerVars, fault>>

\* g_server.reset(): a std::thread that was not joined, or a thread that is inside
\* stop, ends the process.  Then main returns.
DestroyServer ==
  /\ MainAt("left")
  /\ server' = "destroyed"
  /\ IF joined # 1..recorded \/ \E t \in Threads : hpc[t] # "none"
     THEN fault' = "server in use" /\ UNCHANGED mpc
     ELSE mpc' = "exit" /\ UNCHANGED fault
  /\ UNCHANGED <<running, added, next, target, accepted, poolVars, workerVars, loopVars,
                 handlerVars>>

-----------------------------------------------------------------------------
(* The workers: doTask, pop, and the task that runs a loop.                 *)

WorkerAt(w, p) == Free(w) /\ wpc[w] = p
Go(w, p) == wpc' = [wpc EXCEPT ![w] = p]

TestExit(w) ==
  /\ WorkerAt(w, "test")
  /\ Go(w, IF isExit THEN "ended" ELSE "pop")
  /\ UNCHANGED <<running, poolVars, wloop, mainVars, loopVars, handlerVars, fault>>

\* TaskQueue::pop: a task, the null task at exit, or a wait.
Pop(w) ==
  /\ WorkerAt(w, "pop")
  /\ \/ /\ queue # <<>> /\ notExit
        /\ wloop' = [wloop EXCEPT ![w] = Head(queue)] /\ queue' = Tail(queue)
        /\ Go(w, "task")
     \/ ~notExit /\ Go(w, "test") /\ UNCHANGED <<wloop, queue>>
     \/ queue = <<>> /\ notExit /\ Go(w, "sleep") /\ UNCHANGED <<wloop, queue>>
  /\ UNCHANGED <<running, created, recorded, joined, isExit, notExit, mainVars, loopVars,
                 handlerVars, fault>>

\* _notEmpty.wait is reached only now: a notify_all before this is lost.
Sleep(w) ==
  /\ WorkerAt(w, "sleep")
  /\ Go(w, "wait")
  /\ UNCHANGED <<running, poolVars, wloop, mainVars, loopVars, handlerVars, fault>>

SpuriousWakeup(w) ==
  /\ WorkerAt(w, "wait")
  /\ Go(w, "pop")
  /\ UNCHANGED <<running, poolVars, wloop, mainVars, loopVars, handlerVars, fault>>

\* loop() sets _isLooping, whatever unloop has written before.
EnterLoop(w) ==
  /\ WorkerAt(w, "task")
  /\ IF subLoops
     THEN Go(w, "loop") /\ isLooping' = [isLooping EXCEPT ![wloop[w]] = TRUE]
     ELSE Go(w, "test") /\ UNCHANGED isLooping
  /\ UNCHANGED <<running, poolVars, wloop, mainVars, subLoops, cameraVars, handlerVars,
                 fault>>

\* Somebody holds MonitorServer::_mtx for ever.
MonitorStuck == \E w \in Workers : wpc[w] = "stuck"

\* A round of the loop, which _isLooping no longer ends, runs the functor of a new
\* connection ...
ServeConnection(w) ==
  /\ WorkerAt(w, "loop")
  /\ pending[wloop[w]] > 0
  /\ pending' = [pending EXCEPT ![wloop[w]] = @ - 1]
  /\ Go(w, "addCam")
  /\ UNCHANGED <<running, poolVars, wloop, mainVars, isLooping, subLoops, connected,
                 recording, handlerVars, fault>>

\* ... and RtspConnect's constructor calls addCam, which takes _mtx; the camera may come
\* to record.
AddCam(w, records) ==
  /\ WorkerAt(w, "addCam") /\ ~MonitorStuck
  /\ connected' = connected \cup {wloop[w]}
  /\ recording' = IF records THEN recording \cup {wloop[w]} ELSE recording
  /\ Go(w, "loop")
  /\ UNCHANGED <<running, poolVars, wloop, mainVars, isLooping, subLoops, pending,
                 handlerVars, fault>>

\* The loop's cameras go (TEARDOWN or disconnect): releaseSession, ...
CamerasLeave(w) ==
  /\ WorkerAt(w, "loop")
  /\ wloop[w] \in connected
  /\ Go(w, "release")
  /\ UNCHANGED <<running, poolVars, wloop, mainVars, loopVars, handlerVars, fault>>

\* ... which joins the KCP thread ...
ReleaseReturns(w) ==
  /\ WorkerAt(w, "release") /\ ~MonitorStuck
  /\ connected' = connected \ {wloop[w]} /\ recording' = recording \ {wloop[w]}
  /\ Go(w, "loop")
  /\ UNCHANGED <<running, poolVars, wloop, mainVars, isLooping, subLoops, pending,
                 handlerVars, fault>>

\* ... or never returns from removeCam, with _mtx held (module MonitorServer).
ReleaseSticks(w) ==
  /\ WorkerAt(w, "release")
  /\ Go(w, "stuck")
  /\ UNCHANGED <<running, poolVars, wloop, mainVars, loopVars, handlerVars, fault>>

LeaveLoop(w) ==
  /\ WorkerAt(w, "loop") /\ ~isLooping[wloop[w]]
  /\ Go(w, "test") /\ wloop' = [wloop EXCEPT ![w] = 0]
  /\ UNCHANGED <<running, poolVars, mainVars, loopVars, handlerVars, fault>>

-----------------------------------------------------------------------------
(* The signal handler and stop, on thread t.                                *)

\* t can be interrupted: it exists and is not in the handler already.
CanTakeSignal(t) ==
  /\ t \in SignalThreads /\ Free(t)
  /\ t \in Workers => wpc[t] \notin {"unborn", "ended"}

Signal(t) ==
  /\ CanTakeSignal(t)
  /\ signals < MaxSignals
  /\ signals' = signals + 1
  /\ hpc' = IF server = "live" THEN [hpc EXCEPT ![t] = "check"] ELSE hpc
  /\ UNCHANGED <<running, poolVars, workerVars, mainVars, loopVars, hk, stops, at, fault>>

HandlerAt(t, p) == Alive /\ hpc[t] = p
Proceed(t, p, k) == hpc' = [hpc EXCEPT ![t] = p] /\ hk' = [hk EXCEPT ![t] = k]

\* if (!_running) return;
CheckRunning(t) ==
  /\ HandlerAt(t, "check")
  /\ Proceed(t, IF running THEN "set" ELSE "none", 0)
  /\ UNCHANGED <<running, poolVars, workerVars, mainVars, loopVars, signals, stops, at, fault>>

ClearRunning(t) ==
  /\ HandlerAt(t, "set")
  /\ running' = FALSE
  /\ Proceed(t, "unloop", 1)
  /\ stops' = stops \cup {t}
  /\ at' = IF stops = {} THEN mpc ELSE at
  /\ UNCHANGED <<poolVars, workerVars, mainVars, loopVars, signals, fault>>

\* unloop of loop k; k = N + 1 stands for the main loop.
Unlooped(k) == [isLooping EXCEPT ![k % (N + 1)] = FALSE]

\* unloop of the sub loops in turn, and of the main loop
Unloop(t) ==
  /\ HandlerAt(t, "unloop")
  /\ isLooping' = Unlooped(hk[t])
  /\ IF hk[t] <= N THEN Proceed(t, "unloop", hk[t] + 1) ELSE Proceed(t, "exit", 0)
  /\ UNCHANGED <<running, poolVars, workerVars, mainVars, subLoops, cameraVars, signals,
                 stops, at, fault>>

\* ThreadPool::stop: _isExit, then wakeUp, which writes _notExit and notifies ...
SetExit(t) ==
  /\ HandlerAt(t, "exit")
  /\ isExit' = TRUE
  /\ Proceed(t, "notExit", 0)
  /\ UNCHANGED <<running, queue, created, recorded, joined, notExit, workerVars, mainVars,
                 loopVars, signals, stops, at, fault>>

ClearNotExit(t) ==
  /\ HandlerAt(t, "notExit")
  /\ notExit' = FALSE
  /\ Proceed(t, "notify", 0)
  /\ UNCHANGED <<running, queue, created, recorded, joined, isExit, workerVars, mainVars,
                 loopVars, signals, stops, at, fault>>

\* notify_all
Woken == [w \in Workers |-> IF wpc[w] = "wait" THEN "pop" ELSE wpc[w]]

NotifyAll(t) ==
  /\ HandlerAt(t, "notify")
  /\ wpc' = Woken
  /\ Proceed(t, "drain", 0)
  /\ UNCHANGED <<running, poolVars, wloop, mainVars, loopVars, signals, stops, at, fault>>

\* ... then waits until the queue is empty ...
Drain(t) ==
  /\ HandlerAt(t, "drain")
  /\ queue = <<>>
  /\ Proceed(t, "join", 1)
  /\ UNCHANGED <<running, poolVars, workerVars, mainVars, loopVars, signals, stops, at, fault>>

\* join of thread k can return
Ended(k) == wpc[k] = "ended"

\* ... and joins the threads in _threads, in turn.  A thread that joins itself and
\* a join of what has been joined throw.
Join(t) ==
  /\ HandlerAt(t, "join")
  /\ IF hk[t] > recorded THEN Proceed(t, "clear", 0) /\ UNCHANGED <<joined, fault>>
     ELSE \/ hk[t] = t /\ fault' = "joins itself" /\ UNCHANGED <<joined, hpc, hk>>
          \/ hk[t] \in joined /\ fault' = "joins twice" /\ UNCHANGED <<joined, hpc, hk>>
          \/ /\ hk[t] # t /\ hk[t] \notin joined /\ Ended(hk[t])
             /\ joined' = joined \cup {hk[t]}
             /\ Proceed(t, "join", hk[t] + 1) /\ UNCHANGED fault
  /\ UNCHANGED <<running, queue, created, recorded, isExit, notExit, workerVars, mainVars,
                 loopVars, signals, stops, at>>

\* The worker uses its loop.
InLoopPCs == {"loop", "addCam", "release", "stuck"}

\* _subLoops.clear(): with a loop goes its table of connections, and with a camera
\* that records a std::thread nobody has joined.
ClearSubLoops(t) ==
  /\ HandlerAt(t, "clear")
  /\ subLoops' = FALSE
  /\ connected' = connected \cap {Main} /\ recording' = recording \cap {Main}
  /\ pending' = [l \in Workers |-> 0]
  /\ fault' = IF \E w \in Workers : wpc[w] \in InLoopPCs THEN "loop in use"
              ELSE IF recording \cap Workers # {} THEN "kcp thread" ELSE "none"
  /\ Proceed(t, "none", 0)
  /\ UNCHANGED <<running, poolVars, workerVars, mainVars, isLooping, signals, stops, at>>

-----------------------------------------------------------------------------
MainStep ==
  \/ MakeServer \/ Start \/ AddTask \/ SpawnWorker \/ RecordWorker \/ EnterMainLoop
  \/ TestSubLoops \/ PickLoop \/ HandOver \/ LeaveMainLoop \/ DestroyServer

WorkerStep(w) ==
  \/ TestExit(w) \/ Pop(w) \/ Sleep(w) \/ EnterLoop(w) \/ ReleaseReturns(w) \/ LeaveLoop(w)

Serve(w) == ServeConnection(w) \/ \E records \in BOOLEAN : AddCam(w, records)

Stop(t) ==
  \/ CheckRunning(t) \/ ClearRunning(t) \/ Unloop(t) \/ SetExit(t) \/ ClearNotExit(t)
  \/ NotifyAll(t) \/ Drain(t) \/ Join(t) \/ ClearSubLoops(t)

\* What thread t does of itself, in the handler or not.
Step(t) ==
  \/ t = Main /\ MainStep
  \/ t \in Workers /\ (WorkerStep(t) \/ Serve(t))
  \/ Stop(t)

Next ==
  \/ \E t \in Threads : Step(t)
  \/ Accept
  \/ \E w \in Workers : CamerasLeave(w) \/ ReleaseSticks(w) \/ SpuriousWakeup(w)
  \/ \E t \in SignalThreads : Signal(t)

Spec == Init /\ [][Next]_vars

\* Every thread takes its steps; nobody has to connect, to send a signal, to leave, to be
\* stuck or to be woken without reason.
Fairness == \A t \in Threads : WF_vars(Step(t))

FairSpec == Spec /\ Fairness

-----------------------------------------------------------------------------
(* Properties.                                                              *)

\* The ordinary stop is safe: a signal that main takes in its loop, while no connection
\* is in its hands, never makes anyone use a loop or a server that is gone, nor a thread
\* join twice, and neither does a connection that the same round accepts when the sub
\* loops are destroyed.  It ends the process only if a camera is recording: the camera's
\* RtspConnect is destroyed with its KCP thread running.
OrdinaryStopIsSafe ==
  stops = {Main} /\ at = "loop" /\ signals = 1 => fault \in {"none", "kcp thread"}

\* A signal in the middle of start or of onNewConnection, or one that another thread
\* takes, is not: but even then the server is not left half destroyed in silence.
\* When main returns, every worker has ended and the sub loops are gone.
ExitIsClean ==
  mpc = "exit" => /\ ~subLoops /\ joined = Workers
                  /\ \A w \in Workers : wpc[w] = "ended"
                  /\ \A t \in Threads : hpc[t] = "none"

\* The state has its types, and main returns from a server that is wholly taken down.
ExitInv == TypeOK /\ ExitIsClean

\* A wake-up is being lost: wakeUp has notified, and a worker that tested _notExit before
\* is about to wait.
LostWakeup ==
  /\ ~notExit /\ \A t \in Threads : hpc[t] # "notify"
  /\ \E w \in Workers : wpc[w] = "sleep"

\* Every loop was entered.
Settled == mpc = "loop" /\ \A l \in 0..N : isLooping[l]

\* Once every loop runs, a stop by main leads to the end of main, unless the process
\* ends, a worker, back from its loop, misses the pool's wake-up, or a worker never
\* returns from the release of a camera.
StopEnds ==
  (Settled /\ hpc[Main] = "set")
    ~> (mpc = "exit" \/ fault # "none" \/ LostWakeup \/ MonitorStuck)

\* The loop has a connection that is not set up.
Unserved(l) == pending[l] > 0 \/ \E w \in Workers : wpc[w] = "addCam" /\ wloop[w] = l

\* A connection that was handed to a sub loop is set up by it, unless the server stops
\* or the release of another camera holds the monitor server's mutex for ever.
ConnectionsServed ==
  \A l \in Workers :
    Unserved(l) ~> (~Unserved(l) \/ stops # {} \/ fault # "none" \/ MonitorStuck)
=============================================================================

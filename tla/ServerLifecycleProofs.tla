----------------------- MODULE ServerLifecycleProofs -----------------------
(***************************************************************************)
(* Proofs about ServerLifecycle, for any number of workers, signals and      *)
(* cameras and any choice of the threads that take the signals: main returns *)
(* only from a server that is wholly taken down, and the ordinary stop ends  *)
(* the process in one way only.                                             *)
(***************************************************************************)
EXTENDS ServerLifecycle, Integers, Sequences, SequenceTheorems, TLAPS

-----------------------------------------------------------------------------
(* The types, by the owner of the variables.                                *)

MainTypes ==
  /\ server \in {"none", "live", "destroyed"} /\ running \in BOOLEAN
  /\ mpc \in MainPCs /\ added \in 0..N

ConnTypes ==
  /\ next \in 0..(N - 1) /\ target \in 0..N /\ accepted \in 0..MaxConns
  /\ pending \in [Workers -> 0..MaxConns]

PoolTypes ==
  /\ queue \in Seq(Workers) /\ created \in 0..N /\ recorded \in 0..N
  /\ joined \subseteq Workers

ExitTypes == isExit \in BOOLEAN /\ notExit \in BOOLEAN /\ subLoops \in BOOLEAN

WorkerTypes == wpc \in [Workers -> WorkerPCs] /\ wloop \in [Workers -> 0..N]

LoopTypes ==
  /\ isLooping \in [0..N -> BOOLEAN]
  /\ connected \subseteq 0..N /\ recording \subseteq 0..N

HandlerTypes ==
  /\ hpc \in [Threads -> HandlerPCs] /\ hk \in [Threads -> 0..(N + 1)]
  /\ signals \in 0..MaxSignals /\ stops \subseteq Threads

HistoryTypes ==
  /\ at \in MainPCs \cup {"none"}
  /\ fault \in {"none", "cleared vector", "destroyed loop", "loop in use", "kcp thread",
                "joins itself", "joins twice", "server in use"}

Types == /\ MainTypes /\ ConnTypes /\ PoolTypes /\ ExitTypes /\ WorkerTypes /\ LoopTypes
         /\ HandlerTypes /\ HistoryTypes

-----------------------------------------------------------------------------
(* The workers and what they are given.                                     *)

InLoop == {"loop", "accepted", "pick", "hand", "left", "exit"}

\* main creates the threads one by one and records each before the next; all of them
\* are there when it enters its loop.
Spawned ==
  /\ mpc # "record" => recorded = created
  /\ mpc \in InLoop \cup {"enter"} => created = N
  /\ \A w \in Workers : w > created => wpc[w] = "unborn"

\* A join returns when the thread has ended, and a thread does not start twice.
JoinedEnded == \A w \in joined : wpc[w] = "ended"

\* A worker's task is that of a sub loop, never of the main loop.
TaskHasLoop ==
  \A w \in Workers : wpc[w] \in {"task"} \cup InLoopPCs => wloop[w] \in Workers

\* A loop is handed at most the connections accepted; the one that main has in its
\* hands is none of them.
PendingAccepted ==
  \A l \in Workers : /\ pending[l] <= accepted
                     /\ mpc \in {"accepted", "pick", "hand"} => pending[l] < accepted

-----------------------------------------------------------------------------
(* The handlers.                                                            *)

\* A handler that is at thread k has joined the ones before it.
JoinsInTurn ==
  \A t \in Threads :
    /\ hpc[t] = "unloop" => hk[t] \in 1..(N + 1)
    /\ hpc[t] = "join" => hk[t] >= 1 /\ \A k \in Workers : k < hk[t] => k \in joined

\* The server was taken down.
Down == ~subLoops /\ joined = Workers

\* Thread t is on its way to take the server down with all threads recorded.
TakesDown(t) ==
  \/ hpc[t] \in {"exit", "notExit", "notify", "drain", "join"}
  \/ hpc[t] = "clear" /\ joined = Workers

\* Once main has entered its loop, only a handler can end it: the handler goes on
\* to take down a server whose threads are all recorded.
MainUnlooped ==
  /\ mpc \in {"left", "exit"} => ~isLooping[Main]
  /\ mpc \in InLoop /\ ~isLooping[Main] => Down \/ \E t \in Threads : TakesDown(t)

\* main returns when nobody is in the handler.
ExitIsQuiet == mpc = "exit" => \A t \in Threads : hpc[t] = "none"

\* With one signal there is one thread that is or was in the handler, and it goes
\* through stop once.
OneSignalOneStop ==
  /\ signals = 0 => stops = {} /\ \A t \in Threads : hpc[t] = "none"
  /\ signals = 1 => \A t, u \in Threads :
                      /\ hpc[t] # "none" \/ t \in stops
                      /\ hpc[u] # "none" \/ u \in stops
                      => t = u
  /\ signals = 1 /\ stops # {} => \A t \in Threads : hpc[t] \notin {"check", "set"}
  /\ \A t \in Threads : hpc[t] \notin {"none", "check", "set"} => t \in stops
  /\ stops = {} => joined = {}

\* The ordinary stop: main was in its loop, and there was no other signal.
Ordinary == stops = {Main} /\ at = "loop" /\ signals = 1

\* It goes from the loops to the threads, which it joins in turn, each once; main
\* waits below the handler, in the loop it then leaves.  A connection that this last
\* round still accepts finds the sub loops gone and stays in the main loop.
OrdinaryStop ==
  Ordinary =>
    /\ fault \in {"none", "kcp thread"}
    /\ mpc \in {"loop", "accepted", "hand", "left", "exit"}
    /\ hpc[Main] # "none" => mpc = "loop"
    /\ hpc[Main] # "unloop" => ~isLooping[Main]
    /\ hpc[Main] \in {"unloop", "exit", "notExit", "notify", "drain"} => joined = {}
    /\ hpc[Main] = "join" => \A k \in Workers : k \in joined <=> k < hk[Main]
    /\ hpc[Main] \in {"clear", "none"} => joined = Workers
    /\ hpc[Main] = "none" => ~subLoops
    /\ mpc = "hand" => target = Main

IInv == /\ Types /\ Spawned /\ JoinedEnded /\ TaskHasLoop /\ PendingAccepted /\ JoinsInTurn
        /\ MainUnlooped /\ ExitIsQuiet /\ OneSignalOneStop /\ OrdinaryStop

-----------------------------------------------------------------------------
(* Steps that leave the variables of a part alone leave the part alone.      *)

\* One conjunct for each part of the invariant.
LEMMA Frames ==
  /\ MainTypes /\ UNCHANGED <<server, running, mpc, added>> => MainTypes'
  /\ ConnTypes /\ UNCHANGED <<next, target, accepted, pending>> => ConnTypes'
  /\ PoolTypes /\ UNCHANGED <<queue, created, recorded, joined>> => PoolTypes'
  /\ ExitTypes /\ UNCHANGED <<isExit, notExit, subLoops>> => ExitTypes'
  /\ WorkerTypes /\ UNCHANGED <<wpc, wloop>> => WorkerTypes'
  /\ LoopTypes /\ UNCHANGED <<isLooping, connected, recording>> => LoopTypes'
  /\ HandlerTypes /\ UNCHANGED <<hpc, hk, signals, stops>> => HandlerTypes'
  /\ HistoryTypes /\ UNCHANGED <<at, fault>> => HistoryTypes'
  /\ Spawned /\ UNCHANGED <<mpc, recorded, created, wpc>> => Spawned'
  /\ JoinedEnded /\ UNCHANGED <<joined, wpc>> => JoinedEnded'
  /\ TaskHasLoop /\ UNCHANGED <<wpc, wloop>> => TaskHasLoop'
  /\ PendingAccepted /\ UNCHANGED <<pending, accepted, mpc>> => PendingAccepted'
  /\ JoinsInTurn /\ UNCHANGED <<hpc, hk, joined>> => JoinsInTurn'
  /\ MainUnlooped /\ UNCHANGED <<mpc, isLooping, subLoops, joined, hpc>> => MainUnlooped'
  /\ ExitIsQuiet /\ UNCHANGED <<mpc, hpc>> => ExitIsQuiet'
  /\ OneSignalOneStop /\ UNCHANGED <<signals, stops, hpc, joined>> => OneSignalOneStop'
  /\ OrdinaryStop /\ UNCHANGED <<stops, at, signals, fault, mpc, hpc, isLooping, joined, hk,
                                 subLoops, target>>
         => OrdinaryStop'
<1>1. MainTypes /\ UNCHANGED <<server, running, mpc, added>> => MainTypes'
  BY DEF MainTypes
<1>2. ConnTypes /\ UNCHANGED <<next, target, accepted, pending>> => ConnTypes'
  BY DEF ConnTypes
<1>3. PoolTypes /\ UNCHANGED <<queue, created, recorded, joined>> => PoolTypes'
  BY DEF PoolTypes
<1>4. ExitTypes /\ UNCHANGED <<isExit, notExit, subLoops>> => ExitTypes'
  BY DEF ExitTypes
<1>5. WorkerTypes /\ UNCHANGED <<wpc, wloop>> => WorkerTypes'
  BY DEF WorkerTypes
<1>6. LoopTypes /\ UNCHANGED <<isLooping, connected, recording>> => LoopTypes'
  BY DEF LoopTypes
<1>7. HandlerTypes /\ UNCHANGED <<hpc, hk, signals, stops>> => HandlerTypes'
  BY DEF HandlerTypes
<1>8. HistoryTypes /\ UNCHANGED <<at, fault>> => HistoryTypes'
  BY DEF HistoryTypes
<1>9. Spawned /\ UNCHANGED <<mpc, recorded, created, wpc>> => Spawned'
  BY DEF Spawned
<1>10. JoinedEnded /\ UNCHANGED <<joined, wpc>> => JoinedEnded'
  BY DEF JoinedEnded
<1>11. TaskHasLoop /\ UNCHANGED <<wpc, wloop>> => TaskHasLoop'
  BY DEF TaskHasLoop
<1>12. PendingAccepted /\ UNCHANGED <<pending, accepted, mpc>> => PendingAccepted'
  BY DEF PendingAccepted
<1>13. JoinsInTurn /\ UNCHANGED <<hpc, hk, joined>> => JoinsInTurn'
  BY DEF JoinsInTurn
<1>14. MainUnlooped /\ UNCHANGED <<mpc, isLooping, subLoops, joined, hpc>> => MainUnlooped'
  BY DEF MainUnlooped, Down, TakesDown
<1>15. ExitIsQuiet /\ UNCHANGED <<mpc, hpc>> => ExitIsQuiet'
  BY DEF ExitIsQuiet
<1>16. OneSignalOneStop /\ UNCHANGED <<signals, stops, hpc, joined>> => OneSignalOneStop'
  BY DEF OneSignalOneStop
<1>17. OrdinaryStop /\ UNCHANGED <<stops, at, signals, fault, mpc, hpc, isLooping, joined, hk,
                                   subLoops, target>>
          => OrdinaryStop'
  <2> SUFFICES ASSUME OrdinaryStop, UNCHANGED <<stops, at, signals>>, UNCHANGED <<fault, mpc>>,
                      UNCHANGED <<hpc, isLooping, joined>>, UNCHANGED <<hk, subLoops, target>>
               PROVE  OrdinaryStop'
    OBVIOUS
  <2>1. Ordinary' <=> Ordinary
    BY DEF Ordinary
  <2> QED
    BY <2>1 DEF OrdinaryStop
<1> QED
  BY <1>1, <1>2, <1>3, <1>4, <1>5, <1>6, <1>7, <1>8, <1>9, <1>10, <1>11, <1>12, <1>13,
     <1>14, <1>15, <1>16, <1>17

\* The numbers of the loops: k stands for itself, N + 1 for the main loop.
LEMMA LoopNumbers ==
  /\ \A k \in Workers : k % (N + 1) = k
  /\ (N + 1) % (N + 1) = 0
  /\ \A n \in 0..(N - 1) : (n + 1) % N \in 0..(N - 1)
BY NPositive DEF Workers

\* The intervals.
LEMMA Numbers ==
  /\ Main \in Threads /\ Main \notin Workers /\ Main \in 0..N
  /\ Workers \subseteq Threads /\ Workers \subseteq 0..N
BY NPositive DEF Main, Workers, Threads

\* What is known of the connections handed to a sub loop.
LEMMA PendingFacts ==
  ASSUME IInv, NEW l \in Workers
  PROVE  /\ pending[l] \in Nat /\ accepted \in Nat
         /\ accepted <= MaxConns /\ pending[l] <= accepted
         /\ mpc \in {"accepted", "pick", "hand"} => pending[l] < accepted
         /\ mpc = "hand" => pending[l] + 1 \in 0..MaxConns
         /\ pending[l] > 0 => pending[l] - 1 \in 0..MaxConns
<1>1. pending \in [Workers -> 0..MaxConns] /\ accepted \in 0..MaxConns
  BY DEF IInv, Types, ConnTypes
<1>2. pending[l] \in 0..MaxConns
  BY <1>1
<1>3. /\ pending[l] <= accepted
      /\ (mpc \in {"accepted", "pick", "hand"} => pending[l] < accepted)
  BY DEF IInv, PendingAccepted
<1>4. pending[l] > 0 => pending[l] - 1 \in 0..MaxConns
  BY <1>2, BoundsNat
<1>5. pending[l] < accepted => pending[l] + 1 \in 0..MaxConns
  BY <1>1, <1>2, BoundsNat
<1> QED
  BY <1>1, <1>2, <1>3, <1>4, <1>5, BoundsNat

\* The constructor makes the sub loops; nobody has been told to stop.
LEMMA MakeServerIInv ==
  ASSUME IInv, MakeServer
  PROVE  IInv'
<1> USE NPositive, Numbers DEF IInv, Types, poolVars, workerVars, mainVars, loopVars,
                                cameraVars, handlerVars
<1>1. MainTypes'
  BY DEF MakeServer, MainTypes, MainPCs
<1>2. ExitTypes'
  BY DEF MakeServer, ExitTypes
<1>3. Spawned'
  BY DEF MakeServer, MainAt, Spawned, InLoop
<1>4. PendingAccepted'
  BY DEF MakeServer, PendingAccepted
<1>5. MainUnlooped'
  BY DEF MakeServer, MainUnlooped, InLoop
<1>6. ExitIsQuiet'
  BY DEF MakeServer, ExitIsQuiet
<1>7. OrdinaryStop'
  BY DEF MakeServer, MainAt, OrdinaryStop, Ordinary
<1> QED
  BY <1>1, <1>2, <1>3, <1>4, <1>5, <1>6, <1>7, Frames DEF MakeServer

\* start sets _running; no thread is there yet.
LEMMA StartIInv ==
  ASSUME IInv, Start
  PROVE  IInv'
<1> USE NPositive, Numbers DEF IInv, Types, poolVars, workerVars, mainVars, loopVars,
                                cameraVars, handlerVars
<1>1. MainTypes'
  BY DEF Start, MainTypes, MainPCs
<1>2. Spawned'
  BY DEF Start, MainAt, Spawned, InLoop
<1>3. PendingAccepted'
  BY DEF Start, PendingAccepted
<1>4. MainUnlooped'
  BY DEF Start, MainUnlooped, InLoop
<1>5. ExitIsQuiet'
  BY DEF Start, ExitIsQuiet
<1>6. OrdinaryStop'
  BY DEF Start, MainAt, OrdinaryStop, Ordinary
<1> QED
  BY <1>1, <1>2, <1>3, <1>4, <1>5, <1>6, Frames DEF Start

\* The queue gets the numbers of sub loops.
LEMMA AddTaskIInv ==
  ASSUME IInv, AddTask
  PROVE  IInv'
<1> USE NPositive, Numbers DEF IInv, Types, poolVars, workerVars, mainVars, loopVars,
                                cameraVars, handlerVars
<1>1. MainTypes'
  BY DEF AddTask, TasksToAdd, MainTypes, MainPCs
<1>2. PoolTypes'
  <2>1. added < N => LoopIndex \in Workers
    BY DEF MainTypes, LoopIndex, Workers
  <2>2. queue' \in Seq(Workers)
    BY <2>1, AppendProperties DEF AddTask, TasksToAdd, PoolTypes
  <2> QED
    BY <2>2 DEF AddTask, PoolTypes
<1>3. Spawned'
  BY DEF AddTask, MainAt, Spawned, InLoop, PoolTypes
<1>4. PendingAccepted'
  BY DEF AddTask, PendingAccepted, ConnTypes
<1>5. MainUnlooped'
  BY DEF AddTask, MainAt, MainUnlooped, InLoop, Down
<1>6. ExitIsQuiet'
  BY DEF AddTask, ExitIsQuiet, HandlerTypes
<1>7. OrdinaryStop'
  BY DEF AddTask, MainAt, OrdinaryStop, Ordinary
<1> QED
  BY <1>1, <1>2, <1>3, <1>4, <1>5, <1>6, <1>7, Frames DEF AddTask

\* A thread is created once: its number was not used before.
LEMMA SpawnWorkerIInv ==
  ASSUME IInv, SpawnWorker
  PROVE  IInv'
<1> USE NPositive, Numbers DEF IInv, Types, poolVars, workerVars, mainVars, loopVars,
                                cameraVars, handlerVars
<1>1. MainTypes'
  BY DEF SpawnWorker, MainTypes, MainPCs
<1>2. PoolTypes'
  BY DEF SpawnWorker, PoolTypes
<1>3. WorkerTypes'
  BY DEF SpawnWorker, WorkerTypes, WorkerPCs
<1>4. Spawned'
  BY DEF SpawnWorker, MainAt, Spawned, InLoop, PoolTypes, WorkerTypes
<1>5. JoinedEnded'
  BY DEF SpawnWorker, JoinedEnded, PoolTypes, WorkerTypes, Workers, Spawned
<1>6. TaskHasLoop'
  BY DEF SpawnWorker, TaskHasLoop, InLoopPCs, WorkerTypes
<1>7. PendingAccepted'
  BY DEF SpawnWorker, PendingAccepted
<1>8. MainUnlooped'
  BY DEF SpawnWorker, MainUnlooped, InLoop
<1>9. ExitIsQuiet'
  BY DEF SpawnWorker, ExitIsQuiet
<1>10. OrdinaryStop'
  BY DEF SpawnWorker, MainAt, OrdinaryStop, Ordinary
<1> QED
  BY <1>1, <1>2, <1>3, <1>4, <1>5, <1>6, <1>7, <1>8, <1>9, <1>10, Frames DEF SpawnWorker

\* The thread that was created is recorded.
LEMMA RecordWorkerIInv ==
  ASSUME IInv, RecordWorker
  PROVE  IInv'
<1> USE NPositive, Numbers DEF IInv, Types, poolVars, workerVars, mainVars, loopVars,
                                cameraVars, handlerVars
<1>1. MainTypes'
  BY DEF RecordWorker, MainTypes, MainPCs
<1>2. PoolTypes'
  BY DEF RecordWorker, PoolTypes
<1>3. Spawned'
  BY DEF RecordWorker, Spawned, InLoop
<1>4. PendingAccepted'
  BY DEF RecordWorker, PendingAccepted
<1>5. MainUnlooped'
  BY DEF RecordWorker, MainUnlooped, InLoop
<1>6. ExitIsQuiet'
  BY DEF RecordWorker, ExitIsQuiet
<1>7. OrdinaryStop'
  BY DEF RecordWorker, MainAt, OrdinaryStop, Ordinary
<1> QED
  BY <1>1, <1>2, <1>3, <1>4, <1>5, <1>6, <1>7, Frames DEF RecordWorker

\* The main loop begins, with every thread created and recorded.
LEMMA EnterMainLoopIInv ==
  ASSUME IInv, EnterMainLoop
  PROVE  IInv'
<1> USE NPositive, Numbers DEF IInv, Types, poolVars, workerVars, mainVars, loopVars,
                                cameraVars, handlerVars
<1>1. MainTypes'
  BY DEF EnterMainLoop, MainTypes, MainPCs
<1>2. LoopTypes'
  BY DEF EnterMainLoop, LoopTypes
<1>3. Spawned'
  BY DEF EnterMainLoop, MainAt, Spawned
<1>4. PendingAccepted'
  BY DEF EnterMainLoop, PendingAccepted
<1>5. MainUnlooped'
  BY DEF EnterMainLoop, MainUnlooped, LoopTypes
<1>6. ExitIsQuiet'
  BY DEF EnterMainLoop, ExitIsQuiet
<1>7. OrdinaryStop'
  BY DEF EnterMainLoop, MainAt, OrdinaryStop, Ordinary
<1> QED
  BY <1>1, <1>2, <1>3, <1>4, <1>5, <1>6, <1>7, Frames DEF EnterMainLoop

\* A connection is accepted: it is in the hands of main.
LEMMA AcceptIInv ==
  ASSUME IInv, Accept
  PROVE  IInv'
<1> USE NPositive, Numbers DEF IInv, Types, poolVars, workerVars, mainVars, loopVars,
                                cameraVars, handlerVars
<1>1. MainTypes'
  BY DEF Accept, MainTypes, MainPCs
<1>2. ConnTypes'
  BY BoundsNat DEF Accept, ConnTypes
<1>3. Spawned'
  BY DEF Accept, MainAt, Spawned, InLoop
<1>4. PendingAccepted'
  BY DEF Accept, PendingAccepted, ConnTypes
<1>5. MainUnlooped'
  BY DEF Accept, MainAt, MainUnlooped, InLoop, Down, TakesDown
<1>6. ExitIsQuiet'
  BY DEF Accept, ExitIsQuiet
<1>7. OrdinaryStop'
  BY DEF Accept, MainAt, Free, OrdinaryStop, Ordinary
<1> QED
  BY <1>1, <1>2, <1>3, <1>4, <1>5, <1>6, <1>7, Frames DEF Accept

\* main passes the test of _subLoops.empty(), or takes its own loop.
LEMMA TestSubLoopsIInv ==
  ASSUME IInv, TestSubLoops
  PROVE  IInv'
<1> USE NPositive, Numbers DEF IInv, Types, poolVars, workerVars, mainVars, loopVars,
                                cameraVars, handlerVars
<1>1. MainTypes'
  BY DEF TestSubLoops, HasSubLoops, MainTypes, MainPCs
<1>2. ConnTypes'
  BY DEF TestSubLoops, HasSubLoops, ConnTypes
<1>3. Spawned'
  BY DEF TestSubLoops, HasSubLoops, MainAt, Spawned, InLoop
<1>4. PendingAccepted'
  BY DEF TestSubLoops, HasSubLoops, MainAt, PendingAccepted
<1>5. MainUnlooped'
  BY DEF TestSubLoops, HasSubLoops, MainAt, MainUnlooped, InLoop, Down, TakesDown
<1>6. ExitIsQuiet'
  BY DEF TestSubLoops, HasSubLoops, ExitIsQuiet
<1>7. OrdinaryStop'
  BY DEF TestSubLoops, HasSubLoops, MainAt, OrdinaryStop, Ordinary
<1> QED
  BY <1>1, <1>2, <1>3, <1>4, <1>5, <1>6, <1>7, Frames DEF TestSubLoops, HasSubLoops

\* The loop picked is a sub loop; after an ordinary stop main does not come here.
LEMMA PickLoopIInv ==
  ASSUME IInv, PickLoop
  PROVE  IInv'
<1> USE NPositive, Numbers DEF IInv, Types, poolVars, workerVars, mainVars, loopVars,
                                cameraVars, handlerVars
<1>1. MainTypes'
  BY DEF PickLoop, MainTypes, MainPCs
<1>2. ConnTypes'
  <2>1. next + 1 \in 0..N /\ (next + 1) % N \in 0..(N - 1)
    BY LoopNumbers DEF ConnTypes
  <2> QED
    BY <2>1 DEF PickLoop, NextLoop, ConnTypes
<1>3. HistoryTypes'
  BY DEF PickLoop, HistoryTypes
<1>4. Spawned'
  BY DEF PickLoop, MainAt, Spawned, InLoop, PoolTypes
<1>5. PendingAccepted'
  BY DEF PickLoop, MainAt, PendingAccepted
<1>6. MainUnlooped'
  BY DEF PickLoop, MainAt, MainUnlooped, InLoop, Down, TakesDown
<1>7. ExitIsQuiet'
  BY DEF PickLoop, ExitIsQuiet
<1>8. OrdinaryStop'
  BY DEF PickLoop, MainAt, OrdinaryStop, Ordinary
<1> QED
  BY <1>1, <1>2, <1>3, <1>4, <1>5, <1>6, <1>7, <1>8, Frames DEF PickLoop

\* A sub loop's queue gets the connection that was in the hands of main.
LEMMA HandOverIInv ==
  ASSUME IInv, HandOver
  PROVE  IInv'
<1> USE NPositive, Numbers DEF IInv, Types, poolVars, workerVars, mainVars, loopVars,
                                cameraVars, handlerVars
<1>1. MainTypes'
  BY DEF HandOver, MainTypes, MainPCs
<1>2. ConnTypes'
  <2>1. \/ pending' = pending
        \/ target \in Workers /\ pending' = [pending EXCEPT ![target] = pending[target] + 1]
    BY DEF HandOver, ConnTypes
  <2>2. target \in Workers => pending[target] + 1 \in 0..MaxConns
    BY PendingFacts DEF HandOver, MainAt
  <2>3. pending' \in [Workers -> 0..MaxConns]
    BY <2>1, <2>2 DEF ConnTypes
  <2> QED
    BY <2>3 DEF HandOver, ConnTypes
<1>3. HistoryTypes'
  BY DEF HandOver, HistoryTypes
<1>4. Spawned'
  BY DEF HandOver, MainAt, Spawned, InLoop
<1>5. PendingAccepted'
  <2>1. \A l \in Workers : pending[l] \in Nat /\ accepted \in Nat /\ pending[l] < accepted
    BY PendingFacts DEF HandOver, MainAt
  <2>2. \/ pending' = pending
        \/ target \in Workers /\ pending' = [pending EXCEPT ![target] = pending[target] + 1]
    BY DEF HandOver, ConnTypes
  <2>3. \A l \in Workers : pending'[l] \in {pending[l], pending[l] + 1}
    BY <2>2 DEF ConnTypes
  <2>4. \A l \in Workers : pending'[l] <= accepted
    BY <2>1, <2>3
  <2>5. mpc' \in {"accepted", "pick", "hand"} => pending' = pending
    BY DEF HandOver
  <2> QED
    BY <2>1, <2>4, <2>5 DEF HandOver, PendingAccepted
<1>6. MainUnlooped'
  BY DEF HandOver, MainAt, MainUnlooped, InLoop, Down, TakesDown
<1>7. ExitIsQuiet'
  BY DEF HandOver, ExitIsQuiet
<1>8. OrdinaryStop'
  BY DEF HandOver, MainAt, OrdinaryStop, Ordinary
<1> QED
  BY <1>1, <1>2, <1>3, <1>4, <1>5, <1>6, <1>7, <1>8, Frames DEF HandOver

\* main leaves its loop: a handler has ended it.
LEMMA LeaveMainLoopIInv ==
  ASSUME IInv, LeaveMainLoop
  PROVE  IInv'
<1> USE NPositive, Numbers DEF IInv, Types, poolVars, workerVars, mainVars, loopVars,
                                cameraVars, handlerVars
<1>1. MainTypes'
  BY DEF LeaveMainLoop, MainTypes, MainPCs
<1>2. Spawned'
  BY DEF LeaveMainLoop, MainAt, Spawned, InLoop
<1>3. PendingAccepted'
  BY DEF LeaveMainLoop, PendingAccepted
<1>4. MainUnlooped'
  BY DEF LeaveMainLoop, MainAt, MainUnlooped, InLoop, Down, TakesDown
<1>5. ExitIsQuiet'
  BY DEF LeaveMainLoop, ExitIsQuiet
<1>6. OrdinaryStop'
  BY DEF LeaveMainLoop, MainAt, Free, OrdinaryStop, Ordinary
<1> QED
  BY <1>1, <1>2, <1>3, <1>4, <1>5, <1>6, Frames DEF LeaveMainLoop

\* main returns when every recorded thread was joined and nobody is in the handler.
LEMMA DestroyServerIInv ==
  ASSUME IInv, DestroyServer
  PROVE  IInv'
<1> USE NPositive, Numbers DEF IInv, Types, poolVars, workerVars, mainVars, loopVars,
                                cameraVars, handlerVars
<1>1. MainTypes'
  BY DEF DestroyServer, MainTypes, MainPCs
<1>2. HistoryTypes'
  BY DEF DestroyServer, HistoryTypes
<1>3. Spawned'
  BY DEF DestroyServer, MainAt, Spawned, InLoop
<1>4. PendingAccepted'
  BY DEF DestroyServer, PendingAccepted
<1>5. MainUnlooped'
  BY DEF DestroyServer, MainAt, MainUnlooped, InLoop, Down, TakesDown
<1>6. ExitIsQuiet'
  BY DEF DestroyServer, ExitIsQuiet
<1>7. OrdinaryStop'
  <2>1. SUFFICES ASSUME Ordinary PROVE OrdinaryStop'
    BY DEF Ordinary, OrdinaryStop, DestroyServer
  <2>2. mpc = "left" /\ hpc[Main] = "none" /\ joined = Workers /\ ~isLooping[Main]
    BY <2>1 DEF DestroyServer, MainAt, OrdinaryStop
  <2>3. joined = 1..recorded
    BY <2>2 DEF Spawned, InLoop, Workers
  <2>4. \A u \in Threads : hpc[u] = "none"
    BY <2>1, <2>2 DEF Ordinary, OneSignalOneStop
  <2>5. mpc' = "exit" /\ fault' = fault
    BY <2>3, <2>4 DEF DestroyServer
  <2> QED
    BY <2>1, <2>2, <2>5 DEF OrdinaryStop, DestroyServer
<1> QED
  BY <1>1, <1>2, <1>3, <1>4, <1>5, <1>6, <1>7, Frames DEF DestroyServer

\* A worker that sees _isExit ends; it was not joined yet.
LEMMA TestExitIInv ==
  ASSUME NEW w \in Workers, IInv, TestExit(w)
  PROVE  IInv'
<1> USE NPositive, Numbers DEF IInv, Types, poolVars, workerVars, mainVars, loopVars,
                                cameraVars, handlerVars
<1>1. WorkerTypes'
  BY DEF TestExit, Go, WorkerTypes, WorkerPCs
<1>2. Spawned'
  BY DEF TestExit, WorkerAt, Go, Spawned
<1>3. JoinedEnded'
  BY DEF TestExit, WorkerAt, Go, JoinedEnded
<1>4. TaskHasLoop'
  BY DEF TestExit, Go, TaskHasLoop, InLoopPCs
<1> QED
  BY <1>1, <1>2, <1>3, <1>4, Frames DEF TestExit

\* A task is the number of a sub loop.
LEMMA PopIInv ==
  ASSUME NEW w \in Workers, IInv, Pop(w)
  PROVE  IInv'
<1> USE NPositive, Numbers DEF IInv, Types, poolVars, workerVars, mainVars, loopVars,
                                cameraVars, handlerVars
<1>1. PoolTypes'
  <2>1. queue' = queue \/ (queue # <<>> /\ queue' = Tail(queue))
    BY DEF Pop
  <2>2. queue' \in Seq(Workers)
    BY <2>1, HeadTailProperties DEF PoolTypes
  <2> QED
    BY <2>2 DEF Pop, PoolTypes
<1>2. WorkerTypes'
  <2>1. \/ queue # <<>> /\ wloop' = [wloop EXCEPT ![w] = Head(queue)]
        \/ wloop' = wloop
    BY DEF Pop
  <2>2. wloop' \in [Workers -> 0..N]
    BY <2>1, HeadTailProperties DEF PoolTypes, WorkerTypes
  <2>3. wpc' \in [Workers -> WorkerPCs]
    BY DEF Pop, Go, WorkerTypes, WorkerPCs
  <2> QED
    BY <2>2, <2>3 DEF WorkerTypes
<1>3. Spawned'
  BY DEF Pop, WorkerAt, Go, Spawned, WorkerTypes
<1>4. JoinedEnded'
  BY DEF Pop, WorkerAt, Go, JoinedEnded, PoolTypes, WorkerTypes
<1>5. TaskHasLoop'
  <2>1. queue # <<>> => Head(queue) \in Workers
    BY HeadTailProperties DEF PoolTypes
  <2> QED
    BY <2>1 DEF Pop, Go, TaskHasLoop, InLoopPCs, WorkerTypes
<1> QED
  BY <1>1, <1>2, <1>3, <1>4, <1>5, Frames DEF Pop

\* A worker begins to wait.
LEMMA SleepIInv ==
  ASSUME NEW w \in Workers, IInv, Sleep(w)
  PROVE  IInv'
<1> USE NPositive, Numbers DEF IInv, Types, poolVars, workerVars, mainVars, loopVars,
                                cameraVars, handlerVars
<1>1. WorkerTypes'
  BY DEF Sleep, Go, WorkerTypes, WorkerPCs
<1>2. Spawned'
  BY DEF Sleep, WorkerAt, Go, Spawned
<1>3. JoinedEnded'
  BY DEF Sleep, WorkerAt, Go, JoinedEnded
<1>4. TaskHasLoop'
  BY DEF Sleep, Go, TaskHasLoop, InLoopPCs
<1> QED
  BY <1>1, <1>2, <1>3, <1>4, Frames DEF Sleep

\* A worker wakes up without reason.
LEMMA SpuriousWakeupIInv ==
  ASSUME NEW w \in Workers, IInv, SpuriousWakeup(w)
  PROVE  IInv'
<1> USE NPositive, Numbers DEF IInv, Types, poolVars, workerVars, mainVars, loopVars,
                                cameraVars, handlerVars
<1>1. WorkerTypes'
  BY DEF SpuriousWakeup, Go, WorkerTypes, WorkerPCs
<1>2. Spawned'
  BY DEF SpuriousWakeup, WorkerAt, Go, Spawned
<1>3. JoinedEnded'
  BY DEF SpuriousWakeup, WorkerAt, Go, JoinedEnded
<1>4. TaskHasLoop'
  BY DEF SpuriousWakeup, Go, TaskHasLoop, InLoopPCs
<1> QED
  BY <1>1, <1>2, <1>3, <1>4, Frames DEF SpuriousWakeup

\* The loop a worker enters is a sub loop: the main loop stays as it was.
LEMMA EnterLoopIInv ==
  ASSUME NEW w \in Workers, IInv, EnterLoop(w)
  PROVE  IInv'
<1> USE NPositive, Numbers DEF IInv, Types, poolVars, workerVars, mainVars, loopVars,
                                cameraVars, handlerVars
<1>1. WorkerTypes'
  BY DEF EnterLoop, Go, WorkerTypes, WorkerPCs
<1>2. LoopTypes'
  BY DEF EnterLoop, LoopTypes
<1>3. Spawned'
  BY DEF EnterLoop, WorkerAt, Go, Spawned, WorkerTypes
<1>4. JoinedEnded'
  BY DEF EnterLoop, WorkerAt, Go, JoinedEnded, PoolTypes, WorkerTypes
<1>5. TaskHasLoop'
  BY DEF EnterLoop, WorkerAt, Go, TaskHasLoop, InLoopPCs, WorkerTypes
<1>6. MainUnlooped'
  BY DEF EnterLoop, WorkerAt, MainUnlooped, Down, TakesDown, LoopTypes, TaskHasLoop, InLoopPCs
<1>7. OrdinaryStop'
  BY DEF EnterLoop, WorkerAt, OrdinaryStop, Ordinary, LoopTypes, Spawned, Main,
         TaskHasLoop, InLoopPCs
<1> QED
  BY <1>1, <1>2, <1>3, <1>4, <1>5, <1>6, <1>7, Frames DEF EnterLoop

\* A sub loop takes a connection from its queue.
LEMMA ServeConnectionIInv ==
  ASSUME NEW w \in Workers, IInv, ServeConnection(w)
  PROVE  IInv'
<1> USE NPositive, Numbers DEF IInv, Types, poolVars, workerVars, mainVars, loopVars,
                                cameraVars, handlerVars
<1>1. ConnTypes'
  <2>1. wloop[w] \in Workers => pending[wloop[w]] - 1 \in 0..MaxConns
    BY PendingFacts DEF ServeConnection
  <2>2. pending' \in [Workers -> 0..MaxConns]
    BY <2>1 DEF ServeConnection, ConnTypes
  <2> QED
    BY <2>2 DEF ServeConnection, ConnTypes
<1>2. WorkerTypes'
  BY DEF ServeConnection, Go, WorkerTypes, WorkerPCs
<1>3. PendingAccepted'
  BY DEF ServeConnection, PendingAccepted, ConnTypes
<1>4. Spawned' /\ JoinedEnded'
  BY DEF ServeConnection, WorkerAt, Go, Spawned, JoinedEnded
<1>5. TaskHasLoop'
  BY DEF ServeConnection, WorkerAt, Go, TaskHasLoop, InLoopPCs
<1> QED
  BY <1>1, <1>2, <1>3, <1>4, <1>5, Frames DEF ServeConnection

\* The camera of a sub loop is set up.
LEMMA AddCamIInv ==
  ASSUME NEW w \in Workers, NEW records \in BOOLEAN, IInv, AddCam(w, records)
  PROVE  IInv'
<1> USE NPositive, Numbers DEF IInv, Types, poolVars, workerVars, mainVars, loopVars,
                                cameraVars, handlerVars
<1>1. LoopTypes'
  BY DEF AddCam, LoopTypes, WorkerTypes
<1>2. WorkerTypes'
  BY DEF AddCam, Go, WorkerTypes, WorkerPCs
<1>3. Spawned' /\ JoinedEnded'
  BY DEF AddCam, WorkerAt, Go, Spawned, JoinedEnded
<1>4. TaskHasLoop'
  BY DEF AddCam, WorkerAt, Go, TaskHasLoop, InLoopPCs
<1> QED
  BY <1>1, <1>2, <1>3, <1>4, Frames DEF AddCam

\* The cameras of a sub loop leave, ...
LEMMA CamerasLeaveIInv ==
  ASSUME NEW w \in Workers, IInv, CamerasLeave(w)
  PROVE  IInv'
<1> USE NPositive, Numbers DEF IInv, Types, poolVars, workerVars, mainVars, loopVars,
                                cameraVars, handlerVars
<1>1. WorkerTypes'
  BY DEF CamerasLeave, Go, WorkerTypes, WorkerPCs
<1>2. Spawned' /\ JoinedEnded'
  BY DEF CamerasLeave, WorkerAt, Go, Spawned, JoinedEnded
<1>3. TaskHasLoop'
  BY DEF CamerasLeave, WorkerAt, Go, TaskHasLoop, InLoopPCs
<1> QED
  BY <1>1, <1>2, <1>3, Frames DEF CamerasLeave

\* ... and are released ...
LEMMA ReleaseReturnsIInv ==
  ASSUME NEW w \in Workers, IInv, ReleaseReturns(w)
  PROVE  IInv'
<1> USE NPositive, Numbers DEF IInv, Types, poolVars, workerVars, mainVars, loopVars,
                                cameraVars, handlerVars
<1>1. LoopTypes'
  BY DEF ReleaseReturns, LoopTypes
<1>2. WorkerTypes'
  BY DEF ReleaseReturns, Go, WorkerTypes, WorkerPCs
<1>3. Spawned' /\ JoinedEnded'
  BY DEF ReleaseReturns, WorkerAt, Go, Spawned, JoinedEnded
<1>4. TaskHasLoop'
  BY DEF ReleaseReturns, WorkerAt, Go, TaskHasLoop, InLoopPCs
<1> QED
  BY <1>1, <1>2, <1>3, <1>4, Frames DEF ReleaseReturns

\* ... or their release never returns.
LEMMA ReleaseSticksIInv ==
  ASSUME NEW w \in Workers, IInv, ReleaseSticks(w)
  PROVE  IInv'
<1> USE NPositive, Numbers DEF IInv, Types, poolVars, workerVars, mainVars, loopVars,
                                cameraVars, handlerVars
<1>1. WorkerTypes'
  BY DEF ReleaseSticks, Go, WorkerTypes, WorkerPCs
<1>2. Spawned' /\ JoinedEnded'
  BY DEF ReleaseSticks, WorkerAt, Go, Spawned, JoinedEnded
<1>3. TaskHasLoop'
  BY DEF ReleaseSticks, WorkerAt, Go, TaskHasLoop, InLoopPCs
<1> QED
  BY <1>1, <1>2, <1>3, Frames DEF ReleaseSticks

\* A worker is back from its loop.
LEMMA LeaveLoopIInv ==
  ASSUME NEW w \in Workers, IInv, LeaveLoop(w)
  PROVE  IInv'
<1> USE NPositive, Numbers DEF IInv, Types, poolVars, workerVars, mainVars, loopVars,
                                cameraVars, handlerVars
<1>1. WorkerTypes'
  BY DEF LeaveLoop, Go, WorkerTypes, WorkerPCs
<1>2. Spawned'
  BY DEF LeaveLoop, WorkerAt, Go, Spawned
<1>3. JoinedEnded'
  BY DEF LeaveLoop, WorkerAt, Go, JoinedEnded
<1>4. TaskHasLoop'
  BY DEF LeaveLoop, Go, TaskHasLoop, InLoopPCs, WorkerTypes
<1> QED
  BY <1>1, <1>2, <1>3, <1>4, Frames DEF LeaveLoop

\* A signal puts its thread into the handler; the first one finds nobody there.
LEMMA SignalIInv ==
  ASSUME NEW t \in Threads, IInv, Signal(t)
  PROVE  IInv'
<1> USE NPositive, Numbers DEF IInv, Types, poolVars, workerVars, mainVars, loopVars,
                                cameraVars, handlerVars
<1>1. HandlerTypes'
  BY BoundsNat DEF Signal, HandlerTypes, HandlerPCs
<1>2. JoinsInTurn'
  BY DEF Signal, JoinsInTurn
<1>3. MainUnlooped'
  BY DEF Signal, CanTakeSignal, Free, MainUnlooped, Down, TakesDown
<1>4. ExitIsQuiet'
  BY DEF Signal, CanTakeSignal, Free, Alive, ExitIsQuiet
<1>5. OneSignalOneStop'
  <2>1. signals \in Nat /\ signals' = signals + 1
    BY BoundsNat DEF Signal, HandlerTypes
  <2>2. signals' # 0 /\ (signals' = 1 => signals = 0)
    BY <2>1
  <2>3. hpc' = hpc \/ hpc' = [hpc EXCEPT ![t] = "check"]
    BY DEF Signal
  <2> QED
    BY <2>2, <2>3 DEF Signal, OneSignalOneStop
<1>6. OrdinaryStop'
  BY DEF Signal, CanTakeSignal, Free, Alive, OrdinaryStop, Ordinary, OneSignalOneStop,
         HandlerTypes
<1> QED
  BY <1>1, <1>2, <1>3, <1>4, <1>5, <1>6, Frames DEF Signal

\* A handler returns at once from a server that does not run.
LEMMA CheckRunningIInv ==
  ASSUME NEW t \in Threads, IInv, CheckRunning(t)
  PROVE  IInv'
<1> USE NPositive, Numbers DEF IInv, Types, poolVars, workerVars, mainVars, loopVars,
                                cameraVars, handlerVars
<1>1. HandlerTypes'
  BY DEF CheckRunning, Proceed, HandlerTypes, HandlerPCs
<1>2. JoinsInTurn'
  BY DEF CheckRunning, HandlerAt, Proceed, JoinsInTurn
<1>3. MainUnlooped'
  BY DEF CheckRunning, HandlerAt, Proceed, MainUnlooped, Down, TakesDown
<1>4. ExitIsQuiet'
  BY DEF CheckRunning, HandlerAt, ExitIsQuiet
<1>5. OneSignalOneStop'
  BY DEF CheckRunning, HandlerAt, Proceed, OneSignalOneStop
<1>6. OrdinaryStop'
  BY DEF CheckRunning, HandlerAt, OrdinaryStop, Ordinary, OneSignalOneStop
<1> QED
  BY <1>1, <1>2, <1>3, <1>4, <1>5, <1>6, Frames DEF CheckRunning

\* A handler begins to stop; with one signal it is the first, and nothing is joined.
LEMMA ClearRunningIInv ==
  ASSUME NEW t \in Threads, IInv, ClearRunning(t)
  PROVE  IInv'
<1> USE NPositive, Numbers DEF IInv, Types, poolVars, workerVars, mainVars, loopVars,
                                cameraVars, handlerVars
<1>1. MainTypes'
  BY DEF ClearRunning, MainTypes
<1>2. HandlerTypes'
  BY DEF ClearRunning, Proceed, HandlerTypes, HandlerPCs
<1>3. HistoryTypes'
  BY DEF ClearRunning, HistoryTypes, MainTypes
<1>4. JoinsInTurn'
  BY DEF ClearRunning, Proceed, JoinsInTurn, HandlerTypes
<1>5. MainUnlooped'
  BY DEF ClearRunning, HandlerAt, Proceed, MainUnlooped, Down, TakesDown
<1>6. ExitIsQuiet'
  BY DEF ClearRunning, HandlerAt, ExitIsQuiet
<1>7. OneSignalOneStop'
  BY DEF ClearRunning, HandlerAt, Proceed, OneSignalOneStop, HandlerTypes
<1>8. OrdinaryStop'
  BY DEF ClearRunning, HandlerAt, Proceed, Alive, OrdinaryStop, Ordinary,
         OneSignalOneStop, HandlerTypes
<1> QED
  BY <1>1, <1>2, <1>3, <1>4, <1>5, <1>6, <1>7, <1>8, Frames DEF ClearRunning

\* The numbers of the sub loops come first; the last is the main loop.
LEMMA UnloopIInv ==
  ASSUME NEW t \in Threads, IInv, Unloop(t)
  PROVE  IInv'
<1> USE NPositive, Numbers DEF IInv, Types, poolVars, workerVars, mainVars, loopVars,
                                cameraVars, handlerVars
<1>1. LoopTypes'
  BY DEF Unloop, Unlooped, LoopTypes
<1>2. HandlerTypes'
  BY DEF Unloop, Proceed, HandlerTypes, HandlerPCs
<1>3. JoinsInTurn'
  <2>1. /\ hk[t] \in 1..(N + 1)
        /\ hpc \in [Threads -> HandlerPCs] /\ hk \in [Threads -> 0..(N + 1)]
    BY DEF Unloop, HandlerAt, JoinsInTurn, HandlerTypes
  <2>2. CASE hk[t] <= N
    <3>1. hpc' = [hpc EXCEPT ![t] = "unloop"] /\ hk' = [hk EXCEPT ![t] = hk[t] + 1]
      BY <2>1, <2>2 DEF Unloop, Proceed
    <3>2. hk[t] + 1 \in 1..(N + 1)
      BY <2>1, <2>2
    <3> QED
      BY <2>1, <3>1, <3>2 DEF JoinsInTurn, Unloop
  <2>3. CASE ~(hk[t] <= N)
    BY <2>1, <2>3 DEF Unloop, Proceed, JoinsInTurn
  <2> QED
    BY <2>2, <2>3
<1>4. MainUnlooped'
  BY LoopNumbers
     DEF Unloop, HandlerAt, Proceed, Unlooped, MainUnlooped, Down, TakesDown,
         HandlerTypes, JoinsInTurn, Main, Workers
<1>5. ExitIsQuiet'
  BY DEF Unloop, HandlerAt, ExitIsQuiet
<1>6. OneSignalOneStop'
  BY SMTT(20) DEF Unloop, HandlerAt, Proceed, Unlooped, Alive, OneSignalOneStop, HandlerTypes,
         PoolTypes
<1>7. OrdinaryStop'
  <2>1. SUFFICES ASSUME Ordinary PROVE OrdinaryStop'
    BY DEF Ordinary, OrdinaryStop, Unloop
  <2>2. t \in stops /\ t = Main /\ hpc[Main] = "unloop" /\ mpc = "loop" /\ joined = {}
    BY <2>1 DEF Ordinary, OrdinaryStop, OneSignalOneStop, Unloop, HandlerAt
  <2>3. hk[t] \in 1..(N + 1)
    BY <2>2 DEF JoinsInTurn
  <2>4. hk[t] <= N => hpc'[Main] = "unloop"
    BY <2>2 DEF Unloop, Proceed, HandlerTypes
  <2>5. CASE ~(hk[t] <= N)
    <3>1. hk[t] = N + 1
      BY <2>3, <2>5
    <3>2. ~isLooping'[Main] /\ hpc'[Main] = "exit"
      BY <3>1, <2>2, <2>5, LoopNumbers
         DEF Unloop, Unlooped, Proceed, HandlerTypes, LoopTypes, Main
    <3> QED
      BY <2>1, <2>2, <3>2 DEF OrdinaryStop, Unloop
  <2> QED
    BY <2>1, <2>2, <2>4, <2>5 DEF OrdinaryStop, Unloop
<1> QED
  BY <1>1, <1>2, <1>3, <1>4, <1>5, <1>6, <1>7, Frames DEF Unloop

\* The pool is told to exit.
LEMMA SetExitIInv ==
  ASSUME NEW t \in Threads, IInv, SetExit(t)
  PROVE  IInv'
<1> USE NPositive, Numbers DEF IInv, Types, poolVars, workerVars, mainVars, loopVars,
                                cameraVars, handlerVars
<1>1. ExitTypes'
  BY DEF SetExit, ExitTypes
<1>2. HandlerTypes'
  BY DEF SetExit, Proceed, HandlerTypes, HandlerPCs
<1>3. JoinsInTurn'
  BY DEF SetExit, HandlerAt, Proceed, JoinsInTurn
<1>4. MainUnlooped'
  BY DEF SetExit, HandlerAt, Proceed, MainUnlooped, TakesDown
<1>5. ExitIsQuiet'
  BY DEF SetExit, HandlerAt, ExitIsQuiet
<1>6. OneSignalOneStop'
  BY DEF SetExit, HandlerAt, Proceed, OneSignalOneStop
<1>7. OrdinaryStop'
  BY DEF SetExit, HandlerAt, Proceed, Alive, OrdinaryStop, Ordinary
<1> QED
  BY <1>1, <1>2, <1>3, <1>4, <1>5, <1>6, <1>7, Frames DEF SetExit

\* The queue is told to exit.
LEMMA ClearNotExitIInv ==
  ASSUME NEW t \in Threads, IInv, ClearNotExit(t)
  PROVE  IInv'
<1> USE NPositive, Numbers DEF IInv, Types, poolVars, workerVars, mainVars, loopVars,
                                cameraVars, handlerVars
<1>1. ExitTypes'
  BY DEF ClearNotExit, ExitTypes
<1>2. HandlerTypes'
  BY DEF ClearNotExit, Proceed, HandlerTypes, HandlerPCs
<1>3. JoinsInTurn'
  BY DEF ClearNotExit, HandlerAt, Proceed, JoinsInTurn
<1>4. MainUnlooped'
  BY DEF ClearNotExit, HandlerAt, Proceed, MainUnlooped, TakesDown
<1>5. ExitIsQuiet'
  BY DEF ClearNotExit, HandlerAt, ExitIsQuiet
<1>6. OneSignalOneStop'
  BY DEF ClearNotExit, HandlerAt, Proceed, OneSignalOneStop
<1>7. OrdinaryStop'
  BY DEF ClearNotExit, HandlerAt, Proceed, Alive, OrdinaryStop, Ordinary
<1> QED
  BY <1>1, <1>2, <1>3, <1>4, <1>5, <1>6, <1>7, Frames DEF ClearNotExit

\* The waiting workers are woken.
LEMMA NotifyAllIInv ==
  ASSUME NEW t \in Threads, IInv, NotifyAll(t)
  PROVE  IInv'
<1> USE NPositive, Numbers DEF IInv, Types, poolVars, workerVars, mainVars, loopVars,
                                cameraVars, handlerVars
<1>1. WorkerTypes'
  BY DEF NotifyAll, Woken, WorkerTypes, WorkerPCs
<1>2. HandlerTypes'
  BY DEF NotifyAll, Woken, Proceed, HandlerTypes, HandlerPCs
<1>3. Spawned'
  BY DEF NotifyAll, Woken, Spawned
<1>4. JoinedEnded'
  BY DEF NotifyAll, Woken, JoinedEnded, PoolTypes
<1>5. TaskHasLoop'
  BY DEF NotifyAll, Woken, TaskHasLoop, InLoopPCs
<1>6. JoinsInTurn'
  BY DEF NotifyAll, Woken, HandlerAt, Proceed, JoinsInTurn
<1>7. MainUnlooped'
  BY DEF NotifyAll, Woken, HandlerAt, Proceed, MainUnlooped, TakesDown
<1>8. ExitIsQuiet'
  BY DEF NotifyAll, Woken, HandlerAt, ExitIsQuiet
<1>9. OneSignalOneStop'
  BY DEF NotifyAll, Woken, HandlerAt, Proceed, OneSignalOneStop
<1>10. OrdinaryStop'
  BY DEF NotifyAll, Woken, HandlerAt, Proceed, Alive, OrdinaryStop, Ordinary
<1> QED
  BY <1>1, <1>2, <1>3, <1>4, <1>5, <1>6, <1>7, <1>8, <1>9, <1>10, Frames DEF NotifyAll, Woken

\* The handler begins to join the threads, from the first.
LEMMA DrainIInv ==
  ASSUME NEW t \in Threads, IInv, Drain(t)
  PROVE  IInv'
<1> USE NPositive, Numbers DEF IInv, Types, poolVars, workerVars, mainVars, loopVars,
                                cameraVars, handlerVars
<1>1. HandlerTypes'
  BY DEF Drain, Proceed, HandlerTypes, HandlerPCs
<1>2. JoinsInTurn'
  BY DEF Drain, Proceed, JoinsInTurn, HandlerTypes, Workers
<1>3. MainUnlooped'
  BY DEF Drain, HandlerAt, Proceed, MainUnlooped, TakesDown
<1>4. ExitIsQuiet'
  BY DEF Drain, HandlerAt, ExitIsQuiet
<1>5. OneSignalOneStop'
  BY DEF Drain, HandlerAt, Proceed, OneSignalOneStop
<1>6. OrdinaryStop'
  <2>1. Ordinary' <=> Ordinary
    BY DEF Ordinary, Drain
  <2>2. Ordinary => t = Main /\ joined = {} /\ mpc = "loop" /\ ~isLooping[Main]
    BY DEF Ordinary, OrdinaryStop, OneSignalOneStop, Drain, HandlerAt
  <2>3. t = Main => hpc'[Main] = "join" /\ hk'[Main] = 1
    BY DEF Drain, Proceed, HandlerTypes
  <2>4. \A k \in Workers : ~(k < 1)
    BY DEF Workers
  <2> QED
    BY <2>1, <2>2, <2>3, <2>4 DEF OrdinaryStop, Drain
<1> QED
  BY <1>1, <1>2, <1>3, <1>4, <1>5, <1>6, Frames DEF Drain

\* A join ends the loop over the threads, ...
JoinDone(t) ==
  /\ hk[t] > recorded /\ hpc' = [hpc EXCEPT ![t] = "clear"]
  /\ hk' = [hk EXCEPT ![t] = 0] /\ UNCHANGED <<joined, fault>>

\* ... throws, ...
JoinThrows(t) ==
  /\ UNCHANGED <<joined, hpc, hk>>
  /\ \/ hk[t] = t /\ fault' = "joins itself"
     \/ hk[t] \in joined /\ fault' = "joins twice"

\* ... or returns with a thread that has ended and was not joined before.
JoinReturns(t) ==
  /\ hk[t] \in Workers /\ hk[t] <= recorded
  /\ hk[t] \notin joined /\ wpc[hk[t]] = "ended"
  /\ joined' = joined \cup {hk[t]} /\ hk' = [hk EXCEPT ![t] = hk[t] + 1]
  /\ UNCHANGED <<hpc, fault>>

\* A join is one of the three.
LEMMA JoinOutcomes ==
  ASSUME NEW t \in Threads, IInv, Join(t)
  PROVE  /\ JoinDone(t) \/ JoinThrows(t) \/ JoinReturns(t)
         /\ hk[t] \in 0..(N + 1) /\ hk[t] >= 1 /\ recorded \in 0..N
         /\ hpc[t] = "join"
<1>1. /\ hk[t] \in 0..(N + 1) /\ hk[t] >= 1 /\ recorded \in 0..N
      /\ hpc \in [Threads -> HandlerPCs] /\ hpc[t] = "join"
  BY DEF Join, HandlerAt, IInv, Types, HandlerTypes, PoolTypes, JoinsInTurn
<1>2. CASE hk[t] > recorded
  BY <1>1, <1>2 DEF Join, Proceed, JoinDone
<1>3. CASE ~(hk[t] > recorded)
  <2>1. hk[t] \in Workers /\ hk[t] <= recorded
    BY <1>1, <1>3, NPositive DEF Workers
  <2>2. hpc' = [hpc EXCEPT ![t] = "join"] => hpc' = hpc
    BY <1>1
  <2> QED
    BY <1>1, <1>3, <2>1, <2>2 DEF Join, Proceed, Ended, JoinThrows, JoinReturns
<1> QED
  BY <1>1, <1>2, <1>3

\* Join keeps the order: the threads below the handler's number are the joined ones.
LEMMA JoinIInv ==
  ASSUME NEW t \in Threads, IInv, Join(t)
  PROVE  IInv'
<1> USE DEF IInv, Types, poolVars, workerVars, mainVars, loopVars, cameraVars, handlerVars
<1>1. /\ JoinDone(t) \/ JoinThrows(t) \/ JoinReturns(t)
      /\ hk[t] \in 0..(N + 1) /\ hk[t] >= 1 /\ recorded \in 0..N /\ hpc[t] = "join"
  BY JoinOutcomes
<1>2. /\ hpc \in [Threads -> HandlerPCs] /\ hk \in [Threads -> 0..(N + 1)]
      /\ joined \subseteq Workers /\ t \in stops /\ mpc # "exit"
  BY <1>1 DEF HandlerTypes, PoolTypes, OneSignalOneStop, Join, HandlerAt, Alive
<1>3. Ordinary => t = Main /\ mpc = "loop" /\ ~isLooping[Main]
                  /\ \A k \in Workers : k \in joined <=> k < hk[t]
  BY <1>1, <1>2 DEF Ordinary, OrdinaryStop
<1>4. CASE JoinDone(t)
  <2>1. 0 \in 0..(N + 1) /\ "clear" \in HandlerPCs
    BY NPositive DEF HandlerPCs
  <2>2. HandlerTypes'
    BY <1>2, <1>4, <2>1 DEF JoinDone, Join, HandlerTypes
  <2>3. hpc'[t] = "clear" /\ \A u \in Threads : u # t => hpc'[u] = hpc[u] /\ hk'[u] = hk[u]
    BY <1>2, <1>4 DEF JoinDone
  <2>4. JoinsInTurn'
    BY <1>4, <2>3 DEF JoinDone, JoinsInTurn
  <2>5. recorded = N => joined = Workers
    <3>1. recorded = N => \A k \in Workers : k < hk[t]
      BY <1>1, <1>4, NPositive DEF JoinDone, Workers
    <3> QED
      BY <1>1, <1>2, <3>1 DEF JoinsInTurn
  <2>6. mpc \in InLoop => recorded = N
    BY DEF Spawned, InLoop
  <2>7. MainUnlooped'
    <3>1. mpc \in InLoop => TakesDown(t)'
      BY <1>4, <2>3, <2>5, <2>6 DEF TakesDown, JoinDone
    <3> QED
      BY <1>4, <3>1 DEF MainUnlooped, Join
  <2>8. ExitIsQuiet' /\ OneSignalOneStop'
    BY <1>1, <1>2, <1>4, <2>3 DEF ExitIsQuiet, OneSignalOneStop, Join
  <2>9. OrdinaryStop'
    <3>1. Ordinary => joined = Workers
      BY <1>3, <2>5, <2>6 DEF InLoop
    <3>2. Ordinary' <=> Ordinary
      BY DEF Ordinary, Join
    <3> QED
      BY <1>3, <1>4, <2>3, <3>1, <3>2 DEF OrdinaryStop, JoinDone, Join
  <2> QED
    BY <1>4, <2>2, <2>4, <2>7, <2>8, <2>9, Frames DEF Join, JoinDone
<1>5. CASE JoinThrows(t)
  <2>1. ~Ordinary
    <3>1. t # Main \/ hk[t] # t
      BY <1>1 DEF Main
    <3>2. ~(hk[t] < hk[t])
      BY <1>1
    <3> QED
      BY <1>2, <1>3, <1>5, <3>1, <3>2 DEF JoinThrows
  <2>2. OrdinaryStop'
    BY <2>1 DEF OrdinaryStop, Ordinary, Join
  <2>3. HistoryTypes'
    BY <1>5 DEF Join, HistoryTypes
  <2> QED
    BY <1>5, <2>2, <2>3, Frames DEF Join, JoinThrows
<1>6. CASE JoinReturns(t)
  <2>1. hk[t] + 1 \in 0..(N + 1) /\ hk[t] + 1 >= 1
    BY <1>1, <1>6, NPositive DEF JoinReturns
  <2>2. \A k \in Workers : k < hk[t] + 1 <=> k < hk[t] \/ k = hk[t]
    BY <1>1, NPositive DEF Workers
  <2>3. HandlerTypes' /\ PoolTypes'
    BY <1>2, <1>6, <2>1 DEF JoinReturns, Join, HandlerTypes, PoolTypes
  <2>4. hk'[t] = hk[t] + 1 /\ \A u \in Threads : u # t => hk'[u] = hk[u]
    BY <1>2, <1>6 DEF JoinReturns
  <2>5. JoinsInTurn'
    BY <1>1, <1>6, <2>1, <2>2, <2>4 DEF JoinReturns, JoinsInTurn
  <2>6. JoinedEnded'
    BY <1>6 DEF JoinReturns, Join, JoinedEnded
  <2>7. MainUnlooped'
    BY <1>1, <1>6 DEF MainUnlooped, TakesDown, JoinReturns, Join
  <2>8. ExitIsQuiet' /\ OneSignalOneStop'
    BY <1>1, <1>2, <1>6 DEF ExitIsQuiet, OneSignalOneStop, JoinReturns, Join
  <2>9. OrdinaryStop'
    <3>1. Ordinary' <=> Ordinary
      BY DEF Ordinary, Join
    <3>2. ASSUME Ordinary
          PROVE  \A k \in Workers : k \in joined' <=> k < hk'[Main]
      <4>1. t = Main /\ \A k \in Workers : k \in joined <=> k < hk[t]
        BY <1>3, <3>2
      <4>2. hk'[Main] = hk[t] + 1 /\ joined' = joined \cup {hk[t]}
        BY <1>6, <2>4, <4>1 DEF JoinReturns
      <4> QED
        BY <2>2, <4>1, <4>2
    <3> QED
      BY <1>1, <1>3, <1>6, <3>1, <3>2 DEF OrdinaryStop, JoinReturns, Join
  <2> QED
    BY <1>6, <2>3, <2>5, <2>6, <2>7, <2>8, <2>9, Frames DEF Join, JoinReturns
<1> QED
  BY <1>1, <1>4, <1>5, <1>6

\* The sub loops are destroyed; an ordinary stop has joined all workers by then.
LEMMA ClearSubLoopsIInv ==
  ASSUME NEW t \in Threads, IInv, ClearSubLoops(t)
  PROVE  IInv'
<1> USE NPositive, Numbers DEF IInv, Types, poolVars, workerVars, mainVars, loopVars,
                                cameraVars, handlerVars
<1>1. ConnTypes'
  <2>1. 0 \in 0..MaxConns
    BY BoundsNat
  <2> QED
    BY <2>1 DEF ClearSubLoops, ConnTypes
<1>2. ExitTypes'
  BY DEF ClearSubLoops, ExitTypes
<1>3. LoopTypes'
  BY DEF ClearSubLoops, LoopTypes
<1>4. HandlerTypes'
  <2>1. 0 \in 0..(N + 1) /\ "none" \in HandlerPCs
    BY DEF HandlerPCs
  <2> QED
    BY <2>1 DEF ClearSubLoops, Proceed, HandlerTypes
<1>5. HistoryTypes'
  BY DEF ClearSubLoops, HistoryTypes
<1>6. PendingAccepted'
  <2>1. \A l \in Workers : pending'[l] = 0
    BY DEF ClearSubLoops
  <2>2. ASSUME NEW l \in Workers
        PROVE  /\ 0 <= accepted
               /\ mpc \in {"accepted", "pick", "hand"} => 0 < accepted
    BY PendingFacts
  <2> QED
    BY <2>1, <2>2 DEF ClearSubLoops, PendingAccepted
<1>7. JoinsInTurn'
  BY DEF ClearSubLoops, Proceed, JoinsInTurn, HandlerTypes
<1>8. MainUnlooped'
  BY DEF ClearSubLoops, HandlerAt, Proceed, MainUnlooped, Down, TakesDown, HandlerTypes
<1>9. ExitIsQuiet'
  BY DEF ClearSubLoops, HandlerAt, ExitIsQuiet
<1>10. OneSignalOneStop'
  BY DEF ClearSubLoops, Proceed, OneSignalOneStop, HandlerTypes
<1>11. OrdinaryStop'
  <2>1. Ordinary' <=> Ordinary
    BY DEF Ordinary, ClearSubLoops
  <2>2. Ordinary => /\ t = Main /\ joined = Workers /\ mpc = "loop" /\ ~isLooping[Main]
                    /\ \A w \in Workers : wpc[w] = "ended"
    BY DEF Ordinary, OrdinaryStop, OneSignalOneStop, JoinedEnded, ClearSubLoops, HandlerAt
  <2>3. Ordinary => fault' \in {"none", "kcp thread"}
    BY <2>2 DEF ClearSubLoops, InLoopPCs
  <2>4. t = Main => hpc'[Main] = "none"
    BY DEF ClearSubLoops, Proceed, HandlerTypes
  <2> QED
    BY <2>1, <2>2, <2>3, <2>4 DEF OrdinaryStop, ClearSubLoops
<1> QED
  BY <1>1, <1>2, <1>3, <1>4, <1>5, <1>6, <1>7, <1>8, <1>9, <1>10, <1>11, Frames
     DEF ClearSubLoops

-----------------------------------------------------------------------------
(* The theorems.                                                            *)

\* The initial state.
LEMMA InitIInv == Init => IInv
<1> SUFFICES ASSUME Init PROVE IInv
  OBVIOUS
<1> USE NPositive, BoundsNat, Numbers
<1>1. ExitTypes
  BY DEF Init, ExitTypes
<1>2. MainTypes
  <2>1. running \in BOOLEAN /\ mpc \in MainPCs
    BY DEF Init, MainPCs
  <2>2. server \in {"none", "live", "destroyed"} /\ added \in 0..N
    BY DEF Init
  <2> QED
    BY <2>1, <2>2 DEF MainTypes
<1>3. HistoryTypes
  BY DEF Init, HistoryTypes
<1>4. ConnTypes
  BY DEF Init, ConnTypes
<1>5. PoolTypes
  BY DEF Init, PoolTypes
<1>6. WorkerTypes /\ LoopTypes
  BY DEF Init, WorkerTypes, WorkerPCs, LoopTypes
<1>7. HandlerTypes
  BY DEF Init, HandlerTypes, HandlerPCs
<1>8. Spawned /\ JoinedEnded /\ TaskHasLoop
  BY DEF Init, Spawned, InLoop, JoinedEnded, TaskHasLoop, InLoopPCs
<1>9. PendingAccepted /\ JoinsInTurn
  BY DEF Init, PendingAccepted, JoinsInTurn
<1>10. MainUnlooped /\ ExitIsQuiet
  BY DEF Init, MainUnlooped, InLoop, ExitIsQuiet
<1>11. OneSignalOneStop /\ OrdinaryStop
  BY DEF Init, OneSignalOneStop, OrdinaryStop, Ordinary
<1> QED
  BY <1>1, <1>2, <1>3, <1>4, <1>5, <1>6, <1>7, <1>8, <1>9, <1>10, <1>11 DEF IInv, Types

\* Every step.
LEMMA NextIInv ==
  ASSUME IInv, [Next]_vars
  PROVE  IInv'
<1>1. CASE MainStep
  BY <1>1, MakeServerIInv, StartIInv, AddTaskIInv, SpawnWorkerIInv, RecordWorkerIInv,
     EnterMainLoopIInv, TestSubLoopsIInv, PickLoopIInv, HandOverIInv, LeaveMainLoopIInv,
     DestroyServerIInv
     DEF MainStep
<1>2. ASSUME NEW w \in Workers, WorkerStep(w) \/ Serve(w)
      PROVE  IInv'
  BY <1>2, TestExitIInv, PopIInv, SleepIInv, EnterLoopIInv, ReleaseReturnsIInv,
     LeaveLoopIInv, ServeConnectionIInv, AddCamIInv
     DEF WorkerStep, Serve
<1>3. ASSUME NEW t \in Threads, Stop(t)
      PROVE  IInv'
  BY <1>3, CheckRunningIInv, ClearRunningIInv, UnloopIInv, SetExitIInv, ClearNotExitIInv,
     NotifyAllIInv, DrainIInv, JoinIInv, ClearSubLoopsIInv
     DEF Stop
<1>4. CASE Accept
  BY <1>4, AcceptIInv
<1>5. ASSUME NEW w \in Workers, CamerasLeave(w) \/ ReleaseSticks(w) \/ SpuriousWakeup(w)
      PROVE  IInv'
  BY <1>5, CamerasLeaveIInv, ReleaseSticksIInv, SpuriousWakeupIInv
<1>6. ASSUME NEW t \in SignalThreads, Signal(t)
      PROVE  IInv'
  BY <1>6, SignalThreadsOk, SignalIInv
<1>7. CASE UNCHANGED vars
  BY <1>7, Frames
     DEF IInv, Types, vars, poolVars, workerVars, mainVars, loopVars, cameraVars, handlerVars
<1> QED
  BY <1>1, <1>2, <1>3, <1>4, <1>5, <1>6, <1>7 DEF Next, Step

\* The inductive invariant.
LEMMA InvariantHolds == Spec => []IInv
<1>1. Init => IInv
  BY InitIInv
<1>2. IInv /\ [Next]_vars => IInv'
  BY NextIInv
<1> QED
  BY <1>1, <1>2, PTL DEF Spec

\* When main returns from g_server.reset(), the sub loops are destroyed, every worker
\* was joined and has ended, and no thread is inside stop: for any number of workers and
\* signals, and whatever threads the signals are delivered to.
THEOREM MainReturnsClean == Spec => []ExitInv
<1>1. IInv => ExitInv
  <2> SUFFICES ASSUME IInv PROVE ExitInv
    OBVIOUS
  <2>1. TypeOK
    BY DEF IInv, Types, MainTypes, ConnTypes, PoolTypes, ExitTypes, WorkerTypes,
           WorkerPCs, LoopTypes, HandlerTypes, HistoryTypes, TypeOK
  <2>2. ASSUME mpc = "exit"
        PROVE  /\ ~subLoops /\ joined = Workers
               /\ \A w \in Workers : wpc[w] = "ended"
               /\ \A t \in Threads : hpc[t] = "none"
    <3>1. \A t \in Threads : hpc[t] = "none"
      BY <2>2 DEF IInv, ExitIsQuiet
    <3>2. Down
      BY <2>2, <3>1 DEF IInv, MainUnlooped, InLoop, TakesDown
    <3> QED
      BY <3>1, <3>2 DEF Down, IInv, JoinedEnded
  <2> QED
    BY <2>1, <2>2 DEF ExitInv, ExitIsClean
<1> QED
  BY <1>1, InvariantHolds, PTL

\* A stop by the only signal, taken by main in its loop, uses no loop and no server that
\* is gone and joins no thread twice: it ends the process only where a camera is recording.
THEOREM OrdinaryStopSafe == Spec => []OrdinaryStopIsSafe
<1>1. IInv => OrdinaryStopIsSafe
  BY DEF IInv, OrdinaryStop, Ordinary, OrdinaryStopIsSafe
<1> QED
  BY <1>1, InvariantHolds, PTL
=============================================================================

----------------------------- MODULE ThreadPool -----------------------------
(***************************************************************************)
(* The thread pool and its bounded task queue: reactor/ThreadPool.cc and    *)
(* reactor/TaskQueue.cc.                                                    *)
(*                                                                          *)
(* push and pop are monitors on _mutex with the condition variables         *)
(* _notFull and _notEmpty.  A critical section is one step, except where a  *)
(* field is accessed WITHOUT the mutex by somebody else: wakeUp writes      *)
(* _notExit outside it, so the two reads of _notExit in pop and the wait    *)
(* between them are steps of their own, with the mutex held across them.    *)
(***************************************************************************)
EXTENDS Naturals, Sequences, FiniteSets

CONSTANTS Workers,     \* the threads of the pool
          Adders,      \* threads that call addTask
          MaxPerAdder, \* bound: tasks an adder adds
          QueueSize    \* TaskQueue::_queueSize

ASSUME WorkersFinite == IsFiniteSet(Workers) /\ Workers # {}
ASSUME AddersFinite == IsFiniteSet(Adders)
ASSUME MaxPerAdderNat == MaxPerAdder \in Nat
ASSUME QueueSizePositive == QueueSize \in Nat \ {0}

NoWorker == "none"
ASSUME NoWorkerIsNone == NoWorker \notin Workers

Tasks == Adders \X (1..MaxPerAdder)
NoTask == <<>>    \* the null std::function that pop returns at exit

VARIABLES queue,        \* TaskQueue::_queue
          queueMutex,   \* holder of TaskQueue::_mutex between two steps
          fullWaiters,  \* threads waiting on _notFull
          emptyWaiters, \* threads waiting on _notEmpty
          notExit,      \* TaskQueue::_notExit
          isExit,       \* ThreadPool::_isExit
          apc,          \* where each adder is in addTask
          wpc,          \* where each worker is in doTask
          spc,          \* where the owner is in start and stop
          task,         \* the task each worker holds
          added,        \* tasks each adder has begun to add
          atStop,       \* history: tasks pushed when stop began
          pushed,       \* history: tasks in the order of their push
          taken         \* history: tasks in the order of their pop

queueVars == <<queue, queueMutex, fullWaiters, emptyWaiters, notExit>>
ownerVars == <<isExit, spc, atStop>>
adderVars == <<apc, added>>
workerVars == <<wpc, task>>
history == <<pushed, taken>>
poolVars == <<queueVars, ownerVars, adderVars, workerVars, history>>

AdderPCs == {"idle", "push"}
WorkerPCs == {"unborn", "test", "pop", "wait", "front", "run", "done"}
OwnerPCs == {"created", "started", "wakeUp", "notify", "drain", "join", "stopped"}

PoolTypeOK ==
  /\ queue \in Seq(Tasks)
  /\ queueMutex \in Workers \cup {NoWorker}
  /\ fullWaiters \subseteq Adders
  /\ emptyWaiters \subseteq Workers
  /\ notExit \in BOOLEAN
  /\ isExit \in BOOLEAN
  /\ apc \in [Adders -> AdderPCs]
  /\ wpc \in [Workers -> WorkerPCs]
  /\ spc \in OwnerPCs
  /\ task \in [Workers -> Tasks \cup {NoTask}]
  /\ added \in [Adders -> 0..MaxPerAdder]
  /\ atStop \in Nat
  /\ pushed \in Seq(Tasks)
  /\ taken \in Seq(Tasks)

PoolInit ==
  /\ queue = <<>>
  /\ queueMutex = NoWorker
  /\ fullWaiters = {}
  /\ emptyWaiters = {}
  /\ notExit = TRUE
  /\ isExit = FALSE
  /\ apc = [a \in Adders |-> "idle"]
  /\ wpc = [w \in Workers |-> "unborn"]
  /\ spc = "created"
  /\ task = [w \in Workers |-> NoTask]
  /\ added = [a \in Adders |-> 0]
  /\ atStop = 0
  /\ pushed = <<>>
  /\ taken = <<>>

isFull == Len(queue) = QueueSize
isEmpty == queue = <<>>

\* The wait sets notify_one can leave behind.
AfterNotifyOne(waiters) ==
  IF waiters = {} THEN {{}} ELSE {waiters \ {t} : t \in waiters}

-----------------------------------------------------------------------------
(* Faulty variants of the code, one for each way a change to it could break *)
(* a property below.  No specification uses them.                           *)

\* push does not notify.
PushSilently(a) ==
  /\ apc[a] = "push"
  /\ queueMutex = NoWorker
  /\ a \notin fullWaiters
  /\ IF isFull
     THEN /\ fullWaiters' = fullWaiters \cup {a}
          /\ UNCHANGED <<queue, pushed, apc>>
     ELSE /\ queue' = Append(queue, <<a, added[a]>>)
          /\ pushed' = Append(pushed, <<a, added[a]>>)
          /\ apc' = [apc EXCEPT ![a] = "idle"]
          /\ UNCHANGED fullWaiters
  /\ UNCHANGED <<queueMutex, emptyWaiters, notExit, ownerVars, added, workerVars, taken>>

\* pop waits with an if instead of a while.
PopWaitOnce(w) ==
  /\ wpc[w] = "wait"
  /\ emptyWaiters' = emptyWaiters \cup {w}
  /\ queueMutex' = NoWorker
  /\ wpc' = [wpc EXCEPT ![w] = "front"]
  /\ UNCHANGED <<queue, fullWaiters, notExit, ownerVars, adderVars, task, history>>

\* pop does not tell a waiting push that there is room.
PopSilently(w) ==
  /\ wpc[w] = "front"
  /\ queueMutex \in {w, NoWorker}
  /\ IF notExit
     THEN /\ task' = [task EXCEPT ![w] = Head(queue)]
          /\ taken' = Append(taken, Head(queue))
          /\ queue' = Tail(queue)
     ELSE /\ task' = [task EXCEPT ![w] = NoTask]
          /\ UNCHANGED <<taken, queue>>
  /\ queueMutex' = NoWorker
  /\ wpc' = [wpc EXCEPT ![w] = "run"]
  /\ UNCHANGED <<fullWaiters, emptyWaiters, notExit, ownerVars, adderVars, pushed>>

\* pop reads the front and leaves it in the queue.
PopKeepsFront(w) ==
  /\ wpc[w] = "front"
  /\ task' = [task EXCEPT ![w] = IF notExit THEN Head(queue) ELSE NoTask]
  /\ taken' = IF notExit THEN Append(taken, Head(queue)) ELSE taken
  /\ queueMutex' = NoWorker
  /\ wpc' = [wpc EXCEPT ![w] = "run"]
  /\ UNCHANGED <<queue, fullWaiters, emptyWaiters, notExit, ownerVars, adderVars, pushed>>

\* stop does not wait for the queue to be empty.
StopWithoutDrain ==
  /\ spc = "drain"
  /\ spc' = "join"
  /\ UNCHANGED <<queueVars, isExit, atStop, adderVars, workerVars, history>>

-----------------------------------------------------------------------------
(* addTask and TaskQueue::push.                                            *)

AddTask(a) ==
  /\ apc[a] = "idle"
  /\ added[a] < MaxPerAdder
  /\ added' = [added EXCEPT ![a] = @ + 1]
  /\ apc' = [apc EXCEPT ![a] = "push"]
  /\ UNCHANGED <<queueVars, ownerVars, workerVars, history>>

\* Lock, test: wait on _notFull and test again when woken, or push and notify.
Push(a) ==
  /\ apc[a] = "push"
  /\ queueMutex = NoWorker
  /\ a \notin fullWaiters
  /\ \/ /\ isFull
        /\ fullWaiters' = fullWaiters \cup {a}
        /\ UNCHANGED <<queue, pushed, apc, emptyWaiters>>
     \/ /\ ~isFull
        /\ queue' = Append(queue, <<a, added[a]>>)
        /\ pushed' = Append(pushed, <<a, added[a]>>)
        /\ apc' = [apc EXCEPT ![a] = "idle"]
        /\ emptyWaiters' \in AfterNotifyOne(emptyWaiters)
        /\ UNCHANGED fullWaiters
  /\ UNCHANGED <<queueMutex, notExit, ownerVars, added, workerVars, taken>>

-----------------------------------------------------------------------------
(* The workers: doTask, getTask and TaskQueue::pop.                        *)

\* while(!_isExit)
DoTaskTest(w) ==
  /\ wpc[w] = "test"
  /\ wpc' = [wpc EXCEPT ![w] = IF isExit THEN "done" ELSE "pop"]
  /\ UNCHANGED <<queueVars, ownerVars, adderVars, task, history>>

\* Lock (at first, or again after a wait), then while(isEmpty() & _notExit)
PopTest(w) ==
  /\ wpc[w] = "pop"
  /\ queueMutex = NoWorker
  /\ w \notin emptyWaiters
  /\ queueMutex' = w
  /\ wpc' = [wpc EXCEPT ![w] = IF isEmpty /\ notExit THEN "wait" ELSE "front"]
  /\ UNCHANGED <<queue, fullWaiters, emptyWaiters, notExit, ownerVars, adderVars,
                 task, history>>

\* _notEmpty.wait(autoLock): join the wait set and release the mutex.
PopWait(w) ==
  /\ wpc[w] = "wait"
  /\ emptyWaiters' = emptyWaiters \cup {w}
  /\ queueMutex' = NoWorker
  /\ wpc' = [wpc EXCEPT ![w] = "pop"]
  /\ UNCHANGED <<queue, fullWaiters, notExit, ownerVars, adderVars, task, history>>

\* if(_notExit) take the front, else return nullptr.
PopFront(w) ==
  /\ wpc[w] = "front"
  /\ \/ /\ notExit
        /\ task' = [task EXCEPT ![w] = Head(queue)]
        /\ taken' = Append(taken, Head(queue))
        /\ queue' = Tail(queue)
        /\ fullWaiters' \in AfterNotifyOne(fullWaiters)
     \/ /\ ~notExit
        /\ task' = [task EXCEPT ![w] = NoTask]
        /\ UNCHANGED <<taken, queue, fullWaiters>>
  /\ queueMutex' = NoWorker
  /\ wpc' = [wpc EXCEPT ![w] = "run"]
  /\ UNCHANGED <<emptyWaiters, notExit, ownerVars, adderVars, pushed>>

\* if(task) task(), which returns; a null task is skipped.
RunTask(w) ==
  /\ wpc[w] = "run"
  /\ task' = [task EXCEPT ![w] = NoTask]
  /\ wpc' = [wpc EXCEPT ![w] = "test"]
  /\ UNCHANGED <<queueVars, ownerVars, adderVars, history>>

\* A waiter may leave either wait set without having been notified.
SpuriousWakeup ==
  /\ \/ /\ \E t \in emptyWaiters : emptyWaiters' = emptyWaiters \ {t}
        /\ UNCHANGED fullWaiters
     \/ /\ \E t \in fullWaiters : fullWaiters' = fullWaiters \ {t}
        /\ UNCHANGED emptyWaiters
  /\ UNCHANGED <<queue, queueMutex, notExit, ownerVars, adderVars, workerVars, history>>

-----------------------------------------------------------------------------
(* The owner: start and stop.                                              *)

Start ==
  /\ spc = "created"
  /\ wpc' = [w \in Workers |-> "test"]
  /\ spc' = "started"
  /\ UNCHANGED <<queueVars, isExit, atStop, adderVars, task, history>>

Stop ==
  /\ spc = "started"
  /\ isExit' = TRUE
  /\ spc' = "wakeUp"
  /\ atStop' = Len(pushed)
  /\ UNCHANGED <<queueVars, adderVars, workerVars, history>>

\* _notExit = false, without the mutex
WakeUpSetExit ==
  /\ spc = "wakeUp"
  /\ notExit' = FALSE
  /\ spc' = "notify"
  /\ UNCHANGED <<queue, queueMutex, fullWaiters, emptyWaiters, isExit, atStop, adderVars,
                 workerVars, history>>

WakeUpNotifyAll ==
  /\ spc = "notify"
  /\ emptyWaiters' = {}
  /\ spc' = "drain"
  /\ UNCHANGED <<queue, queueMutex, fullWaiters, notExit, isExit, atStop, adderVars,
                 workerVars, history>>

\* while(!_taskQueue.isEmpty()) sleep one second
StopDrain ==
  /\ spc = "drain"
  /\ isEmpty
  /\ spc' = "join"
  /\ UNCHANGED <<queueVars, isExit, atStop, adderVars, workerVars, history>>

StopJoin ==
  /\ spc = "join"
  /\ \A w \in Workers : wpc[w] = "done"
  /\ spc' = "stopped"
  /\ UNCHANGED <<queueVars, isExit, atStop, adderVars, workerVars, history>>

-----------------------------------------------------------------------------
WorkerStep(w) == DoTaskTest(w) \/ PopTest(w) \/ PopWait(w) \/ PopFront(w) \/ RunTask(w)

OwnerStop == WakeUpSetExit \/ WakeUpNotifyAll \/ StopDrain \/ StopJoin

PoolNext ==
  \/ \E a \in Adders : AddTask(a) \/ Push(a)
  \/ \E w \in Workers : WorkerStep(w)
  \/ SpuriousWakeup
  \/ Start \/ Stop \/ OwnerStop

PoolSpec == PoolInit /\ [][PoolNext]_poolVars

\* Threads run: the owner starts the pool and finishes a stop it has begun, a
\* thread that may take the free mutex gets it in the end (the mutex is free
\* again and again, hence strong fairness), and no wait ends spuriously for sure.
PoolFairness ==
  /\ WF_poolVars(Start)
  /\ WF_poolVars(OwnerStop)
  /\ \A a \in Adders : SF_poolVars(Push(a))
  /\ \A w \in Workers : SF_poolVars(WorkerStep(w))

PoolFairSpec == PoolSpec /\ PoolFairness

-----------------------------------------------------------------------------
(* Properties.                                                             *)

\* The queue never holds more than _queueSize tasks, with any number of threads
\* in push at once.
BoundedQueue == Len(queue) <= QueueSize

\* pop never takes the front of an empty queue: a woken worker tests again under
\* the mutex before it reaches front().
FrontIsThere == \A w \in Workers : wpc[w] = "front" /\ notExit => ~isEmpty

\* The task queue is sound: its types, its bound, and a task for whoever takes one.
QueueInv == PoolTypeOK /\ BoundedQueue /\ FrontIsThere

\* Tasks leave the queue in the order they entered it, each one exactly once.
TasksExactlyOnceInOrder == pushed = taken \o queue

\* What was added before stop began has been run when stop returns, although every worker
\* ends as soon as it sees _isExit and pop returns no task once wakeUp has cleared
\* _notExit: tasks are handed out in the order of their push, and none is in the hands of
\* a worker any more.
StopRunsWhatWasAdded ==
  spc = "stopped" => Len(taken) >= atStop /\ \A w \in Workers : task[w] = NoTask

\* A task that was pushed is run, unless the pool is stopped.
EveryTaskRuns ==
  \A t \in Tasks : (\E i \in DOMAIN pushed : pushed[i] = t)
                   ~> ((\E i \in DOMAIN taken : taken[i] = t) \/ isExit)

\* A push that waits for room gets it, unless the pool is stopped.
EveryPushReturns == \A a \in Adders : (apc[a] = "push") ~> (apc[a] = "idle" \/ isExit)

=============================================================================

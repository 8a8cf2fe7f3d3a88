------------------------------ MODULE Eventor ------------------------------
(***************************************************************************)
(* The cross-thread functor queue of an EventLoop: reactor/Eventor.cc, with *)
(* the parts of reactor/EventLoop.cc that drive it (loop, unloop,           *)
(* waitEpollFd, runInLoop).                                                 *)
(*                                                                          *)
(* Producer threads hand functors to the loop thread through _pendings,     *)
(* under _mutex, and announce them by writing 1 to an eventfd.  The loop    *)
(* thread sleeps in epoll_wait, reads the eventfd, which resets it, swaps   *)
(* _pendings for an empty vector under _mutex and runs the functors with    *)
(* the mutex released.                                                      *)
(*                                                                          *)
(* A step of the model is what a thread does between two points where       *)
(* another thread can see or disturb it.                                    *)
(***************************************************************************)
EXTENDS Integers, Sequences, FiniteSets

CONSTANTS Producers,     \* threads that call runInLoop from outside the loop
          MaxPerProducer \* bound: functors a producer submits

ASSUME ProducersFinite == IsFiniteSet(Producers)
ASSUME MaxPerProducerNat == MaxPerProducer \in Nat

\* The loop thread; "none" is the holder of a free mutex.
Loop == "loop"
None == "none"

ASSUME ThreadsDistinct == Loop \notin Producers /\ None \notin Producers

\* A functor is named by who submitted it and the position in its submissions.
Functors == Producers \X (1..MaxPerProducer)

LoopPCs == {"created", "test", "epoll", "read", "lock", "swap", "run", "exited"}
ProducerPCs == {"idle", "lock", "push", "wake", "unlock"}

VARIABLES pendings,   \* Eventor::_pendings
          mutex,      \* holder of Eventor::_mutex
          evtfd,      \* counter of the eventfd
          tmp,        \* the vector local to doPenddingFunctors
          isLooping,  \* EventLoop::_isLooping
          lpc,        \* where the loop thread is
          ppc,        \* where each producer is in runInLoop/addEventcb
          sent,       \* functors each producer has begun to submit
          queued,     \* history: functors in the order of their push_back
          executed    \* history: functors in the order the loop ran them

vars == <<pendings, mutex, evtfd, tmp, isLooping, lpc, ppc, sent, queued, executed>>

TypeOK ==
  /\ pendings \in Seq(Functors)
  /\ mutex \in Producers \cup {Loop, None}
  /\ evtfd \in Nat
  /\ tmp \in Seq(Functors)
  /\ isLooping \in BOOLEAN
  /\ lpc \in LoopPCs
  /\ ppc \in [Producers -> ProducerPCs]
  /\ sent \in [Producers -> 0..MaxPerProducer]
  /\ queued \in Seq(Functors)
  /\ executed \in Seq(Functors)

Init ==
  /\ pendings = <<>>
  /\ mutex = None
  /\ evtfd = 0
  /\ tmp = <<>>
  /\ isLooping = FALSE
  /\ lpc = "created"
  /\ ppc = [p \in Producers |-> "idle"]
  /\ sent = [p \in Producers |-> 0]
  /\ queued = <<>>
  /\ executed = <<>>

-----------------------------------------------------------------------------
(* Faulty variants of the code, one for each way a change to it could break *)
(* a property below.  No specification uses them.                           *)

\* The wake-up skipped while the loop is busy running functors.
WakeUpUnlessRunning(p) ==
  /\ ppc[p] = "wake"
  /\ evtfd' = IF lpc = "run" THEN evtfd ELSE evtfd + 1
  /\ ppc' = [ppc EXCEPT ![p] = "unlock"]
  /\ UNCHANGED <<pendings, mutex, tmp, isLooping, lpc, sent, queued, executed>>

\* addEventcb without the lock.
AddEventcbNoLock(p) ==
  /\ ppc[p] = "lock"
  /\ mutex' = p
  /\ ppc' = [ppc EXCEPT ![p] = "push"]
  /\ UNCHANGED <<pendings, evtfd, tmp, isLooping, lpc, sent, queued, executed>>

\* The eventfd drained after the functors have run instead of before the swap.
DrainAfterRun ==
  /\ lpc = "run"
  /\ tmp = <<>>
  /\ evtfd' = 0
  /\ lpc' = "test"
  /\ UNCHANGED <<pendings, mutex, tmp, isLooping, ppc, sent, queued, executed>>

\* _pendings copied instead of swapped.
CopyPendings ==
  /\ lpc = "swap"
  /\ tmp' = pendings
  /\ mutex' = None
  /\ lpc' = "run"
  /\ UNCHANGED <<pendings, evtfd, isLooping, ppc, sent, queued, executed>>

\* Functors taken from the back of tmp.
RunNewestFirst ==
  /\ lpc = "run"
  /\ tmp # <<>>
  /\ executed' = Append(executed, tmp[Len(tmp)])
  /\ tmp' = SubSeq(tmp, 1, Len(tmp) - 1)
  /\ UNCHANGED <<pendings, mutex, evtfd, isLooping, lpc, ppc, sent, queued>>

\* epoll_wait without a timeout: it only returns for the eventfd.
WaitEpollForever ==
  /\ lpc = "epoll"
  /\ evtfd < 0
  /\ lpc' = "test"
  /\ UNCHANGED <<pendings, mutex, evtfd, tmp, isLooping, ppc, sent, queued, executed>>

-----------------------------------------------------------------------------
(* Producers: runInLoop from another thread, which calls addEventcb.       *)

RunInLoop(p) ==
  /\ ppc[p] = "idle"
  /\ sent[p] < MaxPerProducer
  /\ sent' = [sent EXCEPT ![p] = @ + 1]
  /\ ppc' = [ppc EXCEPT ![p] = "lock"]
  /\ UNCHANGED <<pendings, mutex, evtfd, tmp, isLooping, lpc, queued, executed>>

AddEventcbLock(p) ==
  /\ ppc[p] = "lock"
  /\ mutex = None
  /\ mutex' = p
  /\ ppc' = [ppc EXCEPT ![p] = "push"]
  /\ UNCHANGED <<pendings, evtfd, tmp, isLooping, lpc, sent, queued, executed>>

AddEventcbPush(p) ==
  /\ ppc[p] = "push"
  /\ pendings' = Append(pendings, <<p, sent[p]>>)
  /\ queued' = Append(queued, <<p, sent[p]>>)
  /\ ppc' = [ppc EXCEPT ![p] = "wake"]
  /\ UNCHANGED <<mutex, evtfd, tmp, isLooping, lpc, sent, executed>>

\* The eventfd's 64-bit counter cannot overflow under MaxPerProducer, so the
\* failure branch of the write is not taken.
WakeUp(p) ==
  /\ ppc[p] = "wake"
  /\ evtfd' = evtfd + 1
  /\ ppc' = [ppc EXCEPT ![p] = "unlock"]
  /\ UNCHANGED <<pendings, mutex, tmp, isLooping, lpc, sent, queued, executed>>

AddEventcbReturn(p) ==
  /\ ppc[p] = "unlock"
  /\ mutex' = None
  /\ ppc' = [ppc EXCEPT ![p] = "idle"]
  /\ UNCHANGED <<pendings, evtfd, tmp, isLooping, lpc, sent, queued, executed>>

-----------------------------------------------------------------------------
(* The loop thread.                                                        *)

LoopStart ==
  /\ lpc = "created"
  /\ isLooping' = TRUE
  /\ lpc' = "test"
  /\ UNCHANGED <<pendings, mutex, evtfd, tmp, ppc, sent, queued, executed>>

\* while(_isLooping)
LoopTest ==
  /\ lpc = "test"
  /\ lpc' = IF isLooping THEN "epoll" ELSE "exited"
  /\ UNCHANGED <<pendings, mutex, evtfd, tmp, isLooping, ppc, sent, queued, executed>>

\* epoll_wait reports the eventfd, level triggered: it is readable while its
\* counter is not zero.
WaitEpollReady ==
  /\ lpc = "epoll"
  /\ evtfd > 0
  /\ lpc' = "read"
  /\ UNCHANGED <<pendings, mutex, evtfd, tmp, isLooping, ppc, sent, queued, executed>>

\* epoll_wait returns without the eventfd: its 3000 ms timeout, or a batch of
\* other descriptors, whose handlers do not touch this queue.
WaitEpollOther ==
  /\ lpc = "epoll"
  /\ evtfd = 0
  /\ lpc' = "test"
  /\ UNCHANGED <<pendings, mutex, evtfd, tmp, isLooping, ppc, sent, queued, executed>>

\* The eventfd is blocking (flags 0): read waits for a nonzero counter and
\* resets it.
HandleRead ==
  /\ lpc = "read"
  /\ evtfd > 0
  /\ evtfd' = 0
  /\ lpc' = "lock"
  /\ UNCHANGED <<pendings, mutex, tmp, isLooping, ppc, sent, queued, executed>>

DoPenddingLock ==
  /\ lpc = "lock"
  /\ mutex = None
  /\ mutex' = Loop
  /\ lpc' = "swap"
  /\ UNCHANGED <<pendings, evtfd, tmp, isLooping, ppc, sent, queued, executed>>

\* tmp.swap(_pendings), then autoLock.unlock()
DoPenddingSwap ==
  /\ lpc = "swap"
  /\ tmp' = pendings
  /\ pendings' = tmp
  /\ mutex' = None
  /\ lpc' = "run"
  /\ UNCHANGED <<evtfd, isLooping, ppc, sent, queued, executed>>

\* cb() for the next functor of tmp
DoPenddingRun ==
  /\ lpc = "run"
  /\ tmp # <<>>
  /\ executed' = Append(executed, Head(tmp))
  /\ tmp' = Tail(tmp)
  /\ UNCHANGED <<pendings, mutex, evtfd, isLooping, lpc, ppc, sent, queued>>

DoPenddingReturn ==
  /\ lpc = "run"
  /\ tmp = <<>>
  /\ lpc' = "test"
  /\ UNCHANGED <<pendings, mutex, evtfd, tmp, isLooping, ppc, sent, queued, executed>>

\* unloop(), from any other thread, at any time: it does not wake the loop.
Unloop ==
  /\ isLooping' = FALSE
  /\ UNCHANGED <<pendings, mutex, evtfd, tmp, lpc, ppc, sent, queued, executed>>

-----------------------------------------------------------------------------
AddEventcb(p) == AddEventcbLock(p) \/ AddEventcbPush(p) \/ WakeUp(p) \/ AddEventcbReturn(p)

LoopStep == \/ LoopStart \/ LoopTest \/ WaitEpollReady \/ WaitEpollOther
            \/ HandleRead \/ DoPenddingLock \/ DoPenddingSwap
            \/ DoPenddingRun \/ DoPenddingReturn

Next == \/ \E p \in Producers : RunInLoop(p) \/ AddEventcb(p)
        \/ LoopStep
        \/ Unloop

Spec == Init /\ [][Next]_vars

\* The loop thread and every thread inside addEventcb keep running; nothing
\* obliges a producer to submit, or anyone to call unloop.  A waiter for the
\* mutex gets it because only finitely many others want it.
Fairness == /\ WF_vars(LoopStep)
            /\ \A p \in Producers : WF_vars(AddEventcb(p))

FairSpec == Spec /\ Fairness

-----------------------------------------------------------------------------
(* Properties.                                                             *)

Submitted(f) == \E i \in DOMAIN queued : queued[i] = f
Ran(f) == \E i \in DOMAIN executed : executed[i] = f

\* No wake-up is lost: while functors are pending, the eventfd is readable, or
\* the loop thread has read it and not yet swapped _pendings out, or the
\* producer that pushed is about to write it (addEventcb pushes and wakes under
\* one lock; handleRead resets the eventfd BEFORE doPenddingFunctors swaps).
NoLostWakeup ==
  pendings # <<>> => \/ evtfd > 0
                     \/ lpc \in {"lock", "swap"}
                     \/ \E p \in Producers : ppc[p] = "wake"

\* Every functor that was pushed is in exactly one of: run, in the loop's batch,
\* pending; and the three together keep the order of the pushes.
ExactlyOnceInOrder == queued = executed \o tmp \o pendings

\* _mutex is held by exactly the threads that are in a critical section, and the
\* loop never blocks in the read of the eventfd (nobody else reads it).
LockDiscipline ==
  /\ \A p \in Producers : (mutex = p) <=> ppc[p] \in {"push", "wake", "unlock"}
  /\ (mutex = Loop) <=> lpc = "swap"
  /\ lpc = "read" => evtfd > 0

\* The state has its types, and _mutex and the eventfd are used as they should be.
LockInv == TypeOK /\ LockDiscipline

\* The functors of one producer run in the order it submitted them, whatever
\* the interleaving with others.
ProducerOrder ==
  \A i, j \in DOMAIN executed :
    i < j /\ executed[i][1] = executed[j][1] => executed[i][2] < executed[j][2]

\* No functor is lost, repeated or overtaken, among all and among those of one thread.
OrderInv == ExactlyOnceInOrder /\ ProducerOrder

\* The parts of the induction that the properties above need beside them: tmp is
\* empty outside the run of a batch, a producer inside addEventcb has begun a
\* submission, and what is queued is older than what a producer is submitting.
BatchOnlyWhileRunning == tmp # <<>> => lpc = "run"

NumberedInOrder ==
  /\ \A p \in Producers : ppc[p] # "idle" => sent[p] > 0
  /\ \A i \in DOMAIN queued :
       /\ queued[i][2] <= sent[queued[i][1]]
       /\ ppc[queued[i][1]] \in {"lock", "push"} => queued[i][2] < sent[queued[i][1]]
  /\ \A i, j \in DOMAIN queued :
       i < j /\ queued[i][1] = queued[j][1] => queued[i][2] < queued[j][2]

IInv == /\ TypeOK
        /\ LockDiscipline
        /\ BatchOnlyWhileRunning
        /\ NoLostWakeup
        /\ ExactlyOnceInOrder
        /\ NumberedInOrder

\* What runInLoop promises to another thread.
Executor == INSTANCE FunctorExecutor WITH waiting <- tmp \o pendings, done <- executed
ImplementsExecutor == Executor!ExecutorSpec

\* A functor handed to a loop is run, unless the loop has been told to stop.
EveryFunctorRuns ==
  \A f \in Functors : Submitted(f) ~> (Ran(f) \/ lpc = "exited")

\* unloop on a loop that has started ends it, although unloop does not wake it:
\* epoll_wait's 3000 ms timeout brings the thread back to the test.
UnloopEndsLoop == (lpc # "created" /\ ~isLooping) ~> lpc = "exited"

=============================================================================

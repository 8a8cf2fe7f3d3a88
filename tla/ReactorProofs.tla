--------------------------- MODULE ReactorProofs ---------------------------
(***************************************************************************)
(* Proofs about the two queues of the reactor.  Eventor, for any number of  *)
(* producers and of functors: type correctness, the locking discipline,     *)
(* that no wake-up is lost, that every functor is run at most once and in   *)
(* order, and that the queue implements FunctorExecutor.  ThreadPool, for   *)
(* any number of workers, adders and tasks and any size of the queue: the   *)
(* bound of the queue, the order of the tasks, and what stop leaves behind. *)
(***************************************************************************)
EXTENDS Eventor, ThreadPool, Integers, Sequences, SequenceTheorems, TLAPS

-----------------------------------------------------------------------------
(* Sequences that serve as queues with a history.                           *)

\* Appending to the last of two sequences appends to their concatenation.
LEMMA AppendConcat ==
  ASSUME NEW S, NEW s \in Seq(S), NEW t \in Seq(S), NEW e \in S
  PROVE  s \o Append(t, e) = Append(s \o t, e)
<1>1. Append(t, e) = t \o <<e>> /\ Append(s \o t, e) = (s \o t) \o <<e>>
  BY ConcatProperties
<1>2. <<e>> \in Seq(S)
  OBVIOUS
<1> QED  BY <1>1, <1>2, ConcatAssociative

\* Moving the first element of a sequence to the end of the one before it
\* leaves their concatenation as it was.
LEMMA ShiftHead ==
  ASSUME NEW S, NEW s \in Seq(S), NEW t \in Seq(S), t # <<>>
  PROVE  Append(s, Head(t)) \o Tail(t) = s \o t
<1>1. /\ Head(t) \in S /\ Tail(t) \in Seq(S)
      /\ Append(s, Head(t)) \in Seq(S)
      /\ Len(Append(s, Head(t))) = Len(s) + 1
      /\ Len(Tail(t)) = Len(t) - 1
      /\ Len(t) \in Nat \ {0} /\ Len(s) \in Nat
  BY HeadTailProperties, EmptySeq
<1>2. Len(Append(s, Head(t)) \o Tail(t)) = Len(s \o t)
  BY <1>1, ConcatProperties
<1>3. ASSUME NEW i \in 1..Len(s \o t)
      PROVE  (Append(s, Head(t)) \o Tail(t))[i] = (s \o t)[i]
  <2>0. Len(s \o t) = Len(s) + Len(t)
    BY ConcatProperties
  <2>1. CASE i <= Len(s)
    BY <1>1, <2>0, <2>1, ConcatProperties
  <2>2. CASE i = Len(s) + 1
    BY <1>1, <2>0, <2>2, ConcatProperties
  <2>3. CASE i > Len(s) + 1
    BY <1>1, <2>0, <2>3, ConcatProperties, HeadTailProperties
  <2> QED  BY <2>0, <2>1, <2>2, <2>3, <1>1
<1> QED
  BY <1>1, <1>2, <1>3, SeqEqual, ConcatProperties

-----------------------------------------------------------------------------
(* The functor queue: the inductive invariant.                              *)

\* The initial states satisfy the invariant.
LEMMA InitIInv == Init => IInv
<1> SUFFICES ASSUME Init PROVE IInv
  OBVIOUS
<1>1. TypeOK
  <2>1. /\ <<>> \in Seq(Functors)
        /\ [p \in Producers |-> 0] \in [Producers -> 0..MaxPerProducer]
        /\ [p \in Producers |-> "idle"] \in [Producers -> ProducerPCs]
    BY MaxPerProducerNat DEF ProducerPCs
  <2> QED  BY <2>1 DEF Init, TypeOK, LoopPCs
<1>2. LockDiscipline
  BY ThreadsDistinct DEF Init, LockDiscipline, Loop, None
<1>3. BatchOnlyWhileRunning /\ NoLostWakeup
  BY DEF Init, BatchOnlyWhileRunning, NoLostWakeup
<1>4. ExactlyOnceInOrder
  BY ConcatEmptySeq, EmptySeq DEF Init, ExactlyOnceInOrder
<1>5. NumberedInOrder
  BY DEF Init, NumberedInOrder
<1> QED  BY <1>1, <1>2, <1>3, <1>4, <1>5 DEF IInv

\* Every step preserves it.
LEMMA NextIInv == IInv /\ [Next]_vars => IInv'
<1> SUFFICES ASSUME IInv, [Next]_vars PROVE IInv'
  OBVIOUS
<1> USE DEF IInv
<1>1. ASSUME NEW p \in Producers, RunInLoop(p) PROVE IInv'
  <2> USE <1>1 DEF RunInLoop
  <2>1. TypeOK'
    BY MaxPerProducerNat DEF TypeOK, ProducerPCs
  <2>2. LockDiscipline' /\ BatchOnlyWhileRunning' /\ NoLostWakeup'
    BY DEF TypeOK, LockDiscipline, BatchOnlyWhileRunning, NoLostWakeup
  <2>3. ExactlyOnceInOrder'
    BY DEF ExactlyOnceInOrder
  <2>4. NumberedInOrder'
    BY MaxPerProducerNat, SMTT(20) DEF TypeOK, NumberedInOrder, Functors
  <2> QED  BY <2>1, <2>2, <2>3, <2>4
<1>2. ASSUME NEW p \in Producers, AddEventcbLock(p) PROVE IInv'
  <2> USE <1>2, ThreadsDistinct DEF AddEventcbLock, Loop, None
  <2>1. TypeOK'
    BY DEF TypeOK, ProducerPCs
  <2>2. LockDiscipline' /\ BatchOnlyWhileRunning' /\ NoLostWakeup'
    BY DEF TypeOK, LockDiscipline, BatchOnlyWhileRunning, NoLostWakeup
  <2>3. ExactlyOnceInOrder'
    BY DEF ExactlyOnceInOrder
  <2>4. NumberedInOrder'
    BY DEF TypeOK, NumberedInOrder, Functors
  <2> QED  BY <2>1, <2>2, <2>3, <2>4
<1>3. ASSUME NEW p \in Producers, AddEventcbPush(p) PROVE IInv'
  <2> USE <1>3 DEF AddEventcbPush
  <2>a. sent[p] \in 1..MaxPerProducer
    <3>1. sent[p] \in 0..MaxPerProducer
      BY DEF TypeOK
    <3>2. sent[p] > 0
      BY DEF NumberedInOrder
    <3> QED  BY <3>1, <3>2, MaxPerProducerNat
  <2>0. <<p, sent[p]>> \in Functors
    BY <2>a DEF Functors
  <2>1. TypeOK'
    <3>1. pendings' \in Seq(Functors) /\ queued' \in Seq(Functors)
      BY <2>0 DEF TypeOK
    <3>2. ppc' \in [Producers -> ProducerPCs]
      BY DEF TypeOK, ProducerPCs
    <3> QED  BY <3>1, <3>2 DEF TypeOK
  <2>2. LockDiscipline' /\ BatchOnlyWhileRunning' /\ NoLostWakeup'
    BY DEF TypeOK, LockDiscipline, BatchOnlyWhileRunning, NoLostWakeup
  <2>3. ExactlyOnceInOrder'
    <3>1. executed \o tmp \in Seq(Functors) /\ pendings \in Seq(Functors)
      BY ConcatProperties DEF TypeOK
    <3>2. (executed \o tmp) \o Append(pendings, <<p, sent[p]>>)
            = Append((executed \o tmp) \o pendings, <<p, sent[p]>>)
      BY <2>0, <3>1, AppendConcat, SMTT(20)
    <3> QED  BY <3>2 DEF ExactlyOnceInOrder
  <2>4. NumberedInOrder'
    <3>1. /\ DOMAIN queued = 1..Len(queued) /\ DOMAIN queued' = 1..(Len(queued) + 1)
          /\ \A i \in 1..Len(queued) : queued'[i] = queued[i] /\ queued[i] \in Functors
          /\ queued'[Len(queued) + 1] = <<p, sent[p]>>
          /\ Len(queued) \in Nat
      BY <2>0 DEF TypeOK
    <3>2. \A i \in 1..Len(queued) : queued[i][1] = p => queued[i][2] < sent[p]
      BY <3>1 DEF NumberedInOrder
    <3>3. /\ \A q \in Producers : ppc'[q] # "idle" => sent'[q] > 0
          /\ \A q \in Producers : ppc'[q] \in {"lock", "push"} => ppc[q] \in {"lock", "push"}
          /\ ppc'[p] = "wake"
      BY DEF TypeOK, NumberedInOrder
    <3>4. ASSUME NEW i \in DOMAIN queued'
          PROVE  /\ queued'[i][2] <= sent'[queued'[i][1]]
                 /\ ppc'[queued'[i][1]] \in {"lock", "push"} => queued'[i][2] < sent'[queued'[i][1]]
      <4>1. CASE i \in 1..Len(queued)
        <5>1. queued[i][1] \in Producers
          BY <4>1, <3>1 DEF Functors
        <5> QED  BY <4>1, <5>1, <3>1, <3>3 DEF NumberedInOrder
      <4>2. CASE i = Len(queued) + 1
        BY <4>2, <3>1, <3>3, <2>a
      <4> QED  BY <3>1, <4>1, <4>2
    <3>5. ASSUME NEW i \in DOMAIN queued', NEW j \in DOMAIN queued',
                 i < j, queued'[i][1] = queued'[j][1]
          PROVE  queued'[i][2] < queued'[j][2]
      <4>1. CASE j \in 1..Len(queued)
        BY <4>1, <3>1, <3>5 DEF NumberedInOrder
      <4>2. CASE j = Len(queued) + 1
        BY <4>2, <3>1, <3>2, <3>5
      <4> QED  BY <3>1, <4>1, <4>2
    <3>6. /\ \A i \in DOMAIN queued' :
               /\ queued'[i][2] <= sent'[queued'[i][1]]
               /\ ppc'[queued'[i][1]] \in {"lock", "push"} => queued'[i][2] < sent'[queued'[i][1]]
          /\ \A i, j \in DOMAIN queued' :
               i < j /\ queued'[i][1] = queued'[j][1] => queued'[i][2] < queued'[j][2]
      BY <3>4, <3>5
    <3> QED  BY <3>3, <3>6 DEF NumberedInOrder
  <2> QED  BY <2>1, <2>2, <2>3, <2>4
<1>4. ASSUME NEW p \in Producers, WakeUp(p) PROVE IInv'
  <2> USE <1>4 DEF WakeUp
  <2>1. TypeOK'
    BY DEF TypeOK, ProducerPCs
  <2>2. LockDiscipline' /\ BatchOnlyWhileRunning' /\ NoLostWakeup'
    BY DEF TypeOK, LockDiscipline, BatchOnlyWhileRunning, NoLostWakeup
  <2>3. ExactlyOnceInOrder'
    BY DEF ExactlyOnceInOrder
  <2>4. NumberedInOrder'
    BY DEF TypeOK, NumberedInOrder, Functors
  <2> QED  BY <2>1, <2>2, <2>3, <2>4
<1>5. ASSUME NEW p \in Producers, AddEventcbReturn(p) PROVE IInv'
  <2> USE <1>5, ThreadsDistinct DEF AddEventcbReturn, Loop, None
  <2>1. TypeOK'
    BY DEF TypeOK, ProducerPCs
  <2>2. LockDiscipline' /\ BatchOnlyWhileRunning' /\ NoLostWakeup'
    BY DEF TypeOK, LockDiscipline, BatchOnlyWhileRunning, NoLostWakeup
  <2>3. ExactlyOnceInOrder'
    BY DEF ExactlyOnceInOrder
  <2>4. NumberedInOrder'
    BY DEF TypeOK, NumberedInOrder, Functors
  <2> QED  BY <2>1, <2>2, <2>3, <2>4
<1>6. CASE LoopStart \/ Unloop \/ LoopTest
  <2> USE <1>6 DEF LoopStart, Unloop, LoopTest
  <2>1. TypeOK'
    BY DEF TypeOK, LoopPCs
  <2>2. LockDiscipline' /\ BatchOnlyWhileRunning' /\ NoLostWakeup'
    BY DEF TypeOK, LockDiscipline, BatchOnlyWhileRunning, NoLostWakeup
  <2>3. ExactlyOnceInOrder' /\ NumberedInOrder'
    BY DEF ExactlyOnceInOrder, NumberedInOrder
  <2> QED  BY <2>1, <2>2, <2>3
<1>12. CASE WaitEpollReady \/ WaitEpollOther \/ HandleRead
  <2> USE <1>12 DEF WaitEpollReady, WaitEpollOther, HandleRead
  <2>1. TypeOK'
    BY DEF TypeOK, LoopPCs
  <2>2. LockDiscipline' /\ BatchOnlyWhileRunning' /\ NoLostWakeup'
    BY DEF TypeOK, LockDiscipline, BatchOnlyWhileRunning, NoLostWakeup
  <2>3. ExactlyOnceInOrder' /\ NumberedInOrder'
    BY DEF ExactlyOnceInOrder, NumberedInOrder
  <2> QED  BY <2>1, <2>2, <2>3
<1>7. CASE DoPenddingLock
  <2> USE <1>7, ThreadsDistinct DEF DoPenddingLock, Loop, None
  <2>1. TypeOK'
    BY DEF TypeOK, LoopPCs
  <2>2. LockDiscipline' /\ BatchOnlyWhileRunning' /\ NoLostWakeup'
    BY DEF TypeOK, LockDiscipline, BatchOnlyWhileRunning, NoLostWakeup
  <2>3. ExactlyOnceInOrder' /\ NumberedInOrder'
    BY DEF ExactlyOnceInOrder, NumberedInOrder
  <2> QED  BY <2>1, <2>2, <2>3
<1>8. CASE DoPenddingSwap
  <2> USE <1>8, ThreadsDistinct DEF DoPenddingSwap, Loop, None
  <2>0. tmp = <<>>
    BY DEF BatchOnlyWhileRunning
  <2>1. TypeOK'
    BY DEF TypeOK, LoopPCs
  <2>2. LockDiscipline' /\ BatchOnlyWhileRunning' /\ NoLostWakeup'
    BY <2>0 DEF TypeOK, LockDiscipline, BatchOnlyWhileRunning, NoLostWakeup
  <2>3. ExactlyOnceInOrder'
    BY <2>0, ConcatEmptySeq, ConcatProperties DEF TypeOK, ExactlyOnceInOrder
  <2>4. NumberedInOrder'
    BY DEF NumberedInOrder
  <2> QED  BY <2>1, <2>2, <2>3, <2>4
<1>9. CASE DoPenddingRun
  <2> USE <1>9 DEF DoPenddingRun
  <2>0. Head(tmp) \in Functors /\ Tail(tmp) \in Seq(Functors)
    BY HeadTailProperties DEF TypeOK
  <2>1. TypeOK'
    BY <2>0 DEF TypeOK
  <2>2. LockDiscipline' /\ BatchOnlyWhileRunning' /\ NoLostWakeup'
    BY DEF LockDiscipline, BatchOnlyWhileRunning, NoLostWakeup
  <2>3. ExactlyOnceInOrder'
    BY ShiftHead DEF TypeOK, ExactlyOnceInOrder
  <2>4. NumberedInOrder'
    BY DEF NumberedInOrder
  <2> QED  BY <2>1, <2>2, <2>3, <2>4
<1>10. CASE DoPenddingReturn
  <2> USE <1>10 DEF DoPenddingReturn
  <2>1. TypeOK'
    BY DEF TypeOK, LoopPCs
  <2>2. LockDiscipline' /\ BatchOnlyWhileRunning' /\ NoLostWakeup'
    BY DEF LockDiscipline, BatchOnlyWhileRunning, NoLostWakeup
  <2>3. ExactlyOnceInOrder'
    BY DEF ExactlyOnceInOrder
  <2>4. NumberedInOrder'
    BY DEF NumberedInOrder
  <2> QED  BY <2>1, <2>2, <2>3, <2>4
<1>11. CASE UNCHANGED vars
  BY <1>11 DEF vars, TypeOK, LockDiscipline, BatchOnlyWhileRunning, NoLostWakeup,
               ExactlyOnceInOrder, NumberedInOrder
<1> QED
  BY <1>1, <1>2, <1>3, <1>4, <1>5, <1>6, <1>7, <1>8, <1>9, <1>10, <1>11, <1>12
  DEF Next, AddEventcb, LoopStep

\* So it holds at all times.
LEMMA AlwaysIInv == Spec => []IInv
  BY InitIInv, NextIInv, PTL DEF Spec

-----------------------------------------------------------------------------
(* Safety, for every number of producers and functors.                     *)

\* The variables of Eventor keep their types: in particular no step of the loop
\* or of addEventcb takes the eventfd's counter below zero.
THEOREM TypeCorrect == Spec => []TypeOK
  BY AlwaysIInv, PTL DEF IInv

\* _mutex excludes the producers and the loop from each other, and handleRead
\* never blocks the loop thread.
THEOREM LocksHeldCorrectly == Spec => []LockDiscipline
  BY AlwaysIInv, PTL DEF IInv

\* Both of them: the state of addEventcb, handleRead and doPenddingFunctors is sound.
THEOREM LockInvHolds == Spec => []LockInv
  BY TypeCorrect, LocksHeldCorrectly, PTL DEF LockInv

\* A functor pushed by addEventcb always has a wake-up, or a swap, ahead of it.
THEOREM WakeupsAreNotLost == Spec => []NoLostWakeup
  BY AlwaysIInv, PTL DEF IInv

\* doPenddingFunctors runs each functor at most once, in the order of the pushes,
\* and loses none.
THEOREM FunctorsExactlyOnceInOrder == Spec => []ExactlyOnceInOrder
  BY AlwaysIInv, PTL DEF IInv

\* What has run is a prefix of what was pushed.
LEMMA ExecutedIsPrefix ==
  ASSUME TypeOK, ExactlyOnceInOrder
  PROVE  /\ Len(executed) <= Len(queued)
         /\ \A i \in 1..Len(executed) : executed[i] = queued[i]
<1>1. /\ executed \in Seq(Functors) /\ tmp \o pendings \in Seq(Functors)
      /\ queued = executed \o (tmp \o pendings)
  BY ConcatAssociative, ConcatProperties, SMTT(20) DEF TypeOK, ExactlyOnceInOrder
<1> QED  BY <1>1, ConcatProperties, LenProperties

\* The functors of one producer run in the order in which it called runInLoop.
THEOREM ProducersRunInOrder == Spec => []ProducerOrder
<1>1. IInv => ProducerOrder
  <2> SUFFICES ASSUME IInv PROVE ProducerOrder
    OBVIOUS
  <2>1. /\ Len(executed) <= Len(queued)
        /\ \A i \in 1..Len(executed) : executed[i] = queued[i]
    BY ExecutedIsPrefix DEF IInv
  <2>2. /\ DOMAIN executed = 1..Len(executed) /\ DOMAIN queued = 1..Len(queued)
        /\ Len(executed) \in Nat /\ Len(queued) \in Nat
    BY DEF IInv, TypeOK
  <2> QED  BY <2>1, <2>2 DEF IInv, NumberedInOrder, ProducerOrder
<1> QED  BY <1>1, AlwaysIInv, PTL

\* doPenddingFunctors keeps the order of the pushes, over all threads and for each.
THEOREM OrderInvHolds == Spec => []OrderInv
  BY FunctorsExactlyOnceInOrder, ProducersRunInOrder, PTL DEF OrderInv

-----------------------------------------------------------------------------
(* Refinement: a push is a Submit, a functor's run is a Run, and every      *)
(* other step leaves the abstract queue alone.                              *)

\* The swap moves the pending functors to the batch: nothing changes outside.
LEMMA SwapStutters ==
  ASSUME IInv, DoPenddingSwap
  PROVE  UNCHANGED <<tmp \o pendings, executed>>
<1>1. tmp = <<>> /\ tmp' = pendings /\ pendings' = tmp /\ executed' = executed
  BY DEF IInv, BatchOnlyWhileRunning, DoPenddingSwap
<1>2. pendings \in Seq(Functors)
  BY DEF IInv, TypeOK
<1> QED  BY <1>1, <1>2, ConcatEmptySeq

\* What a producer pushes was never accepted before.
LEMMA PushSubmits ==
  ASSUME IInv, NEW p \in Producers, AddEventcbPush(p)
  PROVE  \E f \in Functors : Executor!Submit(f)
<1> DEFINE f == <<p, sent[p]>>
           w == tmp \o pendings
<1>1. f \in Functors
  <2>1. sent[p] \in 0..MaxPerProducer
    BY DEF IInv, TypeOK
  <2>2. sent[p] > 0
    BY DEF IInv, NumberedInOrder, AddEventcbPush
  <2> QED  BY <2>1, <2>2, MaxPerProducerNat DEF Functors
<1>2. /\ w \in Seq(Functors) /\ executed \in Seq(Functors)
      /\ queued = executed \o w
  <2>1. /\ tmp \in Seq(Functors) /\ pendings \in Seq(Functors)
        /\ executed \in Seq(Functors)
    BY DEF IInv, TypeOK
  <2>2. w \in Seq(Functors)
    BY <2>1, ConcatProperties
  <2>3. queued = (executed \o tmp) \o pendings
    BY DEF IInv, ExactlyOnceInOrder
  <2>4. (executed \o tmp) \o pendings = executed \o (tmp \o pendings)
    BY <2>1, ConcatAssociative, SMTT(20)
  <2> QED
    BY <2>1, <2>2, <2>3, <2>4
<1>3. \A i \in 1..Len(queued) : queued[i] # f
  <2>1. DOMAIN queued = 1..Len(queued)
    BY DEF IInv, TypeOK
  <2>2. SUFFICES ASSUME NEW i \in 1..Len(queued), queued[i] = f PROVE FALSE
    OBVIOUS
  <2>3. queued[i][1] = p /\ queued[i][2] = sent[p]
    BY <2>2
  <2>4. queued[i][2] < sent[p]
    BY <2>1, <2>3 DEF IInv, NumberedInOrder, AddEventcbPush
  <2>5. sent[p] \in Nat
    BY MaxPerProducerNat DEF IInv, TypeOK
  <2> QED  BY <2>3, <2>4, <2>5
<1>4. \A i \in 1..Len(executed) : executed[i] # f
  <2>1. /\ Len(executed) <= Len(queued)
        /\ \A i \in 1..Len(executed) : executed[i] = queued[i]
    BY ExecutedIsPrefix DEF IInv
  <2>2. Len(executed) \in Nat /\ Len(queued) \in Nat
    BY DEF IInv, TypeOK
  <2> HIDE DEF f
  <2> QED  BY <2>1, <2>2, <1>3
<1>5. \A i \in 1..Len(w) : w[i] # f
  <2> SUFFICES ASSUME NEW i \in 1..Len(w) PROVE w[i] # f
    OBVIOUS
  <2>1. /\ i + Len(executed) \in 1..Len(queued)
        /\ queued[i + Len(executed)] = w[i]
    BY <1>2, ConcatProperties, LenProperties
  <2> QED  BY <2>1, <1>3
<1>6. tmp' \o pendings' = Append(w, f) /\ executed' = executed
  <2>1. tmp' = tmp /\ pendings' = Append(pendings, f) /\ executed' = executed
    BY DEF AddEventcbPush
  <2>2. tmp \in Seq(Functors) /\ pendings \in Seq(Functors)
    BY DEF IInv, TypeOK
  <2> QED  BY <2>1, <2>2, <1>1, AppendConcat
<1> QED  BY <1>1, <1>4, <1>5, <1>6 DEF Executor!Submit

\* Running the first functor of the batch runs the oldest accepted functor.
LEMMA RunRuns ==
  ASSUME IInv, DoPenddingRun
  PROVE  Executor!Run
<1>1. /\ tmp \in Seq(Functors) /\ pendings \in Seq(Functors) /\ tmp # <<>>
      /\ executed' = Append(executed, Head(tmp))
      /\ tmp' = Tail(tmp) /\ pendings' = pendings
  BY DEF IInv, TypeOK, DoPenddingRun
<1>2. /\ tmp \o pendings \in Seq(Functors)
      /\ Len(tmp \o pendings) = Len(tmp) + Len(pendings)
      /\ Len(tmp) \in Nat \ {0} /\ Len(pendings) \in Nat
  BY <1>1, ConcatProperties, EmptySeq
<1>3. tmp \o pendings # <<>>
  BY <1>2
<1>4. Head(tmp \o pendings) = Head(tmp)
  <2>1. (tmp \o pendings)[1] = tmp[1]
    BY <1>1, <1>2, ConcatProperties
  <2> QED  BY <1>1, <1>2, <1>3, <2>1
<1>5. Tail(tmp \o pendings) = Tail(tmp) \o pendings
  <2>1. /\ Tail(tmp) \in Seq(Functors) /\ Len(Tail(tmp)) = Len(tmp) - 1
        /\ Tail(tmp \o pendings) \in Seq(Functors)
        /\ Len(Tail(tmp \o pendings)) = Len(tmp) + Len(pendings) - 1
        /\ Tail(tmp) \o pendings \in Seq(Functors)
        /\ Len(Tail(tmp) \o pendings) = Len(tmp) - 1 + Len(pendings)
    BY <1>1, <1>2, <1>3, HeadTailProperties, ConcatProperties
  <2>2. ASSUME NEW i \in 1..(Len(tmp) + Len(pendings) - 1)
        PROVE  Tail(tmp \o pendings)[i] = (Tail(tmp) \o pendings)[i]
    <3>1. Tail(tmp \o pendings)[i] = (tmp \o pendings)[i + 1]
      BY <1>2, <1>3, <2>1, HeadTailProperties
    <3>2. CASE i <= Len(tmp) - 1
      BY <3>1, <3>2, <1>1, <1>2, <2>1, HeadTailProperties, ConcatProperties
    <3>3. CASE i > Len(tmp) - 1
      BY <3>1, <3>3, <1>1, <1>2, <2>1, ConcatProperties
    <3> QED  BY <3>2, <3>3, <1>2
  <2> QED  BY <2>1, <2>2, <1>2, SeqEqual
<1> QED  BY <1>1, <1>3, <1>4, <1>5 DEF Executor!Run

\* The eventfd queue does what runInLoop promises another thread: Eventor
\* implements FunctorExecutor.
THEOREM EventorImplementsExecutor == Spec => ImplementsExecutor
<1>1. Init => Executor!ExecutorInit
  BY ConcatEmptySeq, EmptySeq DEF Init, Executor!ExecutorInit
<1>2. IInv /\ [Next]_vars => [Executor!ExecutorNext]_<<tmp \o pendings, executed>>
  <2> SUFFICES ASSUME IInv, [Next]_vars
               PROVE  [Executor!ExecutorNext]_<<tmp \o pendings, executed>>
    OBVIOUS
  <2>1. ASSUME NEW p \in Producers, AddEventcbPush(p)
        PROVE  Executor!ExecutorNext
    BY <2>1, PushSubmits DEF Executor!ExecutorNext
  <2>2. CASE DoPenddingRun
    BY <2>2, RunRuns DEF Executor!ExecutorNext
  <2>3. CASE DoPenddingSwap
    BY <2>3, SwapStutters
  <2>4. ASSUME NEW p \in Producers,
               RunInLoop(p) \/ AddEventcbLock(p) \/ WakeUp(p) \/ AddEventcbReturn(p)
        PROVE  UNCHANGED <<tmp \o pendings, executed>>
    BY <2>4 DEF RunInLoop, AddEventcbLock, WakeUp, AddEventcbReturn
  <2>5. CASE \/ LoopStart \/ LoopTest \/ WaitEpollReady \/ WaitEpollOther
             \/ HandleRead \/ DoPenddingLock \/ DoPenddingReturn \/ Unloop
    BY <2>5 DEF LoopStart, LoopTest, WaitEpollReady, WaitEpollOther, HandleRead,
                DoPenddingLock, DoPenddingReturn, Unloop
  <2>6. CASE UNCHANGED vars
    BY <2>6 DEF vars
  <2> QED
    BY <2>1, <2>2, <2>3, <2>4, <2>5, <2>6 DEF Next, AddEventcb, LoopStep
<1> QED
  BY <1>1, <1>2, AlwaysIInv, PTL DEF Spec, ImplementsExecutor, Executor!ExecutorSpec

-----------------------------------------------------------------------------
(* The task queue and the thread pool: the inductive invariant.             *)

\* The mutex is held between two steps exactly by a worker inside pop.
MutexHeld == \A w \in Workers : wpc[w] \in {"wait", "front"} <=> queueMutex = w

\* An adder inside push has a number for its task.
PushingHasTask == \A a \in Adders : apc[a] = "push" => added[a] \in 1..MaxPerAdder

\* There are no workers before start, none that runs after stop, and a worker holds
\* a task only while it runs it.
WorkersFollowOwner ==
  \A w \in Workers : /\ spc = "created" => wpc[w] = "unborn"
                     /\ spc = "stopped" => wpc[w] = "done"
                     /\ wpc[w] # "run" => task[w] = NoTask

PoolIInv ==
  /\ PoolTypeOK /\ MutexHeld /\ PushingHasTask /\ WorkersFollowOwner
  /\ BoundedQueue /\ FrontIsThere /\ TasksExactlyOnceInOrder

-----------------------------------------------------------------------------
\* notify_one only shrinks a wait set.
LEMMA NotifyOneShrinks ==
  ASSUME NEW W, NEW X \in AfterNotifyOne(W)
  PROVE  X \subseteq W
BY DEF AfterNotifyOne

\* The initial state satisfies the invariant.
LEMMA PoolInitIInv == PoolInit => PoolIInv
<1> SUFFICES ASSUME PoolInit
             PROVE  PoolIInv
  OBVIOUS
<1>1. PoolTypeOK
  <2>1. /\ <<>> \in Seq(Tasks)
        /\ [a \in Adders |-> "idle"] \in [Adders -> AdderPCs]
        /\ [a \in Adders |-> 0] \in [Adders -> 0..MaxPerAdder]
    BY MaxPerAdderNat DEF AdderPCs
  <2>2. /\ [w \in Workers |-> "unborn"] \in [Workers -> WorkerPCs]
        /\ [w \in Workers |-> NoTask] \in [Workers -> Tasks \cup {NoTask}]
    BY DEF WorkerPCs
  <2> QED
    BY <2>1, <2>2 DEF PoolInit, PoolTypeOK, OwnerPCs
<1>2. MutexHeld /\ PushingHasTask /\ FrontIsThere /\ WorkersFollowOwner
  BY NoWorkerIsNone DEF PoolInit, MutexHeld, PushingHasTask, FrontIsThere, WorkersFollowOwner
<1>3. BoundedQueue
  BY QueueSizePositive, EmptySeq DEF PoolInit, BoundedQueue
<1>4. TasksExactlyOnceInOrder
  BY ConcatEmptySeq, EmptySeq DEF PoolInit, TasksExactlyOnceInOrder
<1> QED
  BY <1>1, <1>2, <1>3, <1>4 DEF PoolIInv

\* A step that leaves the queue and its history alone keeps its properties.
LEMMA QueueUntouched ==
  ASSUME PoolIInv, UNCHANGED <<queue, pushed, taken>>
  PROVE  BoundedQueue' /\ TasksExactlyOnceInOrder'
BY DEF PoolIInv, BoundedQueue, TasksExactlyOnceInOrder

\* addTask, up to the lock.
LEMMA AddTaskIInv ==
  ASSUME NEW a \in Adders, PoolIInv, AddTask(a)
  PROVE  PoolIInv'
<1> USE DEF PoolIInv
<1>1. PoolTypeOK'
  BY MaxPerAdderNat DEF AddTask, PoolTypeOK, AdderPCs, queueVars, ownerVars, workerVars, history
<1>2. MutexHeld' /\ FrontIsThere' /\ WorkersFollowOwner'
  BY DEF AddTask, MutexHeld, FrontIsThere, WorkersFollowOwner, isEmpty, queueVars, ownerVars,
         workerVars
<1>3. PushingHasTask'
  BY MaxPerAdderNat DEF AddTask, PushingHasTask, PoolTypeOK
<1>4. BoundedQueue' /\ TasksExactlyOnceInOrder'
  BY QueueUntouched DEF AddTask, queueVars, history
<1> QED
  BY <1>1, <1>2, <1>3, <1>4

\* push: it waits, or it adds a task to a queue that has room.
LEMMA PushIInv ==
  ASSUME NEW a \in Adders, PoolIInv, Push(a)
  PROVE  PoolIInv'
<1> USE DEF PoolIInv
<1>0. /\ queueMutex = NoWorker /\ apc[a] = "push"
      /\ UNCHANGED <<queueMutex, notExit, isExit, spc, atStop, added, wpc, task, taken>>
  BY DEF Push, ownerVars, workerVars
<1>1. CASE isFull /\ fullWaiters' = fullWaiters \cup {a}
           /\ UNCHANGED <<queue, pushed, apc, emptyWaiters>>
  <2>1. PoolTypeOK'
    BY <1>0, <1>1 DEF PoolTypeOK
  <2>2. MutexHeld' /\ PushingHasTask' /\ FrontIsThere' /\ WorkersFollowOwner'
    BY <1>0, <1>1 DEF MutexHeld, PushingHasTask, FrontIsThere, WorkersFollowOwner, isEmpty
  <2>3. BoundedQueue' /\ TasksExactlyOnceInOrder'
    BY <1>0, <1>1, QueueUntouched
  <2> QED
    BY <2>1, <2>2, <2>3
<1>2. CASE /\ ~isFull
           /\ queue' = Append(queue, <<a, added[a]>>)
           /\ pushed' = Append(pushed, <<a, added[a]>>)
           /\ apc' = [apc EXCEPT ![a] = "idle"]
           /\ emptyWaiters' \in AfterNotifyOne(emptyWaiters)
           /\ UNCHANGED fullWaiters
  <2>1. <<a, added[a]>> \in Tasks
    BY <1>0 DEF PushingHasTask, Tasks
  <2>2. queue \in Seq(Tasks) /\ pushed \in Seq(Tasks) /\ taken \in Seq(Tasks)
    BY DEF PoolTypeOK
  <2>3. queue' \in Seq(Tasks) /\ pushed' \in Seq(Tasks) /\ Len(queue') = Len(queue) + 1
    BY <1>2, <2>1, <2>2
  <2>4. PoolTypeOK'
    <3>1. emptyWaiters' \subseteq Workers
      BY <1>2, NotifyOneShrinks DEF PoolTypeOK
    <3>2. apc' \in [Adders -> AdderPCs]
      BY <1>2 DEF PoolTypeOK, AdderPCs
    <3> QED
      BY <1>0, <1>2, <2>3, <3>1, <3>2 DEF PoolTypeOK
  <2>5. MutexHeld' /\ PushingHasTask' /\ WorkersFollowOwner'
    BY <1>0, <1>2 DEF MutexHeld, PushingHasTask, WorkersFollowOwner, PoolTypeOK
  <2>6. FrontIsThere'
    \* No worker is at front while the mutex is free.
    BY <1>0, NoWorkerIsNone DEF FrontIsThere, MutexHeld
  <2>7. BoundedQueue'
    BY <1>2, <2>2, <2>3, QueueSizePositive, LenProperties DEF BoundedQueue, isFull
  <2>8. TasksExactlyOnceInOrder'
    <3>1. taken \o Append(queue, <<a, added[a]>>) = Append(taken \o queue, <<a, added[a]>>)
      BY <2>1, <2>2, AppendConcat
    <3> QED
      BY <1>0, <1>2, <3>1 DEF TasksExactlyOnceInOrder
  <2> QED
    BY <2>4, <2>5, <2>6, <2>7, <2>8
<1> QED
  BY <1>1, <1>2 DEF Push

\* The steps of a worker around the critical section, and the wait.
LEMMA WorkerIInv ==
  ASSUME NEW w \in Workers, PoolIInv,
         DoTaskTest(w) \/ PopTest(w) \/ PopWait(w) \/ RunTask(w)
  PROVE  PoolIInv'
<1> USE DEF PoolIInv
<1>1. UNCHANGED <<queue, pushed, taken, notExit, apc, added, fullWaiters, isExit, spc, atStop>>
  BY DEF DoTaskTest, PopTest, PopWait, RunTask, queueVars, ownerVars, adderVars, history
<1>2. BoundedQueue' /\ TasksExactlyOnceInOrder' /\ PushingHasTask' /\ WorkersFollowOwner'
  <2>1. WorkersFollowOwner'
    BY <1>1 DEF DoTaskTest, PopTest, PopWait, RunTask, WorkersFollowOwner, PoolTypeOK
  <2> QED
    BY <1>1, <2>1, QueueUntouched DEF PushingHasTask
<1>3. CASE DoTaskTest(w) \/ RunTask(w)
  <2>1. PoolTypeOK'
    BY <1>1, <1>3 DEF DoTaskTest, RunTask, PoolTypeOK, WorkerPCs, queueVars
  <2>2. MutexHeld' /\ FrontIsThere'
    BY <1>1, <1>3 DEF DoTaskTest, RunTask, PoolTypeOK, MutexHeld, FrontIsThere, isEmpty, queueVars
  <2> QED
    BY <1>2, <2>1, <2>2
<1>4. CASE PopTest(w)
  <2>1. PoolTypeOK'
    BY <1>1, <1>4 DEF PopTest, PoolTypeOK, WorkerPCs
  <2>2. MutexHeld'
    BY <1>4, NoWorkerIsNone DEF PopTest, PoolTypeOK, MutexHeld
  <2>3. FrontIsThere'
    BY <1>1, <1>4 DEF PopTest, PoolTypeOK, FrontIsThere, isEmpty
  <2> QED
    BY <1>2, <2>1, <2>2, <2>3
<1>5. CASE PopWait(w)
  <2>1. PoolTypeOK'
    BY <1>1, <1>5 DEF PopWait, PoolTypeOK, WorkerPCs
  <2>2. MutexHeld'
    BY <1>5, NoWorkerIsNone DEF PopWait, PoolTypeOK, MutexHeld
  <2>3. FrontIsThere'
    BY <1>1, <1>5 DEF PopWait, PoolTypeOK, FrontIsThere, isEmpty
  <2> QED
    BY <1>2, <2>1, <2>2, <2>3
<1> QED
  BY <1>3, <1>4, <1>5

\* pop: the front moves from the queue to the worker.
LEMMA PopFrontIInv ==
  ASSUME NEW w \in Workers, PoolIInv, PopFront(w)
  PROVE  PoolIInv'
<1> USE DEF PoolIInv
<1>0. /\ wpc[w] = "front" /\ queueMutex' = NoWorker /\ wpc' = [wpc EXCEPT ![w] = "run"]
      /\ UNCHANGED <<emptyWaiters, notExit, isExit, spc, atStop, apc, added, pushed>>
  BY DEF PopFront, ownerVars, adderVars
<1>1. queueMutex = w
  BY <1>0 DEF MutexHeld
<1>2. MutexHeld' /\ PushingHasTask' /\ WorkersFollowOwner'
  <2>1. MutexHeld' /\ PushingHasTask'
    BY <1>0, <1>1, NoWorkerIsNone DEF MutexHeld, PushingHasTask, PoolTypeOK
  <2>2. \E t : task' = [task EXCEPT ![w] = t]
    BY DEF PopFront
  <2>3. WorkersFollowOwner'
    BY <1>0, <2>2 DEF WorkersFollowOwner, PoolTypeOK
  <2> QED
    BY <2>1, <2>3
<1>3. FrontIsThere'
  \* No other worker is inside the critical section.
  BY <1>0, <1>1, <1>2, NoWorkerIsNone DEF FrontIsThere, MutexHeld
<1>4. wpc' \in [Workers -> WorkerPCs]
  BY <1>0 DEF PoolTypeOK, WorkerPCs
<1>5. CASE ~notExit /\ task' = [task EXCEPT ![w] = NoTask]
           /\ UNCHANGED <<taken, queue, fullWaiters>>
  <2>1. PoolTypeOK'
    BY <1>0, <1>4, <1>5 DEF PoolTypeOK
  <2>2. BoundedQueue' /\ TasksExactlyOnceInOrder'
    BY <1>0, <1>5, QueueUntouched
  <2> QED
    BY <1>2, <1>3, <2>1, <2>2
<1>6. CASE /\ notExit
           /\ task' = [task EXCEPT ![w] = Head(queue)]
           /\ taken' = Append(taken, Head(queue))
           /\ queue' = Tail(queue)
           /\ fullWaiters' \in AfterNotifyOne(fullWaiters)
  <2>1. queue # <<>>
    BY <1>0, <1>6 DEF FrontIsThere, isEmpty
  <2>2. queue \in Seq(Tasks) /\ pushed \in Seq(Tasks) /\ taken \in Seq(Tasks)
    BY DEF PoolTypeOK
  <2>3. /\ Head(queue) \in Tasks /\ Tail(queue) \in Seq(Tasks)
        /\ Len(Tail(queue)) = Len(queue) - 1
    BY <2>1, <2>2, HeadTailProperties
  <2>4. PoolTypeOK'
    <3>1. fullWaiters' \subseteq Adders
      BY <1>6, NotifyOneShrinks DEF PoolTypeOK
    <3>2. task' \in [Workers -> Tasks \cup {NoTask}] /\ taken' \in Seq(Tasks)
      BY <1>6, <2>2, <2>3 DEF PoolTypeOK
    <3>3. queue' \in Seq(Tasks) /\ queueMutex' \in Workers \cup {NoWorker}
      BY <1>0, <1>6, <2>3
    <3> QED
      BY <1>0, <1>4, <3>1, <3>2, <3>3 DEF PoolTypeOK
  <2>5. BoundedQueue'
    BY <1>6, <2>2, <2>3, QueueSizePositive, LenProperties DEF BoundedQueue
  <2>6. TasksExactlyOnceInOrder'
    BY <1>0, <1>6, <2>1, <2>2, ShiftHead DEF TasksExactlyOnceInOrder
  <2> QED
    BY <1>2, <1>3, <2>4, <2>5, <2>6
<1> QED
  BY <1>5, <1>6 DEF PopFront

\* Spurious wake-ups, start and stop leave the queue alone; wakeUp turns _notExit
\* off, which only weakens what front() needs.
LEMMA OtherIInv ==
  ASSUME PoolIInv, SpuriousWakeup \/ Start \/ Stop \/ OwnerStop
  PROVE  PoolIInv'
<1> USE DEF PoolIInv
<1>1. UNCHANGED <<queue, queueMutex, pushed, taken, apc, added, task>>
  BY DEF SpuriousWakeup, Start, Stop, OwnerStop, WakeUpSetExit, WakeUpNotifyAll, StopDrain,
         StopJoin, queueVars, adderVars, workerVars, history
<1>2. BoundedQueue' /\ TasksExactlyOnceInOrder' /\ PushingHasTask'
  BY <1>1, QueueUntouched DEF PushingHasTask
<1>3. CASE SpuriousWakeup
  <2>1. PoolTypeOK'
    BY <1>1, <1>3 DEF SpuriousWakeup, PoolTypeOK, ownerVars, workerVars
  <2>2. MutexHeld' /\ FrontIsThere' /\ WorkersFollowOwner'
    BY <1>1, <1>3 DEF SpuriousWakeup, MutexHeld, FrontIsThere, WorkersFollowOwner, isEmpty,
                      ownerVars, workerVars
  <2> QED
    BY <1>2, <2>1, <2>2
<1>4. CASE Stop \/ OwnerStop
  <2>1. PoolTypeOK'
    <3>1. Len(pushed) \in Nat
      BY LenProperties DEF PoolTypeOK
    <3>2. atStop' \in Nat
      BY <1>4, <3>1 DEF Stop, OwnerStop, WakeUpSetExit, WakeUpNotifyAll, StopDrain, StopJoin,
                        PoolTypeOK
    <3> QED
      BY <1>1, <1>4, <3>2
         DEF Stop, OwnerStop, WakeUpSetExit, WakeUpNotifyAll, StopDrain, StopJoin, PoolTypeOK,
             OwnerPCs, queueVars, workerVars
  <2>2. wpc' = wpc /\ (notExit' => notExit)
    BY <1>4 DEF Stop, OwnerStop, WakeUpSetExit, WakeUpNotifyAll, StopDrain, StopJoin,
                queueVars, workerVars
  <2>3. MutexHeld' /\ FrontIsThere'
    BY <1>1, <2>2 DEF MutexHeld, FrontIsThere, isEmpty
  <2>4. /\ spc' # "created"
        /\ spc' = "stopped" => \A w \in Workers : wpc[w] = "done"
    BY <1>4 DEF Stop, OwnerStop, WakeUpSetExit, WakeUpNotifyAll, StopDrain, StopJoin
  <2>5. WorkersFollowOwner'
    BY <1>1, <2>2, <2>4 DEF WorkersFollowOwner
  <2> QED
    BY <1>2, <2>1, <2>3, <2>5
<1>5. CASE Start
  <2>1. PoolTypeOK'
    <3>1. wpc' \in [Workers -> WorkerPCs] /\ spc' \in OwnerPCs
      BY <1>5 DEF Start, WorkerPCs, OwnerPCs
    <3> QED
      BY <1>1, <1>5, <3>1 DEF Start, PoolTypeOK, queueVars
  <2>2. ASSUME NEW w \in Workers
        PROVE  queueMutex # w /\ task[w] = NoTask
    <3>1. wpc[w] = "unborn"
      BY <1>5 DEF Start, WorkersFollowOwner
    <3>2. task[w] = NoTask
      BY <3>1 DEF WorkersFollowOwner
    <3>3. queueMutex # w
      BY <3>1 DEF MutexHeld
    <3> QED
      BY <3>2, <3>3
  <2>3. MutexHeld' /\ FrontIsThere' /\ WorkersFollowOwner'
    BY <1>1, <1>5, <2>2 DEF Start, MutexHeld, FrontIsThere, WorkersFollowOwner
  <2> QED
    BY <1>2, <2>1, <2>3
<1> QED
  BY <1>3, <1>4, <1>5

\* Every step preserves the invariant.
LEMMA PoolNextIInv == PoolIInv /\ [PoolNext]_poolVars => PoolIInv'
<1> SUFFICES ASSUME PoolIInv, [PoolNext]_poolVars
             PROVE  PoolIInv'
  OBVIOUS
<1>1. CASE UNCHANGED poolVars
  <2>1. UNCHANGED <<queue, queueMutex, fullWaiters, emptyWaiters, notExit, isExit, apc, wpc, spc,
                    atStop, task, added, pushed, taken>>
    BY <1>1 DEF poolVars, queueVars, ownerVars, adderVars, workerVars, history
  <2>2. PoolTypeOK' /\ MutexHeld' /\ PushingHasTask' /\ WorkersFollowOwner'
    BY <2>1 DEF PoolIInv, PoolTypeOK, MutexHeld, PushingHasTask, WorkersFollowOwner
  <2>3. BoundedQueue' /\ FrontIsThere' /\ TasksExactlyOnceInOrder'
    BY <2>1, QueueUntouched DEF PoolIInv, FrontIsThere, isEmpty
  <2> QED
    BY <2>2, <2>3 DEF PoolIInv
<1>2. CASE \E a \in Adders : AddTask(a) \/ Push(a)
  BY <1>2, AddTaskIInv, PushIInv
<1>3. CASE \E w \in Workers : WorkerStep(w)
  BY <1>3, WorkerIInv, PopFrontIInv DEF WorkerStep
<1>4. CASE SpuriousWakeup \/ Start \/ Stop \/ OwnerStop
  BY <1>4, OtherIInv
<1> QED
  BY <1>1, <1>2, <1>3, <1>4 DEF PoolNext

-----------------------------------------------------------------------------
\* The types of ThreadPool.
THEOREM PoolTypeCorrect == PoolSpec => []PoolTypeOK
<1>1. PoolIInv => PoolTypeOK
  BY DEF PoolIInv
<1> QED
  BY PoolInitIInv, PoolNextIInv, <1>1, PTL DEF PoolSpec

\* The queue is never longer than _queueSize.
THEOREM QueueIsBounded == PoolSpec => []BoundedQueue
<1>1. PoolIInv => BoundedQueue
  BY DEF PoolIInv
<1> QED
  BY PoolInitIInv, PoolNextIInv, <1>1, PTL DEF PoolSpec

\* pop calls front() on a queue that has one.
THEOREM PopFindsATask == PoolSpec => []FrontIsThere
<1>1. PoolIInv => FrontIsThere
  BY DEF PoolIInv
<1> QED
  BY PoolInitIInv, PoolNextIInv, <1>1, PTL DEF PoolSpec

\* push and pop together keep the queue sound.
THEOREM QueueInvHolds == PoolSpec => []QueueInv
  BY PoolTypeCorrect, QueueIsBounded, PopFindsATask, PTL DEF QueueInv

\* No task is lost, duplicated or reordered between push and pop.
THEOREM TasksInOrder == PoolSpec => []TasksExactlyOnceInOrder
<1>1. PoolIInv => TasksExactlyOnceInOrder
  BY DEF PoolIInv
<1> QED
  BY PoolInitIInv, PoolNextIInv, <1>1, PTL DEF PoolSpec

\* The tasks counted when stop began were pushed by then, and the drain ends only when
\* they have left the queue.
Drained ==
  /\ atStop <= Len(pushed)
  /\ spc \in {"join", "stopped"} => atStop <= Len(taken)

\* pushed and taken only grow.
LEMMA HistoryGrows ==
  ASSUME PoolIInv, [PoolNext]_poolVars
  PROVE  /\ Len(pushed) \in Nat /\ Len(taken) \in Nat
         /\ Len(pushed') \in Nat /\ Len(taken') \in Nat
         /\ Len(pushed') >= Len(pushed) /\ Len(taken') >= Len(taken)
<1> USE DEF PoolIInv, PoolTypeOK
<1>1. /\ pushed \in Seq(Tasks) /\ taken \in Seq(Tasks)
      /\ pushed' \in Seq(Tasks) /\ taken' \in Seq(Tasks)
  BY PoolNextIInv
<1>2. pushed' = pushed \/ \E x : pushed' = Append(pushed, x)
  BY DEF PoolNext, WorkerStep, OwnerStop, AddTask, Push, DoTaskTest, PopTest, PopWait, PopFront,
         RunTask, SpuriousWakeup, Start, Stop, WakeUpSetExit, WakeUpNotifyAll, StopDrain,
         StopJoin, poolVars, history
<1>3. taken' = taken \/ \E x : taken' = Append(taken, x)
  BY DEF PoolNext, WorkerStep, OwnerStop, AddTask, Push, DoTaskTest, PopTest, PopWait, PopFront,
         RunTask, SpuriousWakeup, Start, Stop, WakeUpSetExit, WakeUpNotifyAll, StopDrain,
         StopJoin, poolVars, history
<1>4. Len(pushed') \in {Len(pushed), Len(pushed) + 1}
  BY <1>1, <1>2
<1>5. Len(taken') \in {Len(taken), Len(taken) + 1}
  BY <1>1, <1>3
<1>6. /\ Len(pushed) \in Nat /\ Len(taken) \in Nat
      /\ Len(pushed') \in Nat /\ Len(taken') \in Nat
  BY <1>1, LenProperties
<1> HIDE DEF PoolIInv, PoolTypeOK
<1> QED
  BY <1>4, <1>5, <1>6

\* The drain is the only way to the join, and the queue is empty then.
LEMMA DrainedStep ==
  ASSUME PoolIInv, Drained, [PoolNext]_poolVars
  PROVE  Drained'
<1>1. /\ Len(pushed) \in Nat /\ Len(taken) \in Nat
      /\ Len(pushed') \in Nat /\ Len(taken') \in Nat
      /\ Len(pushed') >= Len(pushed) /\ Len(taken') >= Len(taken)
  BY HistoryGrows
<1>2. atStop \in Nat
  BY DEF PoolIInv, PoolTypeOK
<1>3. CASE Stop
  <2>1. /\ atStop' = Len(pushed) /\ pushed' = pushed /\ spc' = "wakeUp"
    BY <1>3 DEF Stop, history
  <2> QED
    BY <1>1, <2>1 DEF Drained
<1>4. CASE StopDrain
  <2>1. /\ atStop' = atStop /\ pushed' = pushed /\ taken' = taken /\ queue = <<>>
    BY <1>4 DEF StopDrain, history, isEmpty
  <2>2. pushed = taken
    <3>1. taken \in Seq(Tasks) /\ pushed = taken \o queue
      BY DEF PoolIInv, PoolTypeOK, TasksExactlyOnceInOrder
    <3> QED
      BY <2>1, <3>1, ConcatEmptySeq
  <2> QED
    BY <1>1, <1>2, <2>1, <2>2 DEF Drained
<1>5. ASSUME ~Stop, ~StopDrain
      PROVE  /\ atStop' = atStop
             /\ spc' \in {"join", "stopped"} => spc \in {"join", "stopped"}
  BY <1>5
     DEF PoolNext, WorkerStep, OwnerStop, AddTask, Push, DoTaskTest, PopTest, PopWait, PopFront,
         RunTask, SpuriousWakeup, Start, WakeUpSetExit, WakeUpNotifyAll, StopJoin, poolVars,
         ownerVars
<1> QED
  BY <1>1, <1>2, <1>3, <1>4, <1>5 DEF Drained

\* Every task that was pushed before stop began has been taken and run when stop returns.
THEOREM StopRunsTasks == PoolSpec => []StopRunsWhatWasAdded
<1>1. PoolInit => Drained
  BY DEF PoolInit, Drained
<1>2. PoolIInv /\ Drained => StopRunsWhatWasAdded
  <2> SUFFICES ASSUME PoolIInv, Drained, spc = "stopped"
               PROVE  Len(taken) >= atStop /\ \A w \in Workers : task[w] = NoTask
    BY DEF StopRunsWhatWasAdded
  <2>1. \A w \in Workers : task[w] = NoTask
    BY DEF PoolIInv, WorkersFollowOwner
  <2>2. atStop \in Nat /\ Len(taken) \in Nat
    BY LenProperties DEF PoolIInv, PoolTypeOK
  <2> QED
    BY <2>1, <2>2 DEF Drained
<1> QED
  BY PoolInitIInv, PoolNextIInv, DrainedStep, <1>1, <1>2, PTL DEF PoolSpec

=============================================================================

-------------------------- MODULE FunctorExecutor --------------------------
(***************************************************************************)
(* What EventLoop::runInLoop promises a caller on another thread: the       *)
(* functors it accepts are run exactly once, one at a time, in the order in *)
(* which they were accepted.  Eventor.tla implements this specification.    *)
(***************************************************************************)
EXTENDS Naturals, Sequences

CONSTANT Functors

VARIABLES waiting,  \* accepted and not yet run, oldest first
          done      \* run, oldest first

ExecutorInit == waiting = <<>> /\ done = <<>>

\* A functor is accepted at most once.
Submit(f) ==
  /\ \A i \in 1..Len(waiting) : waiting[i] # f
  /\ \A i \in 1..Len(done) : done[i] # f
  /\ waiting' = Append(waiting, f)
  /\ done' = done

Run ==
  /\ waiting # <<>>
  /\ done' = Append(done, Head(waiting))
  /\ waiting' = Tail(waiting)

ExecutorNext == Run \/ \E f \in Functors : Submit(f)

ExecutorSpec == ExecutorInit /\ [][ExecutorNext]_<<waiting, done>>

=============================================================================

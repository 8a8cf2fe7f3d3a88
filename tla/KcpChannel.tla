----------------------------- MODULE KcpChannel -----------------------------
(***************************************************************************)
(* What the two ends of a KCP conversation promise their users: packets are *)
(* read in the order in which they were sent, each once, none that was not  *)
(* sent.  That they are read in the end is a property of its own (see Kcp). *)
(***************************************************************************)
EXTENDS Naturals, Sequences

CONSTANT MaxPackets    \* bound: packets sent

VARIABLES given,   \* packets accepted by ikcp_send: 1..given
          read     \* packets returned by ikcp_recv, in order

\* Some packets may have been given and not read when the conversation is found.
Init == given \in 0..MaxPackets /\ read = <<>>

Give == /\ given < MaxPackets
        /\ given' = given + 1
        /\ UNCHANGED read

Read == /\ Len(read) < given
        /\ read' = Append(read, Len(read) + 1)
        /\ UNCHANGED given

Next == Give \/ Read

Spec == Init /\ [][Next]_<<given, read>>
=============================================================================

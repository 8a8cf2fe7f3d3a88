--------------------------- MODULE MCRtspConnect ---------------------------
(* Instances of RtspConnect for TLC: which dialogues the cameras hold.      *)
EXTENDS RtspConnect, TLC

CONSTANTS c1, c2, c3

OneConn == {c1}
ThreeConns == {c1, c2, c3}

\* Every connection has a loop of its own, named after it.
OneLoop == [c \in OneConn |-> c]
OwnLoop == [c \in ThreeConns |-> c]

\* The cameras are alike.
AlikeCameras == Permutations(ThreeConns)

\* Any six requests.
AnyRequests == [k \in 1..6 |-> Requests]
=============================================================================

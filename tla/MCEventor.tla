----------------------------- MODULE MCEventor -----------------------------
(* Instances of Eventor for TLC.                                           *)
EXTENDS Eventor, TLC

CONSTANTS p1, p2

MCProducers == {p1, p2}
=============================================================================

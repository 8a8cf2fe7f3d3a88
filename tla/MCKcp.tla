------------------------------- MODULE MCKcp -------------------------------
(* Instances of Kcp for TLC.                                                *)
EXTENDS Kcp

BothHops == {"camera", "viewer"}
NewOrWrapping == {0, SnMod - 2}
=============================================================================

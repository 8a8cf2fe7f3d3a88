--------------------------- MODULE MCReassembler ---------------------------
(* Instances of Reassembler for TLC.                                        *)
EXTENDS Reassembler

CONSTANT a

OneStream == {a}
=============================================================================

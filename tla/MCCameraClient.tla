--------------------------- MODULE MCCameraClient ---------------------------
(* The camera's program for TLC: frames of up to two packets.               *)
EXTENDS CameraClient
=============================================================================

------------------------------ MODULE MCStream ------------------------------
(* The stream controller and its frames, instantiated for TLC.             *)
EXTENDS StreamFrames
=============================================================================

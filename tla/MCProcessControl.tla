-------------------------- MODULE MCProcessControl --------------------------
(* Values for TLC *)
EXTENDS ProcessControl, TLC

AllModes == RunModes
=============================================================================

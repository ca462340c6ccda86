------------------------------ MODULE Absence ------------------------------
(***************************************************************************)
(* What stands for null and undefined in the modules that are read         *)
(* together: no entry, no folder, no device, no outcome yet.               *)
(***************************************************************************)
CONSTANTS None
=============================================================================

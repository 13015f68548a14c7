------------------------------ MODULE MCTraps ------------------------------
(* An instance of Traps for TLC: a device, an exception, the system calls. *)
EXTENDS Traps
=============================================================================

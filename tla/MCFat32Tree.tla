---------------------------- MODULE MCFat32Tree ----------------------------
(* Fat32 implements FileTree: an instance. *)
EXTENDS MCFat32, Fat32Tree

=============================================================================

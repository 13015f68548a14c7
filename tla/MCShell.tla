------------------------------ MODULE MCShell ------------------------------
(* An instance of Shell for TLC. *)
EXTENDS Shell, TLC

CONSTANTS root, d1, d2, fa, da, b1, b2, up

MCIds      == {root, d1, d2}
MCNames    == {fa, da}
MCDirNames == {da}

\* A file that a buffer of the shell holds, and one that is too long for it.
MCBuffers  == {<<b1>>, <<b1, b2>>}
MCSizes    == {BUFFER_SIZE}

\* No step depends on the last answer.
MCView ==
    <<dirs, nodes, failed, cwd, temp_cwd, line, pc, todo, places, file_buffer, copied>>

=============================================================================

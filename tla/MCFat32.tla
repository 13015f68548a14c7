------------------------------ MODULE MCFat32 ------------------------------
(* Instances of Fat32 for TLC. *)
EXTENDS Fat32, TLC

CONSTANTS fa, fb, da, n0, b1, b2, b0

MCNames    == {fa, fb, da}
MCTwoNames == {fa, da}
MCDirNames == {da}
MCBlocks   == {b1, b2}

\* A directory, a file of one cluster and one of two.
MCBuffers    == {<<>>, <<b1>>, <<b2, b1>>}

\* The directory and the longer file, on a larger disk.
MCTwoBuffers == {<<>>, <<b2, b1>>}

\* Nothing tells the two names that are not a directory's apart.
MCSymmetry == Permutations({fa, fb})

\* No step depends on the last answer: invariants of the disk may be checked
\* on states that differ in more than the answer.
DiskView == <<signature, fat, disk, index, fat_table, mounted, exhausted>>

=============================================================================

--------------------------- MODULE MCFat32Writes ---------------------------
(* Instances of Fat32Writes for TLC. *)
EXTENDS Fat32Writes, TLC

CONSTANTS fa, da, n0, b1, b2, b0

MCNames    == {fa, da}
MCDirNames == {da}
MCBlocks   == {b1, b2}
\* No step reads the last answer, nor the records past the count: a write first
\* stores the one record that its new count takes in.
Recorded ==
    LET next == IF call.op = "write" /\ \A i \in DOMAIN pending :
                                            pending[i].to # "index"
                THEN 1 ELSE 0
    IN  {i \in DOMAIN index : i <= saved.fat[INDEX] + next}

WritesView ==
    <<signature, fat, disk, [i \in Recorded |-> index[i]], fat_table, mounted, pending,
      call, saved.signature, saved.fat, saved.disk, resets>>

\* After a stop: only disks without damage, and calls on at most one entry.
AfterStop == SavedSound /\ (resets > 0 => Cardinality(Saved!Live) <= 1)

\* A directory, a file of two clusters.
MCBuffers  == {<<>>, <<b2, b1>>}

=============================================================================

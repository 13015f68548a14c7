------------------------------ MODULE Fat32Tree ------------------------------
(***************************************************************************)
(* The disk of Fat32 seen as the tree of FileTree: the refinement mapping. *)
(* Directories are identified by their cluster.                            *)
(***************************************************************************)
EXTENDS Fat32

\* The clusters of a file, from its first one.
ChainAt(f, head) ==
    CHOOSE ch \in SeqUpTo(Data, MaxFragments) : IsChain(f, ch) /\ ch[1] = head

\* A name stands for a directory by its cluster, for a file by the payloads
\* along its chain.
NodeAt(e) ==
    [dir  |-> EntryAt(e).dir,
     id   |-> IF EntryAt(e).dir THEN HeadOf(e) ELSE ROOT,
     data |-> IF EntryAt(e).dir THEN <<>> ELSE Payload(ChainAt(fat, HeadOf(e)))]

KeyOf(e) == <<e[1], EntryAt(e).name>>

SlotOf(key) == CHOOSE e \in Live : KeyOf(e) = key

TreeDirs  == Directories \cup {ROOT}

TreeNodes == [key \in IF exhausted THEN {} ELSE {KeyOf(e) : e \in Live}
                 |-> NodeAt(SlotOf(key))]

TreeReply == [reply EXCEPT !.data =
                 IF reply.op = "read_directory" THEN <<>> ELSE @]

Tree == INSTANCE FileTree WITH
    Ids       <- Parents,
    Root      <- ROOT,
    Sizes     <- 1 .. MaxFragments,
    LengthOf  <- Len,
    dirs      <- TreeDirs,
    nodes     <- TreeNodes,
    reply     <- TreeReply,
    failed    <- exhausted

\* Whatever the driver does, seen as directories and named files, is what
\* FileTree allows: reads return what was written, a refused call changes
\* nothing, a call on one name changes no other, nothing is lost in a restart.
TreeSpec == Tree!Spec

=============================================================================

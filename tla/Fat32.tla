------------------------------- MODULE Fat32 -------------------------------
(***************************************************************************)
(* The file system driver of the kernel, filesystem/fat32.c: a cluster     *)
(* chain allocator (the FAT), 64-entry directory tables and a name index,  *)
(* all kept on one ATA disk.                                               *)
(*                                                                         *)
(* Every system call of the kernel runs to its end with interrupts off, so *)
(* one action is one whole call of the driver.  The module Fat32Proofs     *)
(* proves about this module, FileTree says what it promises to a caller.   *)
(***************************************************************************)
EXTENDS Integers, Sequences, FiniteSets, Functions

CONSTANTS
    N,              \* CLUSTER_MAP_SIZE: clusters of the disk (512 in the code)
    DirLength,      \* entries of a directory table, entry 0 is its header (64)
    IndexCapacity,  \* whole index records that 3 clusters store (409)
    Names,          \* the 8.3 names requests use
    DirNames,       \* those of them whose extension is "dir"
    NoName,         \* the eleven zero bytes of an entry that was reset
    Blocks,         \* payloads of one cluster (never a directory table)
    NoBlock,        \* the payload that is all zeros
    Buffers,        \* what a write is given: sequences of cluster payloads,
                    \* <<>> asks for a directory
    MaxFragments    \* bound: clusters in the buffer of one write or read

FAT_CLUSTER  == 1
ROOT         == 2
INDEX        == 3
SUGAR_PARENT == 5   \* kernel.c creates sugar.dir in cluster number 5
FIRST_DATA   == 8

EMPTY        == 0
EOF          == 268435455      \* FAT32_FAT_END_OF_FILE, CLUSTER_1_VALUE
CLUSTER_0    == 268435440      \* CLUSTER_0_VALUE
NOCLUSTER    == -1             \* what get_empty_cluster returns on a full disk

ASSUME SizesAssumption ==
    /\ N \in Nat /\ N > FIRST_DATA /\ N < CLUSTER_0
    /\ DirLength \in Nat \ {0}
    /\ IndexCapacity \in Nat /\ IndexCapacity <= N
    /\ MaxFragments \in Nat \ {0}

ASSUME NamesAssumption ==
    /\ NoName \notin Names
    /\ DirNames \subseteq Names
    /\ NoBlock \notin Blocks

ASSUME BuffersAssumption ==
    \A buf \in Buffers : buf \in Seq(Blocks) /\ Len(buf) <= MaxFragments

Clusters == 0 .. (N - 1)
Data     == FIRST_DATA .. (N - 1)   \* what get_empty_cluster may hand out
Slots    == 1 .. (DirLength - 1)    \* entries after the table's header

\* The parents a request names: what the shell reaches from ROOT, the fixed
\* number of kernel.c, and any data cluster (the host tool's command line).
Parents  == {ROOT, SUGAR_PARENT} \cup Data

VARIABLES
    signature,  \* the boot sector carries fs_signature
    fat,        \* the FAT on disk, cluster 1
    disk,       \* the other clusters of the disk
    index,      \* the name index on disk, clusters 3 to 5
    fat_table,  \* driver_state.fat_table, the copy in memory
    mounted,    \* initialize_filesystem_fat32 has returned
    reply,      \* answer of the last call
    exhausted   \* an allocation has failed inside a write (history variable)

vars == <<signature, fat, disk, index, fat_table, mounted, reply, exhausted>>

----------------------------------------------------------------------------
(* Data structures. *)

Entry == [name : Names \cup {NoName}, dir : BOOLEAN, notempty : BOOLEAN,
          undelete : BOOLEAN, cl : Clusters \cup {NOCLUSTER}]

FreeEntry == [name |-> NoName, dir |-> FALSE, notempty |-> FALSE,
              undelete |-> FALSE, cl |-> 0]

\* One cluster: a directory table (dir, with its header's name, parent and
\* user_attribute, and its entries), a file's payload, or zeros.
Content == [dir : BOOLEAN, name : Names \cup {NoName}, up : Clusters,
            notempty : BOOLEAN, slot : [Slots -> Entry],
            data : Blocks \cup {NoBlock}]

Blank == [dir |-> FALSE, name |-> NoName, up |-> 0, notempty |-> FALSE,
          slot |-> [s \in Slots |-> FreeEntry], data |-> NoBlock]

\* Mutant: the header of a new table names the root as the parent.
DirTable_AtRoot(name, up) ==
    [Blank EXCEPT !.dir = TRUE, !.name = name, !.up = ROOT]

DirTable(name, up) == [Blank EXCEPT !.dir = TRUE, !.name = name, !.up = up]

FileBlock(block) == [Blank EXCEPT !.data = block]

Record   == Names \X Parents   \* struct IndexEntry
NoRecord == <<NoName, 0>>      \* one that was never stored

Reply(op, code, data) == [op |-> op, code |-> code, data |-> data]

NoReply == Reply("none", 0, <<>>)

SeqUpTo(S, max) == UNION {[1 .. k -> S] : k \in 0 .. max}

----------------------------------------------------------------------------
(* Looking up. *)

\* The slot where the loop over the table stops: the first with that name.
FirstNamed(table, name) ==
    {s \in Slots : /\ table.slot[s].name = name
                   /\ \A t \in Slots : t < s => table.slot[t].name # name}

\* Mutant: the flag is not looked at.
FirstFree_One(table) == {s \in Slots : s = 1}

\* The slot a write takes: the first whose undelete flag is clear.
FirstFree(table) ==
    {s \in Slots : /\ ~table.slot[s].undelete
                   /\ \A t \in Slots : t < s => table.slot[t].undelete}

\* ch lists the clusters that the loops of read and delete visit from ch[1].
IsChain(f, ch) ==
    /\ ch # <<>>
    /\ \A i \in DOMAIN ch : f[ch[i]] = IF i < Len(ch) THEN ch[i + 1] ELSE EOF

FreeData(f) == {c \in Data : f[c] = EMPTY}

\* The clusters a write counts as available: from 2 on, not from FIRST_DATA.
Available(f) == {c \in 2 .. (N - 1) : f[c] = EMPTY}

\* Mutant: get_empty_cluster does not mark the cluster that it returns.
IsAllocation_Unmarked(f, cl) ==
    \A i \in DOMAIN cl :
        IF FreeData(f) = {} THEN cl[i] = NOCLUSTER
        ELSE cl[i] \in FreeData(f) /\ \A c \in FreeData(f) : cl[i] <= c

\* Mutant: get_empty_cluster takes any free cluster, not the first.
IsAllocation_AnyFree(f, cl) ==
    \A i \in DOMAIN cl :
        LET rest == FreeData(f) \ {cl[j] : j \in 1 .. (i - 1)}
        IN  IF rest = {} THEN cl[i] = NOCLUSTER ELSE cl[i] \in rest

\* cl are the successive results of get_empty_cluster.
IsAllocation(f, cl) ==
    \A i \in DOMAIN cl :
        LET rest == FreeData(f) \ {cl[j] : j \in 1 .. (i - 1)}
        IN  IF rest = {} THEN cl[i] = NOCLUSTER
                         ELSE cl[i] \in rest /\ \A c \in rest : cl[i] <= c

PositionIn(cl, c) == CHOOSE i \in DOMAIN cl : cl[i] = c

\* Mutant: the last cluster is left without its end mark.
Linked_Open(f, cl) ==
    [c \in Clusters |->
        IF \E i \in DOMAIN cl : cl[i] = c /\ i < Len(cl)
        THEN cl[PositionIn(cl, c) + 1] ELSE f[c]]

Linked(f, cl) ==
    [c \in Clusters |->
        IF \E i \in DOMAIN cl : cl[i] = c
        THEN LET i == PositionIn(cl, c)
             IN  IF i < Len(cl) THEN cl[i + 1] ELSE EOF
        ELSE f[c]]

----------------------------------------------------------------------------
(* The name index.  A call loads three clusters over a larger buffer on its *)
(* stack and stores three clusters: records past IndexCapacity are whatever *)
(* the stack held.  The buffer has room for N records; an insertion at a    *)
(* count of N or more writes past it, over the stack, and is not followed:  *)
(* no step.                                                                 *)

Garbage == IF fat[INDEX] <= IndexCapacity THEN {NoRecord}
                                          ELSE Record \cup {NoRecord}

Loaded(junk) ==
    [i \in 1 .. fat[INDEX] |-> IF i <= Len(index) THEN index[i] ELSE junk]

Stored(table) ==
    IF Len(table) <= IndexCapacity THEN table
                                   ELSE SubSeq(table, 1, IndexCapacity)

\* Mutant: the fields of the record are swapped.
InsertIndex_Swapped(name, parent, junk) ==
    index' = Stored(Append(Loaded(junk), <<parent, name>>))

\* insert_index: the record goes at the count, and the count is incremented.
InsertIndex(name, parent, junk) ==
    /\ fat[INDEX] < N
    /\ index' = Stored(Append(Loaded(junk), <<name, parent>>))

FirstRecord(table, record) ==
    {i \in DOMAIN table : /\ table[i] = record
                          /\ \A j \in DOMAIN table : j < i => table[j] # record}

\* Mutant: the records are shifted from one place too far on.
Without_OneLate(table, i) ==
    [j \in 1 .. (Len(table) - 1) |-> IF j <= i THEN table[j] ELSE table[j + 1]]

Without(table, i) ==
    [j \in 1 .. (Len(table) - 1) |-> IF j < i THEN table[j] ELSE table[j + 1]]

\* Mutant: the count is not decremented.
DeleteIndex_SameCount(name, parent, junk, count) ==
    LET table == Loaded(junk)
    IN  /\ count = fat[INDEX]
        /\ \E i \in FirstRecord(table, <<name, parent>>) :
             index' = Stored(Without(table, i))

\* delete_index, with the count it leaves.
DeleteIndex(name, parent, junk, count) ==
    LET table == Loaded(junk)
        found == FirstRecord(table, <<name, parent>>)
    IN  \/ /\ found = {}
           /\ index' = index
           /\ count = fat[INDEX]
        \/ \E i \in found :
             /\ index' = Stored(Without(table, i))
             /\ count = fat[INDEX] - 1

----------------------------------------------------------------------------
(* Starting and stopping. *)

ZeroTable == [c \in Clusters |-> EMPTY]

\* create_fat32, then init_index_file on the table it has written.
FormattedTable ==
    [c \in Clusters |-> IF c = 0 THEN CLUSTER_0
                        ELSE IF c \in {1, ROOT, 4, 5} THEN EOF ELSE EMPTY]

\* initialize_filesystem_fat32 on a disk without the signature.  The root's
\* parent is the root; its header's name is never read.
Format ==
    /\ ~mounted /\ ~signature
    /\ signature' = TRUE
    /\ fat' = FormattedTable
    /\ fat_table' = FormattedTable
    /\ disk' = [disk EXCEPT ![ROOT] = DirTable(NoName, ROOT)]
    /\ mounted' = TRUE
    /\ UNCHANGED <<index, reply, exhausted>>

\* Mutant: the FAT of a formatted disk is not read.
Load_NoCache ==
    /\ ~mounted /\ signature
    /\ mounted' = TRUE
    /\ UNCHANGED <<signature, fat, disk, index, fat_table, reply, exhausted>>

\* initialize_filesystem_fat32 on a disk that has it.
Load ==
    /\ ~mounted /\ signature
    /\ fat_table' = fat
    /\ mounted' = TRUE
    /\ UNCHANGED <<signature, fat, disk, index, reply, exhausted>>

\* The machine stops between two calls: the memory is lost.
PowerOff ==
    /\ mounted
    /\ mounted' = FALSE
    /\ fat_table' = ZeroTable
    /\ reply' = NoReply
    /\ UNCHANGED <<signature, fat, disk, index, exhausted>>

----------------------------------------------------------------------------
(* Calls.  Nothing is modelled after a write that ran out of clusters: the  *)
(* driver then holds cluster numbers that are outside its table.            *)

Calling == mounted /\ ~exhausted

\* A call that changes nothing on disk and reloads the FAT.
AnswerOnly(op, code, data) ==
    /\ reply' = Reply(op, code, data)
    /\ fat_table' = fat
    /\ UNCHANGED <<signature, fat, disk, index, mounted, exhausted>>

\* A call that changes nothing at all.
AnswerCached(op, code, data) ==
    /\ reply' = Reply(op, code, data)
    /\ UNCHANGED <<signature, fat, disk, index, fat_table, mounted, exhausted>>

\* Mutant: the loop looks at the first entry only.
IsDuplicate_FirstOnly(table, name) ==
    \E s \in Slots : s = 1 /\ table.slot[s].undelete /\ table.slot[s].name = name

IsDuplicate(table, name) ==
    \E s \in Slots : table.slot[s].undelete /\ table.slot[s].name = name

WriteInvalidParent(parent) ==
    /\ Calling
    /\ ~disk[parent].dir
    /\ AnswerOnly("write", 2, <<>>)

WriteAlreadyExists(parent, name) ==
    /\ Calling
    /\ disk[parent].dir
    /\ IsDuplicate(disk[parent], name)
    /\ AnswerOnly("write", 1, <<>>)

\* Too few clusters for the buffer, or no entry left in the parent.
WriteNoRoom(parent, name, buf) ==
    /\ Calling
    /\ disk[parent].dir
    /\ ~IsDuplicate(disk[parent], name)
    /\ \/ Cardinality(Available(fat)) < Len(buf)
       \/ FirstFree(disk[parent]) = {}
    /\ AnswerOnly("write", -1, <<>>)

\* The parent's table with the new entry.  The flag "not empty" goes to the
\* table's own header; the new entry is built with user_attribute 0.
WithEntry(table, s, name, isdir, c) ==
    [table EXCEPT !.notempty = TRUE,
                  !.slot[s] = [name |-> name, dir |-> isdir, notempty |-> FALSE,
                               undelete |-> TRUE, cl |-> c]]

\* The disk after a write whose clusters are cl.
Written(parent, s, name, buf, cl) ==
    [c \in Clusters |->
        IF c = parent THEN WithEntry(disk[c], s, name, buf = <<>>, cl[1])
        ELSE IF \E i \in DOMAIN cl : cl[i] = c
             THEN IF buf = <<>> THEN DirTable(name, parent)
                                ELSE FileBlock(buf[PositionIn(cl, c)])
             ELSE disk[c]]

\* A directory takes one cluster although its buffer needs none.
ClustersFor(buf) == IF buf = <<>> THEN 1 ELSE Len(buf)

WriteEntry(parent, name, buf) ==
    /\ Calling
    /\ disk[parent].dir
    /\ ~IsDuplicate(disk[parent], name)
    /\ Cardinality(Available(fat)) >= Len(buf)
    /\ \E s \in FirstFree(disk[parent]), junk \in Garbage,
          cl \in [1 .. ClustersFor(buf) -> Data \cup {NOCLUSTER}] :
         /\ IsAllocation(fat, cl)
         /\ disk' = Written(parent, s, name, buf, cl)
         /\ fat' = [Linked(fat, cl) EXCEPT ![INDEX] = fat[INDEX] + 1]
         /\ fat_table' = fat'
         /\ exhausted' = \E i \in DOMAIN cl : cl[i] = NOCLUSTER
         /\ InsertIndex(name, parent, junk)
    /\ reply' = Reply("write", 0, <<>>)
    /\ UNCHANGED <<signature, mounted>>

DeleteInvalidParent(parent) ==
    /\ Calling
    /\ ~disk[parent].dir
    /\ AnswerOnly("delete", -1, <<>>)

DeleteNotFound(parent, name) ==
    /\ Calling
    /\ disk[parent].dir
    /\ FirstNamed(disk[parent], name) = {}
    /\ AnswerOnly("delete", 1, <<>>)

\* The test "folder is not empty" reads user_attribute of the directory's entry
\* in its parent, which no write sets.
RefusesDelete(entry) == entry.dir /\ entry.notempty

\* Mutant: the flag undelete stays set.
Reset_KeepsFlag(entry) == [FreeEntry EXCEPT !.undelete = entry.undelete]

\* reset_entry leaves user_attribute alone.
Reset(entry) == [FreeEntry EXCEPT !.notempty = entry.notempty]

\* Mutant: the clusters are given back without being zeroed.
Erased_KeepsBytes(parent, s, gone) ==
    [disk EXCEPT ![parent].slot[s] = Reset(@)]

\* The disk, and the FAT, after the clusters of gone were deleted.
Erased(parent, s, gone) ==
    [c \in Clusters |->
        IF c = parent THEN [disk[c] EXCEPT !.slot[s] = Reset(@)]
        ELSE IF c \in gone THEN Blank ELSE disk[c]]

Freed(f, gone) == [c \in Clusters |-> IF c \in gone THEN EMPTY ELSE f[c]]

\* A directory gives back its one cluster, a file every cluster of its chain.
Occupies(entry, ch) ==
    IF entry.dir THEN ch = <<entry.cl>>
                 ELSE IsChain(fat, ch) /\ ch[1] = entry.cl

EraseEntry(parent, s) ==
    /\ \E junk \in Garbage, ch \in SeqUpTo(Data, MaxFragments),
          count \in {fat[INDEX] - 1, fat[INDEX]} :
         /\ Occupies(disk[parent].slot[s], ch)
         /\ DeleteIndex(disk[parent].slot[s].name, parent, junk, count)
         /\ disk' = Erased(parent, s, Range(ch))
         /\ fat' = [Freed(fat, Range(ch)) EXCEPT ![INDEX] = count]
         /\ fat_table' = fat'
    /\ reply' = Reply("delete", 0, <<>>)
    /\ UNCHANGED <<signature, mounted, exhausted>>

DeleteFound(parent, name) ==
    /\ Calling
    /\ disk[parent].dir
    /\ \E s \in FirstNamed(disk[parent], name) :
          IF RefusesDelete(disk[parent].slot[s])
          THEN AnswerOnly("delete", 2, <<>>)
          ELSE EraseEntry(parent, s)

----------------------------------------------------------------------------
(* Calls that only read.  read follows the FAT kept in memory. *)

ReadAt(entry, ch, size) ==
    /\ Len(ch) <= size
    /\ ch[1] = entry.cl
    /\ IsChain(fat_table, ch)

Payload(ch) == [i \in DOMAIN ch |-> disk[ch[i]].data]

ReadInvalidParent(parent) ==
    /\ Calling
    /\ ~disk[parent].dir
    /\ AnswerCached("read", -1, <<>>)

ReadNotFound(parent, name) ==
    /\ Calling
    /\ disk[parent].dir
    /\ FirstNamed(disk[parent], name) = {}
    /\ AnswerCached("read", 3, <<>>)

ReadNotAFile(parent, name) ==
    /\ Calling
    /\ disk[parent].dir
    /\ \E s \in FirstNamed(disk[parent], name) : disk[parent].slot[s].dir
    /\ AnswerCached("read", 1, <<>>)

\* The walk runs out of buffer before it meets the end of the chain.
ReadNotEnoughBuffer(parent, name, size) ==
    /\ Calling
    /\ disk[parent].dir
    /\ \E s \in FirstNamed(disk[parent], name) :
          /\ ~disk[parent].slot[s].dir
          /\ \A ch \in SeqUpTo(Data, size) :
                ch # <<>> => ~ReadAt(disk[parent].slot[s], ch, size)
    /\ AnswerCached("read", 2, <<>>)

ReadFile(parent, name, size) ==
    /\ Calling
    /\ disk[parent].dir
    /\ \E s \in FirstNamed(disk[parent], name),
          ch \in SeqUpTo(Data, size) \ {<<>>} :
         /\ ~disk[parent].slot[s].dir
         /\ ReadAt(disk[parent].slot[s], ch, size)
         /\ AnswerCached("read", 0, Payload(ch))

\* read_directory: on success the answer is the table of the directory.
ReadDirectory(parent, name) ==
    /\ Calling
    /\ LET found == FirstNamed(disk[parent], name)
       IN  \/ /\ ~disk[parent].dir
              /\ AnswerCached("read_directory", -1, <<>>)
           \/ /\ disk[parent].dir /\ found = {}
              /\ AnswerCached("read_directory", 2, <<>>)
           \/ \E s \in found :
                /\ disk[parent].dir /\ ~disk[parent].slot[s].dir
                /\ AnswerCached("read_directory", 1, <<>>)
           \/ \E s \in found :
                /\ disk[parent].dir /\ disk[parent].slot[s].dir
                /\ AnswerCached("read_directory", 0,
                                <<disk[disk[parent].slot[s].cl]>>)

\* move_to_child_directory: 0 when no entry has that name; the entry's
\* attribute is not looked at, its extension is.
MoveToChild(parent, name) ==
    /\ Calling
    /\ LET found == FirstNamed(disk[parent], name)
       IN  \/ /\ found = {}
              /\ AnswerCached("child", 0, <<>>)
           \/ \E s \in found :
                AnswerCached("child", disk[parent].slot[s].cl, <<>>)

MoveToParent(parent) ==
    /\ Calling
    /\ AnswerCached("parent", disk[parent].up, <<>>)

\* get_children: the names of the entries that are in use.
GetChildren(parent) ==
    /\ Calling
    /\ AnswerCached("children", 0,
          <<{disk[parent].slot[s].name : s \in Slots} \ {NoName}>>)

\* The directories the loop of get_dir_path visits: it follows the headers'
\* parents and stops at the root.  It looks at no attribute.
IsWayUp(way, d) ==
    IF way = <<>> THEN d = ROOT
    ELSE /\ way[1] = d
         /\ \A i \in DOMAIN way :
              /\ way[i] # ROOT
              /\ disk[way[i]].up = IF i < Len(way) THEN way[i + 1] ELSE ROOT

\* The names from the root on.  Where no way ends at the root, because an
\* ancestor was deleted, the call does not return: no step.
GetDirPath(d) ==
    /\ Calling
    /\ \E way \in SeqUpTo(Data, N - FIRST_DATA) :
         /\ IsWayUp(way, d)
         /\ AnswerCached("path", 0,
               [i \in DOMAIN way |-> disk[way[Len(way) + 1 - i]].name])

\* search_index reloads the FAT for the count of records.
SearchIndex(name) ==
    /\ Calling
    /\ \E junk \in Garbage :
         LET table == Loaded(junk)
             found == {i \in DOMAIN table : table[i][1] = name}
         IN  AnswerOnly("search", Cardinality(found),
                        <<{table[i][2] : i \in found}>>)

----------------------------------------------------------------------------
(* The specification. *)

Init ==
    /\ signature = FALSE
    /\ fat = ZeroTable
    /\ disk = [c \in Clusters |-> Blank]
    /\ index = <<>>
    /\ fat_table = ZeroTable
    /\ mounted = FALSE
    /\ reply = NoReply
    /\ exhausted = FALSE

Power == Format \/ Load \/ PowerOff

Write ==
    \E parent \in Parents, name \in Names, buf \in Buffers :
        \/ WriteInvalidParent(parent)
        \/ WriteAlreadyExists(parent, name)
        \/ WriteNoRoom(parent, name, buf)
        \/ WriteEntry(parent, name, buf)

Delete ==
    \E parent \in Parents, name \in Names :
        \/ DeleteInvalidParent(parent)
        \/ DeleteNotFound(parent, name)
        \/ DeleteFound(parent, name)

Read ==
    \E parent \in Parents, name \in Names, size \in 1 .. MaxFragments :
        \/ ReadInvalidParent(parent)
        \/ ReadNotFound(parent, name)
        \/ ReadNotAFile(parent, name)
        \/ ReadNotEnoughBuffer(parent, name, size)
        \/ ReadFile(parent, name, size)

\* The shell's "cat ." asks for the empty name, which every reset entry has.
ReadEmptyName ==
    \E parent \in Parents :
        \/ ReadNotFound(parent, NoName)
        \/ ReadNotEnoughBuffer(parent, NoName, 1)

\* The shell passes its working directory, and looks for directories only.
Directories == {c \in Parents : disk[c].dir}

Browse ==
    \/ \E parent \in Parents, name \in Names : ReadDirectory(parent, name)
    \/ \E parent \in Directories, name \in DirNames : MoveToChild(parent, name)
    \/ \E parent \in Directories : 
          MoveToParent(parent) \/ GetChildren(parent) \/ GetDirPath(parent)
    \/ \E name \in Names : SearchIndex(name)

Next == Power \/ Write \/ Delete \/ Read \/ ReadEmptyName \/ Browse

Spec == Init /\ [][Next]_vars

----------------------------------------------------------------------------
(* Type correctness. *)

Links == Nat \cup {NOCLUSTER}

\* Every variable keeps its type; the cells of the FAT are cluster numbers,
\* the count of the index records or one of the reserved values.
TypeOK ==
    /\ signature \in BOOLEAN /\ mounted \in BOOLEAN /\ exhausted \in BOOLEAN
    /\ fat \in [Clusters -> Links]
    /\ fat_table \in [Clusters -> Links]
    /\ disk \in [Clusters -> Content]
    /\ index \in Seq(Record \cup {NoRecord})
    /\ DOMAIN reply = {"op", "code", "data"}

----------------------------------------------------------------------------
(* Safety.  The properties speak of the disk as long as no write has run    *)
(* out of clusters.                                                         *)

\* An entry in use, <<directory, slot>>, in any directory table of the disk,
\* whether or not the root still leads to it.
Live == {e \in Parents \X Slots :
            disk[e[1]].dir /\ disk[e[1]].slot[e[2]].undelete}

EntryAt(e) == disk[e[1]].slot[e[2]]
HeadOf(e)  == EntryAt(e).cl

\* No cluster belongs to two owners: two entries never start at the same
\* cluster, two clusters of the FAT never link to the same one, and no link
\* leads into the first cluster of an entry.
NoCrossLink ==
    ~exhausted =>
        /\ \A e1, e2 \in Live : HeadOf(e1) = HeadOf(e2) => e1 = e2
        /\ \A c1, c2 \in Data : fat[c1] = fat[c2] /\ fat[c1] \in Data => c1 = c2
        /\ \A e \in Live, c \in Data : fat[c] # HeadOf(e)

\* Following an entry ends: a file's clusters form a chain with an end, each
\* holding a payload; a directory is one cluster that holds its table, whose
\* header names the directory and leads back to the parent.
EntriesLead ==
    ~exhausted =>
        \A e \in Live :
            IF EntryAt(e).dir
            THEN /\ HeadOf(e) \in Data
                 /\ fat[HeadOf(e)] = EOF
                 /\ disk[HeadOf(e)].dir
                 /\ disk[HeadOf(e)].up = e[1]
                 /\ disk[HeadOf(e)].name = EntryAt(e).name
            ELSE \E ch \in SeqUpTo(Data, MaxFragments) :
                    /\ IsChain(fat, ch)
                    /\ ch[1] = HeadOf(e)
                    /\ \A i \in DOMAIN ch : disk[ch[i]].data \in Blocks

\* A free cluster holds zeros, so that the table of a new directory and the
\* test "is the parent a directory" never see an older owner's bytes.
FreeIsBlank ==
    \A c \in Data : fat[c] = EMPTY => disk[c] = Blank

\* A directory never holds two entries in use with one name, and the two marks
\* of a free entry, the empty name that read and delete look at and the flag
\* that write looks at, agree.
NamesUnique ==
    \A e \in Live, s \in Slots :
        disk[e[1]].slot[s].name = EntryAt(e).name => s = e[2]

MarksAgree ==
    \A d \in Parents, s \in Slots :
        disk[d].slot[s].undelete <=> disk[d].slot[s].name # NoName

\* While the system runs, the copy of the FAT that read follows is the FAT.
CacheCoherent == mounted => fat_table = fat

\* The records that the count promises are all stored.  The two properties of
\* the index hold as long as this has held at all times: past the capacity an
\* insertion is not stored, and a deletion that then misses its record does not
\* count down, so that the count runs ahead of the files for good.
IndexRoom == fat[INDEX] <= IndexCapacity

\* As long as the index has always had room, every entry in use has its record
\* in it: whereis finds it.
IndexComplete ==
    ~exhausted /\ IndexRoom =>
        \A e \in Live : \E i \in DOMAIN index :
            index[i] = <<EntryAt(e).name, e[1]>>

\* As long as the index has always had room, it holds no more records than there
\* are files and directories on the disk: every deletion has counted down.
Starts == {c \in Data : fat[c] # EMPTY /\ \A b \in Data : fat[b] # c}

IndexFits ==
    ~exhausted => fat[INDEX] <= Cardinality(Starts)

----------------------------------------------------------------------------
(* The invariant that implies the others but those of the index. *)

\* A disk that was never formatted is all zeros.
Fresh ==
    /\ mounted => signature
    /\ ~signature => /\ fat = ZeroTable
                     /\ \A c \in Clusters : disk[c] = Blank

\* A cell of the FAT is free, or ends a chain, or links to a cluster in use.
LinksLead ==
    ~exhausted =>
        \A c \in Data : \/ fat[c] \in {EMPTY, EOF}
                        \/ fat[c] \in Data /\ fat[fat[c]] # EMPTY

\* A cluster is a table or a payload; no directory is an entry of itself.
TablesPlain ==
    /\ \A c \in Data : disk[c].dir => disk[c].data = NoBlock
    /\ ~exhausted => \A e \in Live : HeadOf(e) # e[1]

Consistent ==
    /\ TypeOK /\ Fresh /\ CacheCoherent
    /\ MarksAgree /\ NamesUnique /\ FreeIsBlank /\ TablesPlain
    /\ LinksLead /\ NoCrossLink /\ EntriesLead

----------------------------------------------------------------------------
(* What the comments of the driver say, and the driver does not do. *)

\* "delete a file or empty directory": a call that takes a directory away
\* found no entry in use in it.
DeletesEmptyOnly ==
    [][\A e \in Live : EntryAt(e).dir /\ e \notin Live'
           => \A s \in Slots : ~disk[HeadOf(e)].slot[s].undelete]_vars

\* "check if number of cluster avail in storage suffice": after a write that
\* reports success, the chains of the disk end in the FAT.
SuccessIsStored ==
    reply.op = "write" /\ reply.code = 0 =>
        \A e \in Live : \E ch \in SeqUpTo(Data, MaxFragments) :
            ch # <<>> /\ ch[1] = HeadOf(e) /\ IsChain(fat, ch)

=============================================================================

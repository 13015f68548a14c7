------------------------------ MODULE FileTree ------------------------------
(***************************************************************************)
(* What the file system driver promises to the shell: directories, named   *)
(* files in them, and answers that depend on nothing else.  Clusters,      *)
(* tables, caches and the index do not occur here.  Fat32 implements this  *)
(* module (Fat32Tree), across restarts of the machine too.                 *)
(***************************************************************************)
EXTENDS Integers, Sequences, FiniteSets

CONSTANTS
    Ids,        \* identities of directories; Root is one of them
    Root,
    Names, DirNames,
    Buffers,    \* contents of files, and <<>>, the request for a directory
    Sizes,      \* sizes of the buffers files are read into
    LengthOf(_) \* the size that a content takes

VARIABLES
    dirs,     \* directories that exist
    nodes,    \* what a name stands for in a directory
    reply,    \* answer of the last request
    failed    \* a write has reported success and lost data (history)

Keys == DOMAIN nodes

DirNode(id)    == [dir |-> TRUE, id |-> id, data |-> <<>>]
FileNode(data) == [dir |-> FALSE, id |-> Root, data |-> data]

With(key, node) ==
    [k \in Keys \cup {key} |-> IF k = key THEN node ELSE nodes[k]]

Only(kept) == [k \in kept |-> nodes[k]]

Answer(op, code, data) ==
    reply' = [op |-> op, code |-> code, data |-> data]

Init ==
    /\ dirs = {Root}
    /\ nodes = [k \in {} |-> DirNode(Root)]
    /\ reply = [op |-> "none", code |-> 0, data |-> <<>>]
    /\ failed = FALSE

\* The machine stops: files and directories stay.
Restart ==
    /\ Answer("none", 0, <<>>)
    /\ UNCHANGED <<dirs, nodes, failed>>

\* A request that finds nothing to do, and one that only looks.
Keep(op, code, data) ==
    /\ Answer(op, code, data)
    /\ UNCHANGED <<dirs, nodes, failed>>

Has(d, name) == <<d, name>> \in Keys

WriteRefused(d, name) ==
    \/ Keep("write", 2, <<>>) /\ d \notin dirs
    \/ Keep("write", 1, <<>>) /\ Has(d, name)
    \/ Keep("write", -1, <<>>) /\ d \in dirs /\ ~Has(d, name)

CreateFile(d, name, data) ==
    /\ Answer("write", 0, <<>>)
    /\ d \in dirs /\ ~Has(d, name) /\ data # <<>>
    /\ nodes' = With(<<d, name>>, FileNode(data))
    /\ UNCHANGED <<dirs, failed>>

CreateDirectory(d, name) ==
    /\ Answer("write", 0, <<>>)
    /\ d \in dirs /\ ~Has(d, name)
    /\ \E id \in Ids \ dirs :
         /\ dirs' = dirs \cup {id}
         /\ nodes' = With(<<d, name>>, DirNode(id))
    /\ UNCHANGED failed

\* The disk is full and the write says success: nothing is promised any more.
LoseWrite ==
    /\ Answer("write", 0, <<>>)
    /\ failed' = TRUE

Broken == failed /\ failed'

DeleteRefused(d, name) ==
    \/ Keep("delete", -1, <<>>) /\ d \notin dirs
    \/ Keep("delete", 1, <<>>) /\ d \in dirs /\ ~Has(d, name)

\* Deleting a directory takes the names in it along.
DeleteNode(d, name) ==
    /\ Answer("delete", 0, <<>>)
    /\ Has(d, name)
    /\ LET node == nodes[<<d, name>>]
           gone == IF node.dir THEN {node.id} ELSE {}
       IN  /\ dirs' = dirs \ gone
           /\ nodes' = Only({k \in Keys : k # <<d, name>> /\ k[1] \notin gone})
    /\ UNCHANGED failed

IsFile(d, name) == Has(d, name) /\ ~nodes[<<d, name>>].dir
IsDir(d, name)  == Has(d, name) /\ nodes[<<d, name>>].dir

\* A read gives back what was written under the name, or says why not.
Read(d, name, size) ==
    \/ Keep("read", -1, <<>>) /\ d \notin dirs
    \/ Keep("read", 3, <<>>) /\ d \in dirs /\ ~Has(d, name)
    \/ Keep("read", 1, <<>>) /\ IsDir(d, name)
    \/ /\ Keep("read", 2, <<>>)
       /\ IsFile(d, name)
       /\ LengthOf(nodes[<<d, name>>].data) > size
    \/ /\ IsFile(d, name)
       /\ LengthOf(nodes[<<d, name>>].data) <= size
       /\ Keep("read", 0, nodes[<<d, name>>].data)

\* The empty name is nobody's; a directory that has room answers "too large".
ReadEmptyName == \E code \in {-1, 2, 3} : Keep("read", code, <<>>)

ReadDirectory(d, name) ==
    \/ Keep("read_directory", -1, <<>>) /\ d \notin dirs
    \/ Keep("read_directory", 2, <<>>) /\ d \in dirs /\ ~Has(d, name)
    \/ Keep("read_directory", 1, <<>>) /\ IsFile(d, name)
    \/ Keep("read_directory", 0, <<>>) /\ IsDir(d, name)

\* The way down and the way up agree.
Child(d, name) ==
    \/ Keep("child", 0, <<>>) /\ ~Has(d, name)
    \/ \E id \in Ids :
        /\ Keep("child", id, <<>>)
        /\ Has(d, name)
        /\ IsDir(d, name) => id = nodes[<<d, name>>].id

Parent(d) ==
    \E id \in Ids :
        /\ Keep("parent", id, <<>>)
        /\ d = Root => id = Root
        /\ \A k \in Keys : nodes[k].dir /\ nodes[k].id = d => id = k[1]

UpTo(max, S) == UNION {[1 .. k -> S] : k \in 0 .. max}

\* way lists the directories from the root's child down to d, each under its
\* name in the one before.
IsWay(way, d) ==
    IF way = <<>> THEN d = Root
    ELSE /\ nodes[way[Len(way)]].id = d
         /\ \A i \in DOMAIN way :
              /\ nodes[way[i]].dir
              /\ way[i][1] = IF i = 1 THEN Root ELSE nodes[way[i - 1]].id

\* The length of the longest way: each step enters another directory.
Depth == Cardinality(dirs \ {Root})

\* get_dir_path names the directories on the way to d.  For a directory whose
\* ancestors were deleted nothing is promised.
Path(d) ==
    \E names \in UpTo(Depth, Names) :
        /\ \A way \in UpTo(Depth, Keys) :
              IsWay(way, d) => names = [i \in DOMAIN way |-> way[i][2]]
        /\ Keep("path", 0, names)

Children(d) == Keep("children", 0, <<{name \in Names : Has(d, name)}>>)

\* whereis: every directory that has the name is in the answer.
Search(name) ==
    \E found \in SUBSET Ids, count \in 0 .. (2 * Cardinality(Ids)) :
        /\ {d \in dirs : Has(d, name)} \subseteq found
        /\ count >= Cardinality(found)
        /\ Keep("search", count, <<found>>)

Next ==
    \/ Restart \/ LoseWrite \/ Broken \/ ReadEmptyName
    \/ \E d \in Ids, name \in Names :
        \/ WriteRefused(d, name)
        \/ \E data \in Buffers : CreateFile(d, name, data)
        \/ CreateDirectory(d, name)
        \/ DeleteRefused(d, name) \/ DeleteNode(d, name)
        \/ \E size \in Sizes : Read(d, name, size)
        \/ ReadDirectory(d, name)
    \/ \E d \in dirs, name \in DirNames : Child(d, name)
    \/ \E d \in dirs : Parent(d) \/ Path(d) \/ Children(d)
    \/ \E name \in Names : Search(name)

Spec == Init /\ [][Next]_<<dirs, nodes, reply, failed>>

=============================================================================

------------------------------- MODULE Shell -------------------------------
(***************************************************************************)
(* The user program, user-shell.c: it reads a line, and makes the system   *)
(* calls of a command one after the other.  The kernel's side of a call is *)
(* FileTree, which Fat32 implements; a step is one call, so the machine    *)
(* may stop between any two.                                               *)
(*                                                                         *)
(* The kernel stores one byte into the shell's int retcode, most of which  *)
(* is never initialised: a result is seen for what it is only if the other *)
(* bytes happen to be zero (\E seen).                                      *)
(*                                                                         *)
(* On a full disk a write may report success and store nothing (failed).   *)
(* The command that made it goes on; no other command is followed then,    *)
(* for the entry that it leaves names a cluster outside the disk.          *)
(***************************************************************************)
EXTENDS FileTree

CONSTANTS
    Up,         \* the component ".."
    MaxPath     \* bound: components of a path

ASSUME ShellAssumption == MaxPath \in Nat \ {0}

VARIABLES
    cwd,            \* cwd_cluster_number
    temp_cwd,       \* the working directory when the command was read
    line,           \* the command and its arguments
    pc,             \* the system call that comes next
    todo,           \* components that relative_cd has still to enter
    places,         \* directories that whereis has still to print
    file_buffer,    \* copy's buffer
    copied          \* what became of copy's write (history)

treeVars  == <<dirs, nodes, reply, failed>>
shellVars == <<treeVars, cwd, temp_cwd, line, pc, todo, places, file_buffer, copied>>

\* The buffers of the shell hold one cluster: BUFFER_SIZE is CLUSTER_SIZE.
BUFFER_SIZE == 1

Components == DirNames \cup {Up}
Paths(max) == UpTo(max, Components)

\* What a user may type; cp's path ends in the new name.  get_word and length
\* cut the line into these.
Lines ==
    [cmd : {"ls"}, name : {Up}, path : {<<>>}]
    \cup [cmd : {"cat", "rm", "whereis"}, name : Names, path : {<<>>}]
    \cup [cmd : {"mkdir"}, name : DirNames, path : {<<>>}]
    \cup [cmd : {"cd"}, name : {Up}, path : Paths(MaxPath) \ {<<>>}]
    \cup [cmd : {"mv"}, name : Names, path : Paths(MaxPath)]
    \cup [cmd : {"cp"}, name : Names,
          path : {Append(p, n) : p \in Paths(MaxPath - 1), n \in Names}]

First == [ls |-> "list", cat |-> "show", rm |-> "remove", whereis |-> "search",
          mkdir |-> "look", cd |-> "walk", mv |-> "read", cp |-> "read"]

Goto(label) ==
    /\ pc' = label
    /\ UNCHANGED <<temp_cwd, line>>

Keeping == UNCHANGED <<cwd, todo, places, file_buffer, copied>>

\* The write for which too few clusters are left: success, and an entry of that
\* name that leads out of the disk, which is no node of the tree.
WriteLost(d, name) ==
    /\ LoseWrite
    /\ d \in dirs /\ ~Has(d, name)
    /\ UNCHANGED <<dirs, nodes>>

----------------------------------------------------------------------------
(* The loop of main. *)

\* The prompt names the working directory; a line is read and cut into words.
ReadLine ==
    /\ pc = "prompt" /\ ~failed
    /\ Path(cwd)
    /\ line' \in Lines
    /\ pc' = First[line'.cmd]
    /\ temp_cwd' = cwd
    /\ todo' = IF line'.cmd = "cd" THEN line'.path ELSE <<>>
    /\ file_buffer' = <<>>
    /\ copied' = "no"
    /\ UNCHANGED <<cwd, places>>

\* A line that is no command.
Invalid ==
    /\ pc = "prompt" /\ ~failed
    /\ Path(cwd)
    /\ UNCHANGED <<cwd, temp_cwd, line, pc, todo, places, file_buffer, copied>>

List ==
    /\ pc = "list"
    /\ Children(cwd)
    /\ Goto("prompt") /\ Keeping

Show ==
    /\ pc = "show"
    /\ Read(cwd, line.name, BUFFER_SIZE)
    /\ Goto("prompt") /\ Keeping

----------------------------------------------------------------------------
(* cd and relative_cd. *)

\* What the caller of relative_cd does with its result.  mv compares a length
\* with itself and so goes on when the path has led nowhere; cp reads once more
\* for its message.
Walked(ok) ==
    IF line.cmd = "mv" \/ (line.cmd = "cp" /\ ok)
    THEN Goto("write") /\ cwd' = cwd
    ELSE /\ Goto(IF line.cmd = "cp" THEN "show" ELSE "prompt")
         /\ cwd' = IF ok THEN cwd ELSE temp_cwd

\* Mutants: a component that is no directory ends the walk where it is, and one
\* that is looked up again.
Fail_Stays   == Walked(TRUE) /\ todo' = <<>>
Fail_Retries == Goto("walk") /\ UNCHANGED <<cwd, todo>>

Fail == Walked(FALSE) /\ todo' = <<>>

Arrive ==
    /\ pc = "walk" /\ todo = <<>>
    /\ Walked(TRUE)
    /\ UNCHANGED <<treeVars, todo, places, file_buffer, copied>>

\* "..".  In the root nothing is called and cd returns what its variable holds.
GoUp ==
    /\ pc = "walk" /\ todo # <<>> /\ Head(todo) = Up
    /\ IF cwd = Root
       THEN /\ \/ Goto("walk") /\ todo' = Tail(todo) /\ cwd' = cwd
               \/ Fail
            /\ UNCHANGED treeVars
       ELSE /\ Parent(cwd)
            /\ cwd' = reply'.code
            /\ todo' = Tail(todo)
            /\ Goto("walk")
    /\ UNCHANGED <<places, file_buffer, copied>>

\* Mutant: whatever has the name is entered.
LookDown_Anything ==
    /\ pc = "walk" /\ todo # <<>> /\ Head(todo) # Up
    /\ ReadDirectory(cwd, Head(todo))
    /\ \/ reply'.code # 2 /\ Goto("enter") /\ UNCHANGED <<cwd, todo>>
       \/ reply'.code = 2 /\ Fail
    /\ UNCHANGED <<places, file_buffer, copied>>

\* A name: read_directory says whether it is a directory.  For the answer -1 cd
\* returns what its variable holds.
LookDown ==
    /\ pc = "walk" /\ todo # <<>> /\ Head(todo) # Up
    /\ ReadDirectory(cwd, Head(todo))
    /\ \/ reply'.code = 0 /\ Goto("enter") /\ UNCHANGED <<cwd, todo>>
       \/ reply'.code = -1 /\ Goto("walk") /\ todo' = Tail(todo) /\ cwd' = cwd
       \/ reply'.code # 0 /\ Fail
    /\ UNCHANGED <<places, file_buffer, copied>>

Enter ==
    /\ pc = "enter"
    /\ Child(cwd, Head(todo))
    /\ cwd' = reply'.code
    /\ todo' = Tail(todo)
    /\ Goto("walk")
    /\ UNCHANGED <<places, file_buffer, copied>>

----------------------------------------------------------------------------
(* cp and mv. *)

\* The path that copy enters, and the name that it writes there.
Into == IF line.cmd = "cp" THEN SubSeq(line.path, 1, Len(line.path) - 1)
                           ELSE line.path
NewName == IF line.cmd = "cp" THEN line.path[Len(line.path)] ELSE line.name

CopyRead ==
    /\ pc = "read"
    /\ Read(cwd, line.name, BUFFER_SIZE)
    /\ \/ /\ reply'.code = 0
          /\ file_buffer' = reply'.data
          /\ todo' = Into
          /\ Goto("walk")
       \/ /\ UNCHANGED <<file_buffer, todo>>
          /\ Goto("show")
    /\ UNCHANGED <<cwd, places, copied>>

\* Mutants: the working directory stays where the copy went, and comes back
\* after a refusal too.
AfterWrite_Stays(seen) == cwd' = cwd
AfterWrite_Back(seen)  == cwd' = temp_cwd

\* The working directory is restored only if the write is seen to succeed.
AfterWrite(seen) == cwd' = IF reply'.code = 0 /\ seen THEN temp_cwd ELSE cwd

\* Mutant: cp removes its source like mv.
AfterCopy_Remove == "remove"

\* copy reports 1 in either case, and mv goes on to remove.
AfterCopy == IF line.cmd = "mv" THEN "remove" ELSE "prompt"

CopyWrite ==
    /\ pc = "write"
    /\ \E seen \in BOOLEAN :
         /\ \/ /\ CreateFile(cwd, NewName, file_buffer)
               /\ copied' = IF seen THEN "stored" ELSE "unseen"
            \/ /\ WriteRefused(cwd, NewName)
               /\ copied' = IF cwd = temp_cwd THEN "refused here" ELSE "refused there"
            \/ /\ WriteLost(cwd, NewName)
               /\ copied' = "lost"
         /\ AfterWrite(seen)
    /\ Goto(AfterCopy)
    /\ UNCHANGED <<todo, places, file_buffer>>

\* rm, and the end of mv: in whatever directory is the working directory now.
\* Where the copy was lost, the name is the entry that leads out of the disk: delete has
\* no chain to follow, no step.
Remove ==
    /\ pc = "remove"
    /\ failed => cwd = temp_cwd
    /\ DeleteRefused(cwd, line.name) \/ DeleteNode(cwd, line.name)
    /\ Goto("prompt") /\ Keeping

----------------------------------------------------------------------------
(* mkdir and whereis. *)

\* mkdir writes only when read_directory is seen to answer "not found".
MkdirLook ==
    /\ pc = "look"
    /\ ReadDirectory(cwd, line.name)
    /\ \/ reply'.code = 2 /\ Goto("make")
       \/ Goto("prompt")
    /\ Keeping

MkdirMake ==
    /\ pc = "make"
    /\ \/ WriteRefused(cwd, line.name)
       \/ CreateDirectory(cwd, line.name)
       \/ WriteLost(cwd, line.name)
    /\ Goto("prompt") /\ Keeping

Whereis ==
    /\ pc = "search"
    /\ Search(line.name)
    /\ \E found \in SUBSET Ids :
         /\ reply'.data = <<found>>
         /\ places' = found
    /\ Goto("tell")
    /\ UNCHANGED <<cwd, todo, file_buffer, copied>>

\* The ways from the root to a directory.
WaysTo(d) == {way \in UpTo(Depth, Keys) : IsWay(way, d)}

\* One path per record.  For a directory without a way get_dir_path may never
\* return; the whole system then stands still.
Tell ==
    /\ pc = "tell"
    /\ \/ places = {} /\ Goto("prompt") /\ UNCHANGED <<treeVars, places>>
       \/ \E d \in places :
            /\ Path(d)
            /\ places' = places \ {d}
            /\ \/ Goto("tell")
               \/ WaysTo(d) = {} /\ Goto("stuck")
    /\ UNCHANGED <<cwd, todo, file_buffer, copied>>

----------------------------------------------------------------------------
(* The specification. *)

NoLine == [cmd |-> "ls", name |-> Up, path |-> <<>>]

\* What the shell starts with.
Fresh(label) ==
    /\ pc' = label
    /\ cwd' = Root /\ temp_cwd' = Root
    /\ line' = NoLine
    /\ todo' = <<>> /\ places' = {} /\ file_buffer' = <<>> /\ copied' = "no"

\* The machine stops between two calls: the memory is lost.
PowerOff ==
    /\ pc # "off"
    /\ Restart
    /\ Fresh("off")

\* The boot loads the shell anew.
LoadShell ==
    /\ pc = "off"
    /\ Fresh("prompt")
    /\ UNCHANGED treeVars

InitShell ==
    /\ Init
    /\ cwd = Root /\ temp_cwd = Root
    /\ line = NoLine
    /\ pc = "off"
    /\ todo = <<>> /\ places = {} /\ file_buffer = <<>> /\ copied = "no"

\* A file comes onto the disk: the boot and the host's tool write some.
OtherWrites ==
    /\ pc = "off" /\ ~failed
    /\ \E d \in dirs, name \in Names, data \in Buffers :
          CreateFile(d, name, data) \/ WriteLost(d, name)
    /\ UNCHANGED <<temp_cwd, line, pc>> /\ Keeping

Step ==
    \/ List \/ Show
    \/ Arrive \/ GoUp \/ LookDown \/ Enter
    \/ CopyRead \/ CopyWrite \/ Remove
    \/ MkdirLook \/ MkdirMake
    \/ Whereis \/ Tell

NextShell == ReadLine \/ Invalid \/ Step \/ OtherWrites \/ PowerOff \/ LoadShell

SpecShell == InitShell /\ [][NextShell]_shellVars

\* The processor goes on executing a command.
FairShell == SpecShell /\ WF_shellVars(Step)

----------------------------------------------------------------------------
(* Properties. *)

\* What cd's ".." and a name lead to, from the tree alone.
Leads(d, step, e) ==
    IF step = Up
    THEN IF d = Root THEN e = Root
         ELSE \E k \in Keys : nodes[k].dir /\ nodes[k].id = d /\ e = k[1]
    ELSE IsDir(d, step) /\ nodes[<<d, step>>].id = e

LeadsTo(d, path) ==
    {e \in dirs : \E via \in [1 .. Len(path) + 1 -> dirs] :
        /\ via[1] = d /\ via[Len(path) + 1] = e
        /\ \A i \in DOMAIN path : Leads(via[i], path[i], via[i + 1])}

\* No command takes the working directory away from under the shell: as long as
\* commands are followed (none enters what a lost write has left), it can be
\* named from the root and left by "..".
CwdStands == cwd \in dirs /\ WaysTo(cwd) # {}

\* A component of the path is "..", and the ones before it lead to the root.
LeavesRoot(d, path) ==
    \E i \in DOMAIN path :
        path[i] = Up /\ Root \in LeadsTo(d, SubSeq(path, 1, i - 1))

\* A cd goes the whole way or nowhere, and a path that leads somewhere is
\* followed unless it tries to leave the root.
CdWholeWay ==
    line.cmd = "cd" /\ pc = "prompt" =>
        LET goal == LeadsTo(temp_cwd, line.path)
        IN  \/ cwd \in goal
            \/ cwd = temp_cwd /\ (goal = {} \/ LeavesRoot(temp_cwd, line.path))

\* No command but rm and mv takes a file or directory away, or changes one.
OnlyRmAndMvDestroy ==
    [][line.cmd \notin {"rm", "mv"} =>
          \A k \in Keys : k \in Keys' /\ nodes'[k] = nodes[k]]_shellVars

\* A file that mv has read is not lost, even if the machine stops half-way,
\* unless its copy was refused: in the very directory it came from, where remove
\* then deletes it, or for a directory of that name, which remove deletes with
\* all that is in it.  On a full disk it is lost with nothing refused: write has
\* reported success for a copy that it did not store, and remove has followed.
MvKeepsTheFile ==
    line.cmd = "mv" /\ file_buffer # <<>> =>
        \/ \E d \in dirs : Has(d, line.name) /\ nodes[<<d, line.name>>].data = file_buffer
        \/ copied = "refused here"
        \/ copied = "refused there" /\ line.name \in DirNames
        \/ copied = "lost" /\ pc = "prompt"

\* A copy that was stored, and seen to be, leaves the working directory as it
\* was; so does one that did not get as far as writing.
CopyComesBack ==
    line.cmd \in {"cp", "mv"} /\ pc = "prompt" /\ copied \in {"no", "stored"} =>
        cwd = temp_cwd

\* Every command but whereis comes to an end, unless a write of it was lost.
CommandsEnd ==
    (pc \notin {"prompt", "off"} /\ line.cmd # "whereis")
        ~> (pc \in {"prompt", "off"} \/ failed)

=============================================================================

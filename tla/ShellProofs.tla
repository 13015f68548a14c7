---------------------------- MODULE ShellProofs ----------------------------
(***************************************************************************)
(* What the shell's commands leave alone, proved for any number of names,  *)
(* directories and contents, and paths of any length.                      *)
(***************************************************************************)
EXTENDS Shell, FiniteSetTheorems, SequenceTheorems, TLAPS

\* Nothing goes away and no name changes its meaning.
Kept ==
    /\ \A k \in Keys : k \in Keys' /\ nodes'[k] = nodes[k]
    /\ \A d \in dirs : d \in dirs'

\* The call that removes something belongs to rm, or to the end of mv.
RemoveIsAsked == pc = "remove" => line.cmd \in {"rm", "mv"}

LEMMA KeepKeeps ==
    ASSUME NEW op, NEW code, NEW data, Keep(op, code, data)
    PROVE  Kept
BY DEF Keep, Kept, Keys

LEMMA TreeKeeps == UNCHANGED treeVars => Kept
BY DEF treeVars, Kept, Keys

LEMMA ReadKeeps ==
    ASSUME NEW d, NEW name, NEW size, Read(d, name, size)
    PROVE  Kept
BY KeepKeeps DEF Read

LEMMA LookKeeps ==
    ASSUME NEW d, NEW name, ReadDirectory(d, name) \/ Child(d, name)
    PROVE  Kept
BY KeepKeeps DEF ReadDirectory, Child

LEMMA WayKeeps ==
    ASSUME NEW d, Parent(d) \/ Path(d) \/ Children(d)
    PROVE  Kept
BY KeepKeeps DEF Parent, Path, Children

LEMMA SearchKeeps ==
    ASSUME NEW name, Search(name)
    PROVE  Kept
BY KeepKeeps DEF Search

LEMMA WithKeeps ==
    ASSUME NEW key, NEW node, key \notin Keys, nodes' = With(key, node),
           \A d \in dirs : d \in dirs'
    PROVE  Kept
<1>1. Keys' = Keys \cup {key} BY DEF With, Keys
<1>2. \A k \in Keys : nodes'[k] = nodes[k] BY DEF With
<1> QED BY <1>1, <1>2 DEF Kept

\* Whatever write does, no name that stands for something is taken away from it.
LEMMA WriteKeeps ==
    ASSUME NEW d, NEW name, NEW data,
           \/ WriteRefused(d, name) \/ WriteLost(d, name)
           \/ CreateFile(d, name, data) \/ CreateDirectory(d, name)
    PROVE  Kept
<1>1. CASE WriteRefused(d, name) BY <1>1, KeepKeeps DEF WriteRefused
<1>2. CASE CreateFile(d, name, data) BY <1>2, WithKeeps DEF CreateFile, Has
<1>3. CASE CreateDirectory(d, name)
  <2>1. PICK id \in Ids \ dirs :
          dirs' = dirs \cup {id} /\ nodes' = With(<<d, name>>, DirNode(id))
    BY <1>3 DEF CreateDirectory
  <2> QED BY <1>3, <2>1, WithKeeps DEF CreateDirectory, Has
<1>4. CASE WriteLost(d, name) BY <1>4 DEF WriteLost, Kept, Keys
<1> QED BY <1>1, <1>2, <1>3, <1>4

LEMMA WalkedIsNoRemove == ASSUME NEW ok, Walked(ok) PROVE pc' # "remove"
BY DEF Walked, Goto

\* Only delete takes anything away.
LEMMA StepKeeps ==
    ASSUME [NextShell]_shellVars, ~Remove
    PROVE  Kept
<1>1. CASE ReadLine \/ Invalid BY <1>1, WayKeeps DEF ReadLine, Invalid
<1>2. CASE List \/ Show BY <1>2, WayKeeps, ReadKeeps DEF List, Show
<1>3. CASE Arrive BY <1>3, TreeKeeps DEF Arrive
<1>4. CASE GoUp BY <1>4, TreeKeeps, WayKeeps DEF GoUp
<1>5. CASE LookDown \/ Enter BY <1>5, LookKeeps DEF LookDown, Enter
<1>6. CASE CopyRead BY <1>6, ReadKeeps DEF CopyRead
<1>7. CASE CopyWrite BY <1>7, WriteKeeps DEF CopyWrite
<1>8. CASE MkdirLook \/ MkdirMake
  BY <1>8, LookKeeps, WriteKeeps DEF MkdirLook, MkdirMake
<1>9. CASE Whereis BY <1>9, SearchKeeps DEF Whereis
<1>10. CASE Tell BY <1>10, TreeKeeps, WayKeeps DEF Tell
<1>11. CASE OtherWrites BY <1>11, WriteKeeps DEF OtherWrites
<1>12. CASE PowerOff BY <1>12 DEF PowerOff, Restart, Kept, Keys
<1>13. CASE LoadShell BY <1>13, TreeKeeps DEF LoadShell
<1>14. CASE UNCHANGED shellVars BY <1>14, TreeKeeps DEF shellVars
<1> QED
  BY <1>1, <1>2, <1>3, <1>4, <1>5, <1>6, <1>7, <1>8, <1>9, <1>10, <1>11, <1>12,
     <1>13, <1>14 DEF NextShell, Step

LEMMA RemoveStaysAsked == RemoveIsAsked /\ [NextShell]_shellVars => RemoveIsAsked'
<1> SUFFICES ASSUME RemoveIsAsked, [NextShell]_shellVars PROVE RemoveIsAsked'
  OBVIOUS
<1>1. CASE ReadLine
  <2>1. line'.cmd \in {"ls", "cat", "rm", "whereis", "mkdir", "cd", "mv", "cp"}
    BY <1>1 DEF ReadLine, Lines
  <2>2. pc' = First[line'.cmd] BY <1>1 DEF ReadLine
  <2> QED BY <2>1, <2>2 DEF First, RemoveIsAsked
<1>2. CASE Invalid BY <1>2 DEF Invalid, RemoveIsAsked
<1>3. CASE List \/ Show \/ Remove \/ MkdirLook \/ MkdirMake
  BY <1>3 DEF List, Show, Remove, MkdirLook, MkdirMake, Goto, RemoveIsAsked
<1>4. CASE Arrive \/ GoUp \/ LookDown \/ Enter
  BY <1>4, WalkedIsNoRemove DEF Arrive, GoUp, LookDown, Enter, Fail, Goto, RemoveIsAsked
<1>5. CASE CopyRead BY <1>5 DEF CopyRead, Goto, RemoveIsAsked
<1>6. CASE CopyWrite BY <1>6 DEF CopyWrite, AfterCopy, Goto, RemoveIsAsked
<1>7. CASE Whereis \/ Tell BY <1>7 DEF Whereis, Tell, Goto, RemoveIsAsked
<1>8. CASE OtherWrites BY <1>8 DEF OtherWrites, RemoveIsAsked
<1>9. CASE PowerOff \/ LoadShell BY <1>9 DEF PowerOff, LoadShell, Fresh, RemoveIsAsked
<1>10. CASE UNCHANGED shellVars BY <1>10 DEF shellVars, RemoveIsAsked
<1> QED
  BY <1>1, <1>2, <1>3, <1>4, <1>5, <1>6, <1>7, <1>8, <1>9, <1>10 DEF NextShell, Step

\* A file or directory goes away, or changes, only by an rm or an mv.
THEOREM OthersDestroyNothing == SpecShell => OnlyRmAndMvDestroy
<1>1. InitShell => RemoveIsAsked BY DEF InitShell, RemoveIsAsked
<1>2. RemoveIsAsked /\ [NextShell]_shellVars => RemoveIsAsked' BY RemoveStaysAsked
<1>3. RemoveIsAsked /\ [NextShell]_shellVars =>
        [line.cmd \notin {"rm", "mv"} =>
            \A k \in Keys : k \in Keys' /\ nodes'[k] = nodes[k]]_shellVars
  BY StepKeeps DEF Kept, Remove, RemoveIsAsked
<1> QED BY <1>1, <1>2, <1>3, PTL DEF SpecShell, OnlyRmAndMvDestroy

----------------------------------------------------------------------------
(* A move does not lose its file. *)

\* Names are kept in directories that exist, and only some name directories.
NamesSound ==
    \A k \in Keys : k[1] \in dirs /\ (nodes[k].dir => k[2] \in DirNames)

\* mkdir makes what has the name of a directory.
MkdirIsNamed == pc \in {"look", "make"} => line.name \in DirNames

\* d holds the file that mv has read.
Held(d) == IsFile(d, line.name) /\ nodes[<<d, line.name>>].data = file_buffer

\* Before the copy the file is where it was; before the removal a second one is
\* out of remove's reach, whatever became of the copy.
MvIsSafe ==
    line.cmd = "mv" /\ file_buffer # <<>> =>
        /\ MvKeepsTheFile
        /\ pc \in {"walk", "enter", "write"} => Held(temp_cwd)
        /\ pc = "remove" =>
             \/ copied = "stored" /\ \E d \in dirs : d # cwd /\ Held(d) /\ Held(cwd)
             \/ copied = "unseen" /\ cwd # temp_cwd /\ Held(temp_cwd) /\ Held(cwd)
             \/ copied = "refused here"
             \/ copied = "refused there" /\ cwd # temp_cwd /\ Held(temp_cwd)
             \/ copied = "lost"

\* A copy begins where its command was read.
ReadIsHere == pc = "read" => cwd = temp_cwd

MvInv == NamesSound /\ MkdirIsNamed /\ ReadIsHere /\ MvIsSafe

LEMMA MkdirStaysNamed ==
    ASSUME MkdirIsNamed, [NextShell]_shellVars
    PROVE  MkdirIsNamed'
<1>1. CASE ReadLine
  <2>1. line' \in Lines /\ pc' = First[line'.cmd] BY <1>1 DEF ReadLine
  <2>2. line'.cmd \in {"ls", "cat", "rm", "whereis", "mkdir", "cd", "mv", "cp"}
    BY <2>1 DEF Lines
  <2>3. line'.cmd = "mkdir" => line'.name \in DirNames BY <2>1 DEF Lines
  <2>4. pc' = "look" => line'.cmd = "mkdir" BY <2>1, <2>2 DEF First
  <2>5. pc' # "make" BY <2>1, <2>2 DEF First
  <2> QED BY <2>3, <2>4, <2>5 DEF MkdirIsNamed
<1>2. CASE Invalid BY <1>2 DEF Invalid, MkdirIsNamed
<1>3. CASE List \/ Show \/ Remove \/ MkdirLook \/ MkdirMake
  BY <1>3 DEF List, Show, Remove, MkdirLook, MkdirMake, Goto, MkdirIsNamed
<1>4. CASE Arrive \/ GoUp \/ LookDown \/ Enter
  BY <1>4 DEF Arrive, GoUp, LookDown, Enter, Fail, Walked, Goto, MkdirIsNamed
<1>5. CASE CopyRead BY <1>5 DEF CopyRead, Goto, MkdirIsNamed
<1>6. CASE CopyWrite BY <1>6 DEF CopyWrite, AfterCopy, Goto, MkdirIsNamed
<1>7. CASE Whereis \/ Tell BY <1>7 DEF Whereis, Tell, Goto, MkdirIsNamed
<1>8. CASE OtherWrites BY <1>8 DEF OtherWrites, MkdirIsNamed
<1>9. CASE PowerOff \/ LoadShell BY <1>9 DEF PowerOff, LoadShell, Fresh, MkdirIsNamed
<1>10. CASE UNCHANGED shellVars BY <1>10 DEF shellVars, MkdirIsNamed
<1> QED
  BY <1>1, <1>2, <1>3, <1>4, <1>5, <1>6, <1>7, <1>8, <1>9, <1>10 DEF NextShell, Step

LEMMA WithSound ==
    ASSUME NamesSound, NEW d \in dirs, NEW name, NEW node,
           nodes' = With(<<d, name>>, node), \A e \in dirs : e \in dirs',
           node.dir => name \in DirNames
    PROVE  NamesSound'
<1> SUFFICES ASSUME NEW k \in Keys'
             PROVE  k[1] \in dirs' /\ (nodes'[k].dir => k[2] \in DirNames)
  BY DEF NamesSound
<1>1. Keys' = Keys \cup {<<d, name>>} BY DEF With, Keys
<1>2. CASE k = <<d, name>>
  <2>1. nodes'[k] = node BY <1>1, <1>2 DEF With
  <2> QED BY <1>2, <2>1
<1>3. CASE k # <<d, name>>
  <2>1. k \in Keys /\ nodes'[k] = nodes[k] BY <1>1, <1>3 DEF With
  <2> QED BY <2>1 DEF NamesSound
<1> QED BY <1>2, <1>3

LEMMA SameSound == NamesSound /\ UNCHANGED <<dirs, nodes>> => NamesSound'
BY DEF NamesSound, Keys

LEMMA FileSound ==
    ASSUME NamesSound, NEW d, NEW name, NEW data,
           WriteRefused(d, name) \/ WriteLost(d, name) \/ CreateFile(d, name, data)
    PROVE  NamesSound'
<1>1. CASE WriteRefused(d, name) \/ WriteLost(d, name)
  BY <1>1, SameSound DEF WriteRefused, WriteLost, Keep
<1>2. CASE CreateFile(d, name, data)
  <2>1. ~FileNode(data).dir BY DEF FileNode
  <2> QED BY <1>2, <2>1, WithSound DEF CreateFile
<1> QED BY <1>1, <1>2

LEMMA DeleteSound ==
    ASSUME NamesSound, NEW d, NEW name,
           DeleteRefused(d, name) \/ DeleteNode(d, name)
    PROVE  NamesSound'
<1>1. CASE DeleteRefused(d, name)
  BY <1>1, SameSound DEF DeleteRefused, Keep
<1>2. CASE DeleteNode(d, name)
  <2> DEFINE node == nodes[<<d, name>>]
             gone == IF node.dir THEN {node.id} ELSE {}
             kept == {k \in Keys : k # <<d, name>> /\ k[1] \notin gone}
  <2>1. dirs' = dirs \ gone /\ nodes' = Only(kept) BY <1>2 DEF DeleteNode
  <2>2. Keys' = kept /\ \A k \in kept : nodes'[k] = nodes[k]
    BY <2>1 DEF Only, Keys
  <2> QED BY <2>1, <2>2 DEF NamesSound
<1> QED BY <1>1, <1>2

LEMMA StepSound ==
    ASSUME NamesSound, MkdirIsNamed, [NextShell]_shellVars
    PROVE  NamesSound'
<1>1. CASE ReadLine \/ Invalid BY <1>1, SameSound DEF ReadLine, Invalid, Path, Keep
<1>2. CASE List \/ Show BY <1>2, SameSound DEF List, Show, Children, Read, Keep
<1>3. CASE Arrive \/ LoadShell \/ UNCHANGED shellVars
  BY <1>3, SameSound DEF Arrive, LoadShell, shellVars, treeVars
<1>4. CASE GoUp BY <1>4, SameSound DEF GoUp, treeVars, Parent, Keep
<1>5. CASE LookDown \/ Enter
  BY <1>5, SameSound DEF LookDown, Enter, ReadDirectory, Child, Keep
<1>6. CASE CopyRead BY <1>6, SameSound DEF CopyRead, Read, Keep
<1>7. CASE CopyWrite BY <1>7, FileSound DEF CopyWrite
<1>8. CASE MkdirLook BY <1>8, SameSound DEF MkdirLook, ReadDirectory, Keep
<1>9. CASE MkdirMake
  <2>1. CASE WriteRefused(cwd, line.name) \/ WriteLost(cwd, line.name)
    BY <2>1, FileSound
  <2>2. CASE CreateDirectory(cwd, line.name)
    <3>1. PICK id \in Ids \ dirs :
            dirs' = dirs \cup {id} /\ nodes' = With(<<cwd, line.name>>, DirNode(id))
      BY <2>2 DEF CreateDirectory
    <3>2. cwd \in dirs BY <2>2 DEF CreateDirectory
    <3>3. line.name \in DirNames BY <1>9 DEF MkdirMake, MkdirIsNamed
    <3> QED BY <3>1, <3>2, <3>3, WithSound
  <2> QED BY <1>9, <2>1, <2>2 DEF MkdirMake
<1>10. CASE Whereis \/ Tell
  BY <1>10, SameSound DEF Whereis, Tell, Search, Path, Keep, treeVars
<1>11. CASE OtherWrites BY <1>11, FileSound DEF OtherWrites
<1>12. CASE PowerOff BY <1>12, SameSound DEF PowerOff, Restart
<1>13. CASE Remove BY <1>13, DeleteSound DEF Remove
<1> QED
  BY <1>1, <1>2, <1>3, <1>4, <1>5, <1>6, <1>7, <1>8, <1>9, <1>10, <1>11, <1>12,
     <1>13 DEF NextShell, Step

\* What is left alone is still held.
LEMMA KeptHeld ==
    ASSUME Kept, UNCHANGED <<line, file_buffer>>, NEW d, Held(d)
    PROVE  IsFile(d, line.name)' /\ nodes'[<<d, line.name>>] = nodes[<<d, line.name>>]
BY DEF Kept, Held, IsFile, Has

LEMMA KeptMv ==
    ASSUME Kept, MvKeepsTheFile, UNCHANGED <<line, file_buffer, copied>>,
           pc = "prompt" => pc' = "prompt"
    PROVE  MvKeepsTheFile'
BY DEF Kept, MvKeepsTheFile, Has

\* A step that only looks, on the way of the walk or after the command's end.
LEMMA LookMv ==
    ASSUME MvIsSafe, Kept, UNCHANGED <<line, file_buffer, copied, temp_cwd>>,
           pc' # "remove", pc = "prompt" => pc' = "prompt",
           pc' \in {"walk", "enter", "write"} => pc \in {"walk", "enter"}
    PROVE  MvIsSafe'
<1> SUFFICES ASSUME line.cmd = "mv", file_buffer # <<>>
             PROVE  /\ MvKeepsTheFile'
                    /\ pc' \in {"walk", "enter", "write"} => Held(temp_cwd)'
  BY DEF MvIsSafe
<1>1. MvKeepsTheFile' BY KeptMv DEF MvIsSafe
<1>2. ASSUME pc' \in {"walk", "enter", "write"} PROVE Held(temp_cwd)'
  BY <1>2, KeptHeld DEF MvIsSafe, Held
<1> QED BY <1>1, <1>2

LEMMA ReadMv ==
    ASSUME MvIsSafe, NamesSound, ReadIsHere, CopyRead
    PROVE  MvIsSafe'
<1>1. UNCHANGED <<line, temp_cwd, cwd, copied>> /\ pc = "read" BY DEF CopyRead, Goto
<1>2. Kept BY ReadKeeps DEF CopyRead
<1>3. CASE UNCHANGED file_buffer /\ pc' = "show"
  BY <1>1, <1>2, <1>3, LookMv
<1>4. CASE reply'.code = 0 /\ file_buffer' = reply'.data /\ pc' = "walk"
  <2>1. /\ IsFile(cwd, line.name)
        /\ reply'.data = nodes[<<cwd, line.name>>].data
    BY <1>4 DEF CopyRead, Read, Keep, Answer
  <2>2. UNCHANGED <<dirs, nodes>> BY DEF CopyRead, Read, Keep
  <2>3. Held(temp_cwd)'
    BY <1>1, <1>4, <2>1, <2>2 DEF Held, IsFile, Has, Keys, ReadIsHere
  <2>4. temp_cwd \in dirs BY <1>1, <2>1 DEF NamesSound, IsFile, Has, ReadIsHere
  <2>5. MvKeepsTheFile'
    BY <1>1, <2>2, <2>3, <2>4 DEF MvKeepsTheFile, Held, IsFile
  <2> QED BY <1>4, <2>3, <2>5 DEF MvIsSafe
<1> QED BY <1>3, <1>4 DEF CopyRead, Goto

\* The copy is stored beside the file, or the file stays where it is.
LEMMA WriteMv ==
    ASSUME MvIsSafe, NamesSound, CopyWrite
    PROVE  MvIsSafe'
<1> SUFFICES ASSUME line.cmd = "mv", file_buffer # <<>>
             PROVE  MvIsSafe'
  BY DEF MvIsSafe, CopyWrite, Goto
<1>1. /\ pc = "write" /\ pc' = "remove"
      /\ UNCHANGED <<line, temp_cwd, file_buffer>>
  BY DEF CopyWrite, Goto, AfterCopy
<1>2. NewName = line.name BY DEF NewName
<1>3. Kept BY WriteKeeps DEF CopyWrite
<1>4. Held(temp_cwd) BY <1>1 DEF MvIsSafe
<1>5. Held(temp_cwd)' BY <1>1, <1>3, <1>4, KeptHeld DEF Held
<1>6. temp_cwd \in dirs' BY <1>3, <1>4 DEF NamesSound, Held, IsFile, Has, Kept
<1>7. MvKeepsTheFile' BY <1>1, <1>5, <1>6 DEF MvKeepsTheFile, Held, IsFile
<1>8. PICK seen \in BOOLEAN :
        /\ \/ /\ CreateFile(cwd, line.name, file_buffer)
              /\ copied' = IF seen THEN "stored" ELSE "unseen"
           \/ /\ WriteRefused(cwd, line.name)
              /\ copied' = IF cwd = temp_cwd THEN "refused here" ELSE "refused there"
           \/ /\ WriteLost(cwd, line.name)
              /\ copied' = "lost"
        /\ AfterWrite(seen)
  BY <1>2 DEF CopyWrite
<1>9. CASE /\ CreateFile(cwd, line.name, file_buffer)
           /\ copied' = IF seen THEN "stored" ELSE "unseen"
  <2>1. reply'.code = 0 BY <1>9 DEF CreateFile, Answer
  <2>2. cwd # temp_cwd BY <1>4, <1>9 DEF CreateFile, Held, IsFile
  <2>3. nodes' = With(<<cwd, line.name>>, FileNode(file_buffer)) /\ cwd \in dirs
    BY <1>9 DEF CreateFile
  <2>4. /\ <<cwd, line.name>> \in Keys'
        /\ nodes'[<<cwd, line.name>>] = FileNode(file_buffer)
    BY <2>3 DEF With, Keys
  <2>5. \E d \in dirs' :
          d = cwd /\ <<d, line'.name>> \in Keys'
                  /\ nodes'[<<d, line'.name>>] = FileNode(file_buffer')
    BY <1>1, <1>3, <2>3, <2>4 DEF Kept
  <2>6. CASE seen
    <3>1. copied' = "stored" /\ cwd' = temp_cwd
      BY <1>8, <1>9, <2>1, <2>6 DEF AfterWrite
    <3>2. Held(cwd)' BY <1>1, <1>5, <3>1 DEF Held, IsFile, Has
    <3>3. \E d \in dirs' : d # cwd' /\ Held(d)'
      BY <2>2, <2>5, <3>1, <1>1 DEF Held, IsFile, Has, FileNode
    <3> QED BY <1>1, <1>7, <3>1, <3>2, <3>3 DEF MvIsSafe
  <2>7. CASE ~seen
    <3>1. copied' = "unseen" /\ cwd' = cwd
      BY <1>8, <1>9, <2>7 DEF AfterWrite
    <3>2. Held(cwd)' BY <1>1, <2>4, <3>1 DEF Held, IsFile, Has, FileNode
    <3> QED BY <1>1, <1>5, <1>7, <2>2, <3>1, <3>2 DEF MvIsSafe
  <2> QED BY <2>6, <2>7
<1>10. CASE /\ WriteRefused(cwd, line.name)
            /\ copied' = IF cwd = temp_cwd THEN "refused here" ELSE "refused there"
  <2>1. reply'.code # 0
    <3>1. WriteRefused(cwd, line.name) BY <1>10
    <3>2. reply'.code \in {2, 1, -1} BY <3>1 DEF WriteRefused, Keep, Answer
    <3> QED BY <3>2
  <2>2. cwd' = cwd BY <1>8, <2>1 DEF AfterWrite
  <2>3. CASE cwd = temp_cwd
    <3>1. copied' = "refused here" BY <1>10, <2>3
    <3> QED BY <1>1, <1>7, <3>1 DEF MvIsSafe
  <2>4. CASE cwd # temp_cwd
    <3>1. copied' = "refused there" BY <1>10, <2>4
    <3> QED BY <1>1, <1>5, <1>7, <2>2, <2>4, <3>1 DEF MvIsSafe
  <2> QED BY <2>3, <2>4
<1>11. CASE copied' = "lost" BY <1>1, <1>7, <1>11 DEF MvIsSafe
<1> QED BY <1>8, <1>9, <1>10, <1>11

\* What delete leaves: a file under another key stays when no directory goes.
LEMMA DeleteHeld ==
    ASSUME DeleteNode(cwd, line.name), ~nodes[<<cwd, line.name>>].dir,
           UNCHANGED line, NEW d \in dirs, d # cwd, IsFile(d, line.name)
    PROVE  /\ d \in dirs' /\ IsFile(d, line.name)'
           /\ nodes'[<<d, line.name>>] = nodes[<<d, line.name>>]
<1> DEFINE kept == {k \in Keys : k # <<cwd, line.name>> /\ k[1] \notin {}}
<1>1. dirs' = dirs \ {} /\ nodes' = Only(kept) BY DEF DeleteNode
<1>2. Keys' = kept /\ \A k \in kept : nodes'[k] = nodes[k]
  BY <1>1 DEF Only, Keys
<1>3. <<d, line.name>> \in kept BY DEF IsFile, Has
<1> QED BY <1>1, <1>2, <1>3 DEF IsFile, Has

LEMMA RemoveMv ==
    ASSUME MvIsSafe, NamesSound, Remove
    PROVE  MvIsSafe'
<1> SUFFICES ASSUME line.cmd = "mv", file_buffer # <<>>
             PROVE  MvKeepsTheFile'
  BY DEF MvIsSafe, Remove, Goto, Keeping
<1>1. /\ pc = "remove" /\ pc' = "prompt"
      /\ UNCHANGED <<line, temp_cwd, cwd, file_buffer, copied>>
  BY DEF Remove, Goto, Keeping
<1>2. CASE DeleteRefused(cwd, line.name)
  <2>1. Kept BY <1>2, KeepKeeps DEF DeleteRefused
  <2> QED BY <1>1, <2>1, KeptMv DEF MvIsSafe
<1>3. CASE DeleteNode(cwd, line.name) /\ ~nodes[<<cwd, line.name>>].dir
  <2>1. ASSUME NEW d \in dirs, d # cwd, Held(d) PROVE MvKeepsTheFile'
    <3>1. /\ d \in dirs' /\ IsFile(d, line.name)'
          /\ nodes'[<<d, line.name>>] = nodes[<<d, line.name>>]
      BY <1>1, <1>3, <2>1, DeleteHeld DEF Held
    <3> QED BY <1>1, <2>1, <3>1 DEF MvKeepsTheFile, Held, IsFile
  <2>2. Held(temp_cwd) => temp_cwd \in dirs BY DEF NamesSound, Held, IsFile, Has
  <2>3. copied \in {"refused here", "lost"} => MvKeepsTheFile'
    BY <1>1 DEF MvKeepsTheFile
  <2> QED BY <1>1, <2>1, <2>2, <2>3 DEF MvIsSafe
<1>4. CASE DeleteNode(cwd, line.name) /\ nodes[<<cwd, line.name>>].dir
  <2>1. line.name \in DirNames BY <1>4 DEF DeleteNode, Has, NamesSound
  <2>2. ~Held(cwd) BY <1>4 DEF Held, IsFile
  <2>3. copied \in {"refused here", "refused there", "lost"}
    BY <1>1, <2>2 DEF MvIsSafe
  <2> QED BY <1>1, <2>1, <2>3 DEF MvKeepsTheFile
<1> QED BY <1>2, <1>3, <1>4 DEF Remove

LEMMA ReadStaysHere == ReadIsHere /\ [NextShell]_shellVars => ReadIsHere'
<1> SUFFICES ASSUME ReadIsHere, [NextShell]_shellVars PROVE ReadIsHere'
  OBVIOUS
<1>1. CASE ReadLine \/ Invalid BY <1>1 DEF ReadLine, Invalid, ReadIsHere
<1>2. CASE List \/ Show \/ Remove \/ MkdirLook \/ MkdirMake
  BY <1>2 DEF List, Show, Remove, MkdirLook, MkdirMake, Goto, ReadIsHere
<1>3. CASE Arrive \/ GoUp \/ LookDown \/ Enter
  BY <1>3 DEF Arrive, GoUp, LookDown, Enter, Fail, Walked, Goto, ReadIsHere
<1>4. CASE CopyRead BY <1>4 DEF CopyRead, Goto, ReadIsHere
<1>5. CASE CopyWrite BY <1>5 DEF CopyWrite, AfterCopy, Goto, ReadIsHere
<1>6. CASE Whereis \/ Tell BY <1>6 DEF Whereis, Tell, Goto, ReadIsHere
<1>7. CASE OtherWrites \/ UNCHANGED shellVars
  BY <1>7 DEF OtherWrites, Keeping, shellVars, ReadIsHere
<1>8. CASE PowerOff \/ LoadShell BY <1>8 DEF PowerOff, LoadShell, Fresh, ReadIsHere
<1> QED
  BY <1>1, <1>2, <1>3, <1>4, <1>5, <1>6, <1>7, <1>8 DEF NextShell, Step

LEMMA NextMv == MvInv /\ [NextShell]_shellVars => MvIsSafe'
<1> SUFFICES ASSUME MvInv, [NextShell]_shellVars PROVE MvIsSafe'
  OBVIOUS
<1>1. CASE Remove BY <1>1, RemoveMv DEF MvInv
<1>2. CASE CopyRead BY <1>2, ReadMv DEF MvInv
<1>3. CASE CopyWrite BY <1>3, WriteMv DEF MvInv
<1>4. CASE ReadLine
  <2>1. file_buffer' = <<>> BY <1>4 DEF ReadLine
  <2> QED BY <2>1 DEF MvIsSafe
<1>5. CASE PowerOff \/ LoadShell
  <2>1. line'.cmd = "ls" BY <1>5 DEF PowerOff, LoadShell, Fresh, NoLine
  <2> QED BY <2>1 DEF MvIsSafe
<1>6. CASE ~Remove /\ (Invalid \/ List \/ Show \/ MkdirLook \/ MkdirMake \/ Whereis
                      \/ Tell \/ OtherWrites)
  <2>1. Kept BY <1>6, StepKeeps
  <2>2. UNCHANGED <<line, file_buffer, copied, temp_cwd>>
    BY <1>6 DEF Invalid, List, Show, MkdirLook, MkdirMake, Whereis, Tell,
       OtherWrites, Goto, Keeping
  <2>3. pc' \in {"prompt", "make", "tell", "stuck", "off"}
    BY <1>6 DEF Invalid, List, Show, MkdirLook, MkdirMake, Whereis, Tell,
       OtherWrites, Goto
  <2>4. pc = "prompt" => pc' = "prompt"
    BY <1>6 DEF Invalid, List, Show, MkdirLook, MkdirMake, Whereis, Tell, OtherWrites
  <2> QED BY <2>1, <2>2, <2>3, <2>4, LookMv DEF MvInv
<1>7. CASE Arrive \/ GoUp \/ LookDown \/ Enter
  <2>1. Kept
    BY <1>7, TreeKeeps, WayKeeps, LookKeeps DEF Arrive, GoUp, LookDown, Enter
  <2>2. UNCHANGED <<line, file_buffer, copied, temp_cwd>> /\ pc \in {"walk", "enter"}
    BY <1>7 DEF Arrive, GoUp, LookDown, Enter, Fail, Walked, Goto
  <2>3. pc' # "remove"
    BY <1>7 DEF Arrive, GoUp, LookDown, Enter, Fail, Walked, Goto
  <2> QED BY <2>1, <2>2, <2>3, LookMv DEF MvInv
<1>8. CASE UNCHANGED shellVars
  BY <1>8 DEF shellVars, treeVars, MvInv, MvIsSafe, MvKeepsTheFile, Held, IsFile,
     Has, Keys
<1> QED
  BY <1>1, <1>2, <1>3, <1>4, <1>5, <1>6, <1>7, <1>8, StepKeeps DEF NextShell, Step

\* A file that mv has read outlives the command, and a power cut in it, but for
\* the two refusals that the property names and the full disk, where write
\* reports success for nothing: there it is kept until remove has run.
THEOREM MvKeepsItsFile == SpecShell => []MvKeepsTheFile
<1>1. InitShell => MvInv
  <2>1. InitShell => line.cmd = "ls" /\ pc = "off" /\ Keys = {}
    BY DEF InitShell, Init, NoLine, Keys
  <2> QED BY <2>1 DEF MvInv, NamesSound, MkdirIsNamed, ReadIsHere, MvIsSafe
<1>2. MvInv /\ [NextShell]_shellVars => MvInv'
  BY StepSound, MkdirStaysNamed, ReadStaysHere, NextMv DEF MvInv
<1>3. MvInv => MvKeepsTheFile BY DEF MvInv, MvIsSafe, MvKeepsTheFile
<1> QED BY <1>1, <1>2, <1>3, PTL DEF SpecShell

----------------------------------------------------------------------------
(* A copy returns to where it was asked for. *)

\* The calls of cp and mv, and where the working directory is at them.
CopyInv ==
    line.cmd \in {"cp", "mv"} =>
        /\ pc \in {"read", "walk", "enter", "write", "show", "remove", "prompt"}
        /\ pc = "read" => cwd = temp_cwd
        /\ pc \in {"show", "remove", "prompt"} /\ copied \in {"no", "stored"}
             => cwd = temp_cwd

LEMMA WalkedBack ==
    ASSUME NEW ok, Walked(ok), line.cmd \in {"cp", "mv"}
    PROVE  /\ pc' \in {"write", "show"}
           /\ pc' = "show" => cwd' = temp_cwd
           /\ UNCHANGED <<line, temp_cwd>>
<1>1. CASE line.cmd = "mv" \/ (line.cmd = "cp" /\ ok)
  BY <1>1 DEF Walked, Goto
<1>2. CASE ~(line.cmd = "mv" \/ (line.cmd = "cp" /\ ok))
  BY <1>2 DEF Walked, Goto
<1> QED BY <1>1, <1>2

LEMMA NextBack == CopyInv /\ [NextShell]_shellVars => CopyInv'
<1> SUFFICES ASSUME CopyInv, [NextShell]_shellVars PROVE CopyInv'
  OBVIOUS
<1>1. CASE ReadLine
  <2>1. pc' = First[line'.cmd] /\ cwd' = cwd /\ temp_cwd' = cwd
    BY <1>1 DEF ReadLine
  <2> QED BY <2>1 DEF CopyInv, First
<1>2. CASE Invalid BY <1>2 DEF Invalid, CopyInv
<1>3. CASE List \/ MkdirLook \/ MkdirMake \/ Whereis \/ Tell
  <2>1. pc \in {"list", "look", "make", "search", "tell"} /\ line' = line
    BY <1>3 DEF List, MkdirLook, MkdirMake, Whereis, Tell, Goto
  <2>2. line.cmd \notin {"cp", "mv"} BY <2>1 DEF CopyInv
  <2> QED BY <2>1, <2>2 DEF CopyInv
<1>4. CASE Show \/ Remove
  <2>1. /\ pc \in {"show", "remove"} /\ pc' = "prompt"
        /\ UNCHANGED <<line, cwd, temp_cwd, copied>>
    BY <1>4 DEF Show, Remove, Goto, Keeping
  <2> QED BY <2>1 DEF CopyInv
<1>5. CASE Arrive \/ GoUp \/ LookDown \/ Enter
  <2>1. ASSUME line.cmd \in {"cp", "mv"}
        PROVE  /\ pc' \in {"walk", "enter", "write", "show"}
               /\ pc' = "show" => cwd' = temp_cwd
               /\ UNCHANGED <<line, temp_cwd>>
    <3>1. CASE Arrive BY <2>1, <3>1, WalkedBack DEF Arrive
    <3>2. CASE GoUp BY <2>1, <3>2, WalkedBack DEF GoUp, Fail, Goto
    <3>3. CASE LookDown BY <2>1, <3>3, WalkedBack DEF LookDown, Fail, Goto
    <3>4. CASE Enter BY <3>4 DEF Enter, Goto
    <3> QED BY <1>5, <3>1, <3>2, <3>3, <3>4
  <2>2. UNCHANGED line
    BY <1>5 DEF Arrive, GoUp, LookDown, Enter, Fail, Walked, Goto
  <2> QED BY <2>1, <2>2 DEF CopyInv
<1>6. CASE CopyRead
  <2>1. /\ pc = "read" /\ pc' \in {"walk", "show"}
        /\ UNCHANGED <<line, cwd, temp_cwd>>
    BY <1>6 DEF CopyRead, Goto
  <2> QED BY <2>1 DEF CopyInv
<1>7. CASE CopyWrite
  <2>1. pc' \in {"remove", "prompt"} /\ UNCHANGED <<line, temp_cwd>>
    BY <1>7 DEF CopyWrite, Goto, AfterCopy
  <2>2. copied' = "stored" => cwd' = temp_cwd
    <3>1. PICK seen \in BOOLEAN :
            /\ \/ /\ CreateFile(cwd, NewName, file_buffer)
                  /\ copied' = IF seen THEN "stored" ELSE "unseen"
               \/ copied' \in {"refused here", "refused there", "lost"}
            /\ AfterWrite(seen)
      BY <1>7 DEF CopyWrite
    <3>2. CreateFile(cwd, NewName, file_buffer) => reply'.code = 0
      BY DEF CreateFile, Answer
    <3> QED BY <3>1, <3>2 DEF AfterWrite
  <2>3. copied' # "no" BY <1>7 DEF CopyWrite
  <2> QED BY <2>1, <2>2, <2>3 DEF CopyInv
<1>8. CASE OtherWrites
  <2>1. pc = "off" /\ line' = line BY <1>8 DEF OtherWrites
  <2> QED BY <2>1 DEF CopyInv
<1>9. CASE PowerOff \/ LoadShell
  <2>1. line'.cmd = "ls" BY <1>9 DEF PowerOff, LoadShell, Fresh, NoLine
  <2> QED BY <2>1 DEF CopyInv
<1>10. CASE UNCHANGED shellVars BY <1>10 DEF shellVars, CopyInv
<1> QED
  BY <1>1, <1>2, <1>3, <1>4, <1>5, <1>6, <1>7, <1>8, <1>9, <1>10 DEF NextShell, Step

\* After a copy that was stored and seen, or that did not come to the write, the
\* shell is in the directory in which it was asked to copy (copy, mv).
THEOREM CopiesComeBack == SpecShell => []CopyComesBack
<1>1. InitShell => CopyInv BY DEF InitShell, NoLine, CopyInv
<1>2. CopyInv /\ [NextShell]_shellVars => CopyInv' BY NextBack
<1>3. CopyInv => CopyComesBack BY DEF CopyInv, CopyComesBack
<1> QED BY <1>1, <1>2, <1>3, PTL DEF SpecShell

----------------------------------------------------------------------------
(* Numbers. *)

\* A set of numbers that is not empty has a least one.
LEMMA LeastNumber ==
    ASSUME NEW T \in SUBSET Nat, T # {}
    PROVE  \E n \in T : \A m \in T : n <= m
<1> DEFINE Order  == StrictSubsetOrdering(Nat)
           UpToOf == {0 .. n : n \in T}
<1>1. IsWellFoundedOn(Order, FiniteSubsetsOf(Nat))
  BY FS_StrictSubsetOrderingWellFounded
<1>2. UpToOf \subseteq FiniteSubsetsOf(Nat)
  <2>1. ASSUME NEW n \in T
        PROVE  0 .. n \in FiniteSubsetsOf(Nat)
    <3>1. IsFiniteSet(0 .. n)
      BY FS_Interval
    <3> QED
      BY <3>1 DEF FiniteSubsetsOf
  <2> QED
    BY <2>1
<1>3. UpToOf # {}
  OBVIOUS
<1> HIDE DEF Order, UpToOf
<1>4. PICK w \in UpToOf : \A v \in UpToOf : <<v, w>> \notin Order
  BY <1>1, <1>2, <1>3, WFMin
<1>5. PICK n \in T : w = 0 .. n
  BY DEF UpToOf
<1>6. ASSUME NEW m \in T, m < n
      PROVE  FALSE
  <2>1. <<0 .. m, 0 .. n>> \notin Order
    BY <1>4, <1>5 DEF UpToOf
  <2>2. ~(0 .. m \subseteq 0 .. n /\ 0 .. m # 0 .. n)
    BY <2>1 DEF Order, StrictSubsetOrdering
  <2>3. n \in 0 .. n /\ n \notin 0 .. m
    BY <1>6
  <2> QED
    BY <1>6, <2>2, <2>3
<1> QED
  BY <1>6

----------------------------------------------------------------------------
(* The working directory stands. *)

\* Directories are a tree: a directory has one name, and the root has none.
TreeSound ==
    /\ IsFiniteSet(dirs) /\ Root \in dirs
    /\ \A k \in Keys : k[1] \in dirs
    /\ \A k \in Keys : nodes[k].dir => nodes[k].id \in dirs \ {Root}
    /\ \A j, k \in Keys :
          nodes[j].dir /\ nodes[k].dir /\ nodes[j].id = nodes[k].id => j = k

\* n names lead from the root to d.
Descends(way, n, d) ==
    /\ n = 0 => d = Root
    /\ n > 0 => nodes[way[n]].id = d
    /\ \A i \in 1 .. n :
         /\ nodes[way[i]].dir
         /\ i = 1 => way[i][1] = Root
         /\ i > 1 => way[i][1] = nodes[way[i - 1]].id

Stands(d) == \E n \in Nat : \E way \in [1 .. n -> Keys] : Descends(way, n, d)

\* A way visits no directory twice: two visits would mean two equal ways to
\* them, the longer of which passes through the root again.
LEMMA WayApart ==
    ASSUME TreeSound, NEW n \in Nat, NEW way \in [1 .. n -> Keys], NEW d,
           Descends(way, n, d), NEW i \in 1 .. n, NEW j \in 1 .. n,
           nodes[way[i]].id = nodes[way[j]].id
    PROVE  i = j
<1> DEFINE T == {a \in Nat : a \in 1 .. n /\ \E b \in 1 .. n :
                               a < b /\ nodes[way[a]].id = nodes[way[b]].id}
<1>1. SUFFICES ASSUME T # {} PROVE FALSE
  <2>1. i < j => i \in T OBVIOUS
  <2>2. j < i => j \in T OBVIOUS
  <2> QED BY <2>1, <2>2
<1>2. T \in SUBSET Nat OBVIOUS
<1>3. PICK a \in T : \A x \in T : a <= x
  <2> HIDE DEF T
  <2> QED BY <1>1, <1>2, LeastNumber
<1>4. PICK b \in 1 .. n : a \in 1 .. n /\ a < b /\ nodes[way[a]].id = nodes[way[b]].id
  BY <1>3
<1>5. way[a] = way[b] BY <1>4 DEF TreeSound, Descends
<1>6. b > 1 /\ b - 1 \in 1 .. n /\ way[b][1] = nodes[way[b - 1]].id
  <2>1. b > 1 /\ b - 1 \in 1 .. n BY <1>4
  <2> QED BY <2>1 DEF Descends
<1>7. CASE a = 1
  <2>1. nodes[way[b - 1]].id = Root BY <1>4, <1>5, <1>6, <1>7 DEF Descends
  <2>2. nodes[way[b - 1]].id # Root BY <1>6 DEF TreeSound, Descends
  <2> QED BY <2>1, <2>2
<1>8. CASE a > 1
  <2>1. a - 1 \in Nat /\ a - 1 \in 1 .. n /\ a - 1 < b - 1 /\ ~(a <= a - 1)
    BY <1>4, <1>8
  <2>2. way[a][1] = nodes[way[a - 1]].id BY <1>4, <1>8 DEF Descends
  <2>3. nodes[way[a - 1]].id = nodes[way[b - 1]].id BY <1>5, <1>6, <2>2
  <2>4. a - 1 \in T BY <1>6, <2>1, <2>3
  <2> QED BY <1>3, <2>1, <2>4
<1> QED BY <1>4, <1>7, <1>8

\* So it is no longer than there are directories below the root.
LEMMA WayShort ==
    ASSUME TreeSound, NEW n \in Nat, NEW way \in [1 .. n -> Keys], NEW d,
           Descends(way, n, d)
    PROVE  n <= Depth /\ Depth \in Nat
<1> DEFINE S == 1 .. n
           T == dirs \ {Root}
           f == [i \in S |-> nodes[way[i]].id]
<1>1. IsFiniteSet(T)
  <2>1. T \subseteq dirs OBVIOUS
  <2> QED BY <2>1, FS_Subset DEF TreeSound
<1>2. IsFiniteSet(S) /\ Cardinality(S) = n
  <2>1. 1 \in Int /\ n \in Int OBVIOUS
  <2>2. IsFiniteSet(1 .. n) /\ Cardinality(1 .. n) = IF 1 > n THEN 0 ELSE n - 1 + 1
    BY <2>1, FS_Interval
  <2>3. (IF 1 > n THEN 0 ELSE n - 1 + 1) = n OBVIOUS
  <2> QED BY <2>2, <2>3
<1>3. f \in [S -> T]
  <2>1. ASSUME NEW i \in S PROVE nodes[way[i]].id \in T
    BY <2>1 DEF TreeSound, Descends
  <2> QED BY <2>1
<1>4. \A i, j \in S : f[i] = f[j] => i = j BY WayApart
<1>5. f \in Injection(S, T)
  <2> HIDE DEF f, S, T
  <2> QED BY <1>3, <1>4 DEF Injection, IsInjective
<1>6. Cardinality(S) <= Cardinality(T)
  <2> HIDE DEF f, S, T
  <2> QED BY <1>1, <1>2, <1>5, FS_Injection
<1>7. Cardinality(T) \in Nat BY <1>1, FS_CardinalityType
<1> QED BY <1>2, <1>6, <1>7 DEF Depth

\* Ways as the module has them, and as they are reasoned about here.
LEMMA StandsWay ==
    ASSUME TreeSound, NEW d, Stands(d)
    PROVE  d \in dirs /\ WaysTo(d) # {}
<1>0. PICK n \in Nat : \E way \in [1 .. n -> Keys] : Descends(way, n, d)
  BY DEF Stands
<1>1. PICK way \in [1 .. n -> Keys] : Descends(way, n, d) BY <1>0
<1>2. n \in 0 .. Depth
  <2>1. n <= Depth /\ Depth \in Nat BY <1>1, WayShort, Zenon
  <2> QED BY <2>1
<1>3. way \in UpTo(Depth, Keys) BY <1>1, <1>2 DEF UpTo
<1>4. Len(way) = n /\ DOMAIN way = 1 .. n BY <1>1
<1>5. IsWay(way, d)
  <2>1. CASE n = 0
    <3>1. way = <<>> BY <1>1, <2>1
    <3> QED BY <1>1, <2>1, <3>1 DEF IsWay, Descends
  <2>2. CASE n > 0
    <3>1. way # <<>> BY <1>4, <2>2
    <3>2. ASSUME NEW i \in 1 .. n
          PROVE  /\ nodes[way[i]].dir
                 /\ way[i][1] = IF i = 1 THEN Root ELSE nodes[way[i - 1]].id
      BY <1>1 DEF Descends
    <3> QED BY <1>1, <1>4, <2>2, <3>1, <3>2 DEF IsWay, Descends
  <2> QED BY <2>1, <2>2
<1>6. d \in dirs
  <2>1. CASE n = 0 BY <1>1, <2>1 DEF Descends, TreeSound
  <2>2. CASE n > 0
    <3>1. n \in 1 .. n BY <2>2
    <3> QED BY <1>1, <2>2, <3>1 DEF Descends, TreeSound
  <2> QED BY <2>1, <2>2
<1> QED BY <1>3, <1>5, <1>6 DEF WaysTo

LEMMA RootStands == Stands(Root)
<1>1. PICK way : way = [i \in 1 .. 0 |-> Root] OBVIOUS
<1>2. way \in [1 .. 0 -> Keys] BY <1>1
<1>3. Descends(way, 0, Root) BY DEF Descends
<1> QED BY <1>2, <1>3 DEF Stands

\* One name further.
LEMMA StandsDown ==
    ASSUME NEW d, Stands(d), NEW name, IsDir(d, name)
    PROVE  Stands(nodes[<<d, name>>].id)
<1> DEFINE key == <<d, name>>
<1>0. PICK n \in Nat : \E way \in [1 .. n -> Keys] : Descends(way, n, d)
  BY DEF Stands
<1>1. PICK way \in [1 .. n -> Keys] : Descends(way, n, d) BY <1>0
<1>2. PICK on : on = [i \in 1 .. (n + 1) |-> IF i = n + 1 THEN key ELSE way[i]]
  OBVIOUS
<1>3. key \in Keys /\ nodes[key].dir BY DEF IsDir, Has
<1>4. on \in [1 .. (n + 1) -> Keys] /\ on[n + 1] = key
      /\ \A i \in 1 .. n : on[i] = way[i]
  BY <1>1, <1>2, <1>3
<1>5. key[1] = d OBVIOUS
<1> HIDE DEF key
<1>6. ASSUME NEW i \in 1 .. (n + 1)
      PROVE  /\ nodes[on[i]].dir
             /\ i = 1 => on[i][1] = Root
             /\ i > 1 => on[i][1] = nodes[on[i - 1]].id
  <2>1. CASE i = n + 1 /\ n = 0 BY <1>1, <1>3, <1>4, <1>5, <2>1 DEF Descends
  <2>2. CASE i = n + 1 /\ n > 0
    <3>1. i - 1 = n /\ n \in 1 .. n /\ i # 1 BY <2>2
    <3> QED BY <1>1, <1>3, <1>4, <1>5, <2>2, <3>1 DEF Descends
  <2>3. CASE i # n + 1
    <3>1. i \in 1 .. n /\ (i > 1 => i - 1 \in 1 .. n) BY <2>3
    <3> QED BY <1>1, <1>4, <3>1 DEF Descends
  <2> QED BY <2>1, <2>2, <2>3
<1>7. Descends(on, n + 1, nodes[key].id) BY <1>4, <1>6 DEF Descends
<1> QED BY <1>4, <1>7 DEF Stands, key

\* One name less.
LEMMA StandsUp ==
    ASSUME NEW d, Stands(d), d # Root
    PROVE  \E k \in Keys : nodes[k].dir /\ nodes[k].id = d /\ Stands(k[1])
<1>0. PICK n \in Nat : \E way \in [1 .. n -> Keys] : Descends(way, n, d)
  BY DEF Stands
<1>1. PICK way \in [1 .. n -> Keys] : Descends(way, n, d) BY <1>0
<1>2. n > 0 /\ n \in 1 .. n BY <1>1 DEF Descends
<1>3. PICK m \in Nat : n = m + 1 BY <1>2
<1>4. PICK up : up = [i \in 1 .. m |-> way[i]] OBVIOUS
<1>5. up \in [1 .. m -> Keys] /\ \A i \in 1 .. m : up[i] = way[i] /\ i \in 1 .. n
  BY <1>3, <1>4
<1>6. nodes[way[n]].dir /\ nodes[way[n]].id = d BY <1>1, <1>2 DEF Descends
<1>7. Descends(up, m, way[n][1])
  <2>1. m = 0 => way[n][1] = Root BY <1>1, <1>2, <1>3 DEF Descends
  <2>2. m > 0 => nodes[up[m]].id = way[n][1]
    <3>1. m > 0 => n > 1 /\ n - 1 = m /\ m \in 1 .. m BY <1>3
    <3> QED BY <1>1, <1>2, <1>5, <3>1 DEF Descends
  <2>3. ASSUME NEW i \in 1 .. m
        PROVE  /\ nodes[up[i]].dir
               /\ i = 1 => up[i][1] = Root
               /\ i > 1 => up[i][1] = nodes[up[i - 1]].id
    <3>1. i > 1 => i - 1 \in 1 .. m OBVIOUS
    <3> QED BY <1>1, <1>5, <3>1 DEF Descends
  <2> QED BY <2>1, <2>2, <2>3 DEF Descends
<1> QED BY <1>2, <1>5, <1>6, <1>7 DEF Stands

LEMMA KeptStands ==
    ASSUME Kept, NEW d, Stands(d)
    PROVE  Stands(d)'
<1>0. PICK n \in Nat : \E way \in [1 .. n -> Keys] : Descends(way, n, d)
  BY DEF Stands
<1>1. PICK way \in [1 .. n -> Keys] : Descends(way, n, d) BY <1>0
<1>2. \A i \in 1 .. n : way[i] \in Keys' /\ nodes'[way[i]] = nodes[way[i]]
  BY DEF Kept
<1>3. way \in [1 .. n -> Keys'] BY <1>2
<1>4. Descends(way, n, d)'
  <2>1. \A i \in 1 .. n : i > 1 => i - 1 \in 1 .. n OBVIOUS
  <2>2. n > 0 => n \in 1 .. n OBVIOUS
  <2> QED BY <1>1, <1>2, <2>1, <2>2 DEF Descends
<1> QED BY <1>3, <1>4 DEF Stands

\* Deleting a name in a directory leaves the ways to that directory.
LEMMA DeleteStands ==
    ASSUME TreeSound, NEW d, NEW name, DeleteNode(d, name), Stands(d)
    PROVE  Stands(d)'
<1> DEFINE key  == <<d, name>>
           node == nodes[key]
           gone == IF node.dir THEN {node.id} ELSE {}
           kept == {k \in Keys : k # key /\ k[1] \notin gone}
<1>1. /\ nodes' = Only(kept) /\ Keys' = kept /\ key \in Keys
      /\ \A k \in kept : nodes'[k] = nodes[k]
  BY DEF DeleteNode, Only, Keys, Has
<1>0. PICK n \in Nat : \E way \in [1 .. n -> Keys] : Descends(way, n, d)
  BY DEF Stands
<1>2. PICK way \in [1 .. n -> Keys] : Descends(way, n, d) BY <1>0
<1>3. key[1] = d OBVIOUS
<1> HIDE DEF key
<1>4. ASSUME NEW i \in 1 .. n PROVE way[i] # key
  <2>1. SUFFICES ASSUME way[i] = key PROVE FALSE OBVIOUS
  <2>2. CASE i = 1
    <3>1. d = Root /\ n \in 1 .. n BY <1>2, <1>3, <2>1, <2>2 DEF Descends
    <3> QED BY <1>2, <3>1 DEF Descends, TreeSound
  <2>3. CASE i > 1
    <3>1. i - 1 \in 1 .. n /\ n \in 1 .. n /\ i - 1 # n BY <2>3
    <3>2. nodes[way[i - 1]].id = d BY <1>2, <1>3, <2>1, <2>3 DEF Descends
    <3>3. nodes[way[n]].id = d BY <1>2, <3>1 DEF Descends
    <3> QED BY <1>2, <3>1, <3>2, <3>3, WayApart
  <2> QED BY <2>2, <2>3
<1>5. ASSUME NEW i \in 1 .. n, node.dir PROVE way[i][1] # node.id
  <2>1. SUFFICES ASSUME way[i][1] = node.id PROVE FALSE OBVIOUS
  <2>2. CASE i = 1
    BY <1>1, <1>2, <1>5, <2>1, <2>2 DEF Descends, TreeSound
  <2>3. CASE i > 1
    <3>1. i - 1 \in 1 .. n BY <2>3
    <3>2. nodes[way[i - 1]].id = nodes[key].id /\ nodes[way[i - 1]].dir
      BY <1>2, <2>1, <2>3, <3>1 DEF Descends
    <3>3. way[i - 1] = key BY <1>1, <1>5, <3>1, <3>2 DEF TreeSound
    <3> QED BY <1>4, <3>1, <3>3
  <2> QED BY <2>2, <2>3
<1>6. \A i \in 1 .. n : way[i] \in kept
  BY <1>4, <1>5
<1>7. way \in [1 .. n -> Keys'] BY <1>1, <1>6
<1>8. Descends(way, n, d)'
  <2>1. \A i \in 1 .. n : i > 1 => i - 1 \in 1 .. n OBVIOUS
  <2>2. n > 0 => n \in 1 .. n OBVIOUS
  <2>3. \A i \in 1 .. n : nodes'[way[i]] = nodes[way[i]] BY <1>1, <1>6
  <2> HIDE DEF kept, gone, node
  <2> QED BY <1>2, <2>1, <2>2, <2>3 DEF Descends
<1> QED BY <1>7, <1>8 DEF Stands

LEMMA SameTree == TreeSound /\ UNCHANGED <<dirs, nodes>> => TreeSound'
BY DEF TreeSound, Keys

LEMMA FileTreeSound ==
    ASSUME TreeSound, NEW d, NEW name, NEW data,
           WriteRefused(d, name) \/ WriteLost(d, name) \/ CreateFile(d, name, data)
    PROVE  TreeSound'
<1>1. CASE WriteRefused(d, name) \/ WriteLost(d, name)
  BY <1>1, SameTree DEF WriteRefused, WriteLost, Keep
<1>2. CASE CreateFile(d, name, data)
  <2> DEFINE key == <<d, name>>
  <2>1. /\ Keys' = Keys \cup {key} /\ dirs' = dirs /\ d \in dirs
        /\ nodes'[key] = FileNode(data)
        /\ \A k \in Keys : nodes'[k] = nodes[k]
    <3>1. key \notin Keys BY <1>2 DEF CreateFile, Has
    <3>2. nodes' = With(key, FileNode(data)) BY <1>2 DEF CreateFile
    <3>3. Keys' = Keys \cup {key} BY <3>2 DEF With, Keys
    <3>4. nodes'[key] = FileNode(data) BY <3>2 DEF With
    <3>5. \A k \in Keys : nodes'[k] = nodes[k] BY <3>1, <3>2 DEF With
    <3> QED BY <1>2, <3>3, <3>4, <3>5 DEF CreateFile
  <2>2. key[1] = d /\ ~FileNode(data).dir BY DEF FileNode
  <2> HIDE DEF key
  <2>3. \A k \in Keys' : nodes'[k].dir => k \in Keys
    BY <2>1, <2>2
  <2> QED BY <2>1, <2>2, <2>3 DEF TreeSound
<1> QED BY <1>1, <1>2

LEMMA DirTreeSound ==
    ASSUME TreeSound, NEW d, NEW name, CreateDirectory(d, name)
    PROVE  TreeSound'
<1> DEFINE key == <<d, name>>
<1>1. PICK id \in Ids \ dirs :
        dirs' = dirs \cup {id} /\ nodes' = With(key, DirNode(id))
  BY DEF CreateDirectory
<1>2. d \in dirs /\ key \notin Keys BY DEF CreateDirectory, Has
<1>3. /\ Keys' = Keys \cup {key}
      /\ nodes'[key] = DirNode(id)
      /\ \A k \in Keys : nodes'[k] = nodes[k]
  <2>1. Keys' = Keys \cup {key} BY <1>1 DEF With, Keys
  <2>2. nodes'[key] = DirNode(id) BY <1>1 DEF With
  <2>3. \A k \in Keys : nodes'[k] = nodes[k] BY <1>1, <1>2 DEF With
  <2> QED BY <2>1, <2>2, <2>3
<1>4. key[1] = d /\ DirNode(id).dir /\ DirNode(id).id = id BY DEF DirNode
<1> HIDE DEF key
<1>5. IsFiniteSet(dirs') /\ Root \in dirs' /\ id # Root
  <2>1. IsFiniteSet(dirs) /\ Root \in dirs BY DEF TreeSound
  <2>2. IsFiniteSet(dirs \cup {id}) BY <2>1, FS_AddElement
  <2> QED BY <1>1, <2>1, <2>2
<1>6. \A k \in Keys' : k[1] \in dirs' BY <1>1, <1>2, <1>3, <1>4 DEF TreeSound
<1>7. \A k \in Keys' : nodes'[k].dir => nodes'[k].id \in dirs' \ {Root}
  <2>1. ASSUME NEW k \in Keys', nodes'[k].dir
        PROVE  nodes'[k].id \in dirs' \ {Root}
    <3>1. CASE k = key BY <1>1, <1>3, <1>4, <1>5, <3>1
    <3>2. CASE k # key
      <4>1. k \in Keys /\ nodes'[k] = nodes[k] BY <1>3, <2>1, <3>2
      <4> QED BY <1>1, <2>1, <4>1 DEF TreeSound
    <3> QED BY <3>1, <3>2
  <2> QED BY <2>1
<1>8. ASSUME NEW j \in Keys', NEW k \in Keys', nodes'[j].dir, nodes'[k].dir,
             nodes'[j].id = nodes'[k].id
      PROVE  j = k
  <2>1. \A x \in Keys : nodes[x].dir => nodes'[x].id # id
    BY <1>1, <1>3 DEF TreeSound
  <2>2. CASE j = key /\ k \in Keys BY <1>3, <1>4, <1>8, <2>1, <2>2
  <2>3. CASE k = key /\ j \in Keys BY <1>3, <1>4, <1>8, <2>1, <2>3
  <2>4. CASE j \in Keys /\ k \in Keys BY <1>3, <1>8, <2>4 DEF TreeSound
  <2> QED BY <1>3, <2>2, <2>3, <2>4
<1> QED BY <1>5, <1>6, <1>7, <1>8 DEF TreeSound

LEMMA DeleteTreeSound ==
    ASSUME TreeSound, NEW d, NEW name,
           DeleteRefused(d, name) \/ DeleteNode(d, name)
    PROVE  TreeSound'
<1>1. CASE DeleteRefused(d, name)
  BY <1>1, SameTree DEF DeleteRefused, Keep
<1>2. CASE DeleteNode(d, name)
  <2> DEFINE key  == <<d, name>>
             node == nodes[key]
             gone == IF node.dir THEN {node.id} ELSE {}
             kept == {k \in Keys : k # key /\ k[1] \notin gone}
  <2>1. /\ dirs' = dirs \ gone /\ Keys' = kept /\ key \in Keys
        /\ \A k \in kept : nodes'[k] = nodes[k]
    BY <1>2 DEF DeleteNode, Only, Keys, Has
  <2> HIDE DEF key
  <2>2. IsFiniteSet(dirs')
    <3>1. dirs \ gone \subseteq dirs OBVIOUS
    <3> QED BY <2>1, <3>1, FS_Subset DEF TreeSound
  <2>3. Root \notin gone BY <2>1 DEF TreeSound
  <2>4. \A k \in kept : nodes[k].dir => nodes[k].id \notin gone
    BY <2>1 DEF TreeSound
  <2>5. \A k \in kept : k \in Keys /\ k[1] \notin gone OBVIOUS
  <2> HIDE DEF kept, gone, node
  <2> QED BY <2>1, <2>2, <2>3, <2>4, <2>5 DEF TreeSound
<1> QED BY <1>1, <1>2

LEMMA NextTree == TreeSound /\ [NextShell]_shellVars => TreeSound'
<1> SUFFICES ASSUME TreeSound, [NextShell]_shellVars PROVE TreeSound'
  OBVIOUS
<1>1. CASE ReadLine \/ Invalid BY <1>1, SameTree DEF ReadLine, Invalid, Path, Keep
<1>2. CASE List \/ Show BY <1>2, SameTree DEF List, Show, Children, Read, Keep
<1>3. CASE Arrive \/ LoadShell \/ UNCHANGED shellVars
  BY <1>3, SameTree DEF Arrive, LoadShell, shellVars, treeVars
<1>4. CASE GoUp BY <1>4, SameTree DEF GoUp, treeVars, Parent, Keep
<1>5. CASE LookDown \/ Enter
  BY <1>5, SameTree DEF LookDown, Enter, ReadDirectory, Child, Keep
<1>6. CASE CopyRead BY <1>6, SameTree DEF CopyRead, Read, Keep
<1>7. CASE CopyWrite BY <1>7, FileTreeSound DEF CopyWrite
<1>8. CASE MkdirLook BY <1>8, SameTree DEF MkdirLook, ReadDirectory, Keep
<1>9. CASE MkdirMake BY <1>9, FileTreeSound, DirTreeSound DEF MkdirMake
<1>10. CASE Whereis \/ Tell
  BY <1>10, SameTree DEF Whereis, Tell, Search, Path, Keep, treeVars
<1>11. CASE OtherWrites BY <1>11, FileTreeSound DEF OtherWrites
<1>12. CASE PowerOff BY <1>12, SameTree DEF PowerOff, Restart
<1>13. CASE Remove BY <1>13, DeleteTreeSound DEF Remove
<1> QED
  BY <1>1, <1>2, <1>3, <1>4, <1>5, <1>6, <1>7, <1>8, <1>9, <1>10, <1>11, <1>12,
     <1>13 DEF NextShell, Step

\* The shell stands, a command that walks can come back, and what is entered
\* is a directory.
Standing ==
    /\ Stands(cwd)
    /\ pc \in {"read", "walk", "enter", "write"} => Stands(temp_cwd)
    /\ pc = "enter" => IsDir(cwd, Head(todo))

LEMMA WalkedStands ==
    ASSUME Standing, pc \in {"walk", "enter"}, Kept, NEW ok, Walked(ok)
    PROVE  Standing'
<1>1. /\ pc' \in {"write", "show", "prompt"} /\ temp_cwd' = temp_cwd
      /\ cwd' \in {cwd, temp_cwd}
  BY DEF Walked, Goto
<1>2. Stands(cwd)' /\ Stands(temp_cwd)'
  <2>1. \A d : Stands(d) => Stands(d)' BY KeptStands
  <2>2. Stands(cwd) /\ Stands(temp_cwd) BY DEF Standing
  <2>3. \A d : d = cwd \/ d = temp_cwd => Stands(d)'
    BY <2>1, <2>2
  <2> QED BY <1>1, <2>3
<1> QED BY <1>1, <1>2 DEF Standing

\* The working directory, and the one to come back to, are where they were.
LEMMA StayStands ==
    ASSUME Standing, Kept, UNCHANGED <<cwd, temp_cwd, todo>>,
           pc' \in {"read", "walk", "enter", "write"}
             => pc \in {"read", "walk", "enter", "write"},
           pc' = "enter" => IsDir(cwd, Head(todo))
    PROVE  Standing'
<1>1. Stands(cwd)' /\ (Stands(temp_cwd) => Stands(temp_cwd)')
  <2>1. \A d : Stands(d) => Stands(d)' BY KeptStands
  <2>2. Stands(cwd) BY DEF Standing
  <2> QED BY <2>1, <2>2
<1>2. IsDir(cwd, Head(todo)) => IsDir(cwd, Head(todo))'
  BY DEF IsDir, Has, Kept
<1> QED BY <1>1, <1>2 DEF Standing

LEMMA GoUpStands ==
    ASSUME Standing, TreeSound, GoUp
    PROVE  Standing'
<1>0. Kept BY TreeKeeps, WayKeeps DEF GoUp
<1>1. CASE Fail BY <1>0, <1>1, WalkedStands DEF Fail, GoUp
<1>2. CASE cwd' = cwd /\ Goto("walk")
  <2>1. pc = "walk" /\ pc' = "walk" /\ temp_cwd' = temp_cwd
    BY <1>2 DEF GoUp, Goto
  <2>2. \A d : Stands(d) => Stands(d)' BY <1>0, KeptStands
  <2>3. Stands(cwd) /\ Stands(temp_cwd) BY <2>1 DEF Standing
  <2> QED BY <1>2, <2>1, <2>2, <2>3 DEF Standing
<1>3. CASE cwd # Root /\ Parent(cwd) /\ cwd' = reply'.code /\ Goto("walk")
  <2>1. pc = "walk" /\ pc' = "walk" /\ temp_cwd' = temp_cwd
    BY <1>3 DEF GoUp, Goto
  <2>2. Stands(cwd) /\ Stands(temp_cwd) BY <2>1 DEF Standing
  <2>3. PICK k \in Keys : nodes[k].dir /\ nodes[k].id = cwd /\ Stands(k[1])
    BY <1>3, <2>2, StandsUp
  <2>4. reply'.code = k[1]
    BY <1>3, <2>3 DEF Parent, Keep, Answer
  <2>5. \A d : Stands(d) => Stands(d)' BY <1>0, KeptStands
  <2>6. cwd' = k[1] BY <1>3, <2>4
  <2>7. Stands(cwd)' BY <2>3, <2>5, <2>6
  <2>8. Stands(temp_cwd)' BY <2>1, <2>2, <2>5
  <2> QED BY <2>1, <2>7, <2>8 DEF Standing
<1> QED BY <1>1, <1>2, <1>3 DEF GoUp

LEMMA LookStands ==
    ASSUME Standing, TreeSound, LookDown
    PROVE  Standing'
<1>0. Kept BY LookKeeps DEF LookDown
<1>1. CASE Fail BY <1>0, <1>1, WalkedStands DEF Fail, LookDown
<1>2. CASE reply'.code = 0 /\ Goto("enter") /\ UNCHANGED <<cwd, todo>>
  <2>1. IsDir(cwd, Head(todo))
    BY <1>2 DEF LookDown, ReadDirectory, Keep, Answer
  <2>2. pc = "walk" /\ UNCHANGED temp_cwd BY <1>2 DEF LookDown, Goto
  <2> QED BY <1>0, <1>2, <2>1, <2>2, StayStands
<1>3. CASE reply'.code = -1
  <2>1. cwd \notin dirs
    BY <1>3 DEF LookDown, ReadDirectory, Keep, Answer
  <2>2. cwd \in dirs BY StandsWay DEF Standing
  <2> QED BY <2>1, <2>2
<1> QED BY <1>1, <1>2, <1>3 DEF LookDown

LEMMA EnterStands ==
    ASSUME Standing, TreeSound, Enter
    PROVE  Standing'
<1>0. Kept BY LookKeeps DEF Enter
<1> DEFINE name == Head(todo)
<1>1. /\ pc = "enter" /\ Child(cwd, name) /\ cwd' = reply'.code
      /\ pc' = "walk" /\ temp_cwd' = temp_cwd
  BY DEF Enter, Goto
<1>2. IsDir(cwd, name) /\ Stands(cwd) /\ Stands(temp_cwd)
  BY <1>1 DEF Standing
<1> HIDE DEF name
<1>3. cwd' = nodes[<<cwd, name>>].id
  BY <1>1, <1>2 DEF Child, IsDir, Keep, Answer
<1>4. \A d : Stands(d) => Stands(d)' BY <1>0, KeptStands
<1>5. Stands(nodes[<<cwd, name>>].id) BY <1>2, StandsDown
<1>6. Stands(cwd)' BY <1>3, <1>4, <1>5
<1>7. Stands(temp_cwd)' BY <1>1, <1>2, <1>4
<1> QED BY <1>1, <1>6, <1>7 DEF Standing

LEMMA CopyStands ==
    ASSUME Standing, TreeSound, CopyRead \/ CopyWrite
    PROVE  Standing'
<1>0. Kept BY ReadKeeps, WriteKeeps DEF CopyRead, CopyWrite
<1>1. \A d : Stands(d) => Stands(d)' BY <1>0, KeptStands
<1>2. /\ pc \in {"read", "write"} /\ pc' # "enter" /\ temp_cwd' = temp_cwd
      /\ cwd' \in {cwd, temp_cwd}
  BY DEF CopyRead, CopyWrite, AfterWrite, AfterCopy, Goto
<1>3. Stands(cwd) /\ Stands(temp_cwd) BY <1>2 DEF Standing
<1>4. Stands(cwd)' /\ Stands(temp_cwd)'
  <2>1. \A d : d = cwd \/ d = temp_cwd => Stands(d)' BY <1>1, <1>3
  <2> QED BY <1>2, <2>1
<1> QED BY <1>2, <1>4 DEF Standing

LEMMA RemoveStands ==
    ASSUME Standing, TreeSound, Remove
    PROVE  Standing'
<1>1. UNCHANGED cwd /\ pc' = "prompt" BY DEF Remove, Goto, Keeping
<1>2. Stands(cwd) BY DEF Standing
<1>3. \A d : d = cwd => Stands(d)'
  <2>1. CASE DeleteRefused(cwd, line.name)
    BY <1>2, <2>1, KeepKeeps, KeptStands DEF DeleteRefused
  <2>2. CASE DeleteNode(cwd, line.name)
    BY <1>2, <2>2, DeleteStands
  <2> QED BY <2>1, <2>2 DEF Remove
<1>4. Stands(cwd)' BY <1>1, <1>3
<1> QED BY <1>1, <1>4 DEF Standing

LEMMA NextStands ==
    TreeSound /\ Standing /\ [NextShell]_shellVars => Standing'
<1> SUFFICES ASSUME TreeSound, Standing, [NextShell]_shellVars PROVE Standing'
  OBVIOUS
<1>1. CASE ReadLine
  <2>1. Kept BY <1>1, WayKeeps DEF ReadLine
  <2>2. UNCHANGED cwd /\ temp_cwd' = cwd BY <1>1 DEF ReadLine
  <2>3. \A d : Stands(d) => Stands(d)' BY <2>1, KeptStands
  <2>4. Stands(cwd)' /\ Stands(temp_cwd)' BY <2>2, <2>3 DEF Standing
  <2>5. pc' # "enter"
    <3>1. line'.cmd \in {"ls", "cat", "rm", "whereis", "mkdir", "cd", "mv", "cp"}
      BY <1>1 DEF ReadLine, Lines
    <3>2. pc' = First[line'.cmd] BY <1>1 DEF ReadLine
    <3> QED BY <3>1, <3>2 DEF First
  <2> QED BY <2>4, <2>5 DEF Standing
<1>2. CASE Invalid \/ List \/ Show \/ MkdirLook \/ MkdirMake \/ Whereis \/ Tell
  <2>1. UNCHANGED <<cwd, temp_cwd, todo>>
    BY <1>2 DEF Invalid, List, Show, MkdirLook, MkdirMake, Whereis, Tell, Goto,
       Keeping
  <2>2. pc' \in {"prompt", "make", "tell", "stuck"}
    BY <1>2 DEF Invalid, List, Show, MkdirLook, MkdirMake, Whereis, Tell, Goto
  <2>3. Kept
    <3>1. CASE Invalid BY <3>1, WayKeeps DEF Invalid
    <3>2. CASE List \/ Show BY <3>2, WayKeeps, ReadKeeps DEF List, Show
    <3>3. CASE MkdirLook \/ MkdirMake
      BY <3>3, LookKeeps, WriteKeeps DEF MkdirLook, MkdirMake
    <3>4. CASE Whereis BY <3>4, SearchKeeps DEF Whereis
    <3>5. CASE Tell BY <3>5, TreeKeeps, WayKeeps DEF Tell
    <3> QED BY <1>2, <3>1, <3>2, <3>3, <3>4, <3>5
  <2> QED BY <2>1, <2>2, <2>3, StayStands
<1>3. CASE Arrive
  <2>1. Kept BY <1>3, TreeKeeps DEF Arrive
  <2> QED BY <1>3, <2>1, WalkedStands DEF Arrive
<1>4. CASE GoUp BY <1>4, GoUpStands
<1>5. CASE LookDown BY <1>5, LookStands
<1>6. CASE Enter BY <1>6, EnterStands
<1>7. CASE CopyRead \/ CopyWrite BY <1>7, CopyStands
<1>8. CASE Remove BY <1>8, RemoveStands
<1>9. CASE OtherWrites
  <2>1. Kept BY <1>9, WriteKeeps DEF OtherWrites
  <2>2. UNCHANGED <<cwd, temp_cwd, todo>> /\ pc' = "off"
    BY <1>9 DEF OtherWrites, Keeping
  <2> QED BY <2>1, <2>2, StayStands
<1>10. CASE PowerOff \/ LoadShell
  <2>1. cwd' = Root /\ pc' \in {"off", "prompt"}
    BY <1>10 DEF PowerOff, LoadShell, Fresh
  <2>2. Stands(Root)' BY RootStands, PTL
  <2> QED BY <2>1, <2>2 DEF Standing
<1>11. CASE UNCHANGED shellVars
  <2>1. Kept BY <1>11, TreeKeeps DEF shellVars
  <2>2. UNCHANGED <<cwd, temp_cwd, todo, pc>> BY <1>11 DEF shellVars
  <2> QED BY <2>1, <2>2, StayStands DEF Standing
<1> QED
  BY <1>1, <1>2, <1>3, <1>4, <1>5, <1>6, <1>7, <1>8, <1>9, <1>10, <1>11
     DEF NextShell, Step

LEMMA InitStands == InitShell => TreeSound /\ Standing
<1> SUFFICES ASSUME InitShell PROVE TreeSound /\ Standing OBVIOUS
<1>1. dirs = {Root} /\ Keys = {} BY DEF InitShell, Init, Keys
<1>2. TreeSound BY <1>1, FS_Singleton DEF TreeSound
<1>3. Standing BY RootStands DEF InitShell, Standing
<1> QED BY <1>2, <1>3

\* Whatever the commands do, the shell's directory exists and can be named from
\* the root: no rm or mv removes it, or a directory on the way to it.
THEOREM ShellStands == SpecShell => []CwdStands
<1>1. InitShell => TreeSound /\ Standing BY InitStands
<1>2. TreeSound /\ Standing /\ [NextShell]_shellVars => (TreeSound /\ Standing)'
  BY NextTree, NextStands
<1>3. TreeSound /\ Standing => CwdStands
  BY StandsWay DEF Standing, CwdStands
<1> QED BY <1>1, <1>2, <1>3, PTL DEF SpecShell

----------------------------------------------------------------------------
(* A cd goes the whole way or nowhere. *)

\* These directories follow each other along the first n components.
Along(n, path, via) == \A i \in 1 .. n : Leads(via[i], path[i], via[i + 1])

\* The shell has gone the first n components of the path by way of these
\* directories, and has the others still to enter.
Going(n, via) ==
    /\ n + Len(todo) = Len(line.path)
    /\ \A i \in 1 .. Len(todo) : todo[i] = line.path[n + i]
    /\ via[1] = temp_cwd /\ via[n + 1] = cwd
    /\ \A i \in 1 .. n : Leads(via[i], line.path[i], via[i + 1])

OnTheWay == \E n \in Nat : \E via \in [1 .. n + 1 -> dirs] : Going(n, via)

CdInv ==
    line.cmd = "cd" =>
        /\ pc \in {"walk", "enter", "prompt"}
        /\ line.path \in Seq(Components)
        /\ pc \in {"walk", "enter"} => todo \in Seq(Components) /\ OnTheWay
        /\ pc = "enter" => todo # <<>> /\ Head(todo) # Up
        /\ CdWholeWay

\* From a directory a component leads to one directory only.
LEMMA LeadsOnce ==
    ASSUME TreeSound, NEW d, NEW step, NEW e, NEW f,
           Leads(d, step, e), Leads(d, step, f)
    PROVE  e = f
<1>1. CASE step = Up /\ d = Root BY <1>1 DEF Leads
<1>2. CASE step = Up /\ d # Root BY <1>2 DEF Leads, TreeSound
<1>3. CASE step # Up BY <1>3 DEF Leads
<1> QED BY <1>1, <1>2, <1>3

\* So two walks along the same components go by the same directories.
LEMMA WalksAgree ==
    ASSUME TreeSound, NEW n \in Nat, NEW path, NEW via, NEW other,
           via[1] = other[1],
           Along(n, path, via), Along(n, path, other)
    PROVE  via[n + 1] = other[n + 1]
<1> DEFINE T == {i \in Nat : i \in 1 .. (n + 1) /\ via[i] # other[i]}
<1>1. SUFFICES ASSUME T # {} PROVE FALSE
  <2>1. n + 1 \in Nat /\ n + 1 \in 1 .. (n + 1) OBVIOUS
  <2> QED BY <2>1
<1>2. T \in SUBSET Nat OBVIOUS
<1>3. PICK i \in T : \A x \in T : i <= x
  <2> HIDE DEF T
  <2> QED BY <1>1, <1>2, LeastNumber
<1>4. i \in 1 .. (n + 1) /\ via[i] # other[i] /\ i # 1 BY <1>3
<1>5. PICK j \in Nat : i = j + 1 /\ j \in 1 .. n /\ j \in 1 .. (n + 1) /\ ~(i <= j)
  <2>1. i - 1 \in Nat /\ i = (i - 1) + 1 /\ i - 1 \in 1 .. n
        /\ i - 1 \in 1 .. (n + 1) /\ ~(i <= i - 1)
    BY <1>4
  <2> QED BY <2>1
<1>6. via[j] = other[j] BY <1>3, <1>5
<1>7. Leads(via[j], path[j], via[i]) /\ Leads(via[j], path[j], other[i])
  BY <1>5, <1>6 DEF Along
<1> QED BY <1>4, <1>7, LeadsOnce

LEMMA FirstComponent ==
    ASSUME todo \in Seq(Components), todo # <<>>
    PROVE  /\ Len(todo) \in Nat /\ 1 \in 1 .. Len(todo)
           /\ Head(todo) = todo[1]
           /\ Tail(todo) \in Seq(Components)
           /\ Len(todo) = Len(Tail(todo)) + 1 /\ Len(Tail(todo)) \in Nat
           /\ \A i \in 1 .. Len(Tail(todo)) :
                  Tail(todo)[i] = todo[i + 1] /\ i + 1 \in 1 .. Len(todo)
<1>1. /\ Tail(todo) \in Seq(Components) /\ Len(Tail(todo)) = Len(todo) - 1
      /\ \A i \in 1 .. Len(Tail(todo)) : Tail(todo)[i] = todo[i + 1]
  BY HeadTailProperties
<1>2. Len(todo) \in Nat /\ Len(Tail(todo)) \in Nat BY <1>1
<1>3. Len(todo) = Len(Tail(todo)) + 1 /\ 1 \in 1 .. Len(todo) BY <1>1, <1>2
<1>4. Head(todo) = todo[1] OBVIOUS
<1>5. \A i \in 1 .. Len(Tail(todo)) : i + 1 \in 1 .. Len(todo) BY <1>2, <1>3
<1> QED BY <1>1, <1>2, <1>3, <1>4, <1>5

\* One component further.
LEMMA Further ==
    ASSUME OnTheWay, line.path \in Seq(Components),
           todo \in Seq(Components), todo # <<>>,
           UNCHANGED <<dirs, nodes, line, temp_cwd>>, todo' = Tail(todo),
           Leads(cwd, Head(todo), cwd'), cwd' \in dirs
    PROVE  OnTheWay' /\ todo' \in Seq(Components)
<1>1. PICK n \in Nat : \E via \in [1 .. n + 1 -> dirs] : Going(n, via)
  BY DEF OnTheWay
<1>2. PICK via \in [1 .. n + 1 -> dirs] : Going(n, via) BY <1>1
<1>3. PICK t \in Nat : t = Len(todo') /\ Len(todo) = t + 1
  BY FirstComponent
<1>4. PICK m \in Nat : m = n + 1 OBVIOUS
<1>5. PICK on : on = [i \in 1 .. (m + 1) |-> IF i = m + 1 THEN cwd' ELSE via[i]]
  OBVIOUS
<1>6. /\ on \in [1 .. m + 1 -> dirs] /\ on[m + 1] = cwd'
      /\ \A i \in 1 .. m : on[i] = via[i]
      /\ 1 \in 1 .. m
  BY <1>2, <1>4, <1>5
<1>7. n + (t + 1) = m + t BY <1>4
<1>8. m + Len(todo') = Len(line'.path) BY <1>2, <1>3, <1>7 DEF Going
<1>9. ASSUME NEW i \in 1 .. t PROVE todo'[i] = line'.path[m + i]
  <2>1. n + (i + 1) = m + i BY <1>4
  <2>2. todo'[i] = todo[i + 1] /\ i + 1 \in 1 .. Len(todo)
    BY <1>3, FirstComponent
  <2>3. todo[i + 1] = line.path[n + (i + 1)] BY <1>2, <2>2 DEF Going
  <2> QED BY <2>1, <2>2, <2>3
<1>10. ASSUME NEW i \in 1 .. m PROVE Leads(on[i], line.path[i], on[i + 1])
  <2>1. CASE i = m
    <3>1. via[m] = cwd BY <1>2, <1>4 DEF Going
    <3>2. Head(todo) = line.path[n + 1] BY <1>2, FirstComponent DEF Going
    <3> QED BY <1>4, <1>6, <2>1, <3>1, <3>2
  <2>2. CASE i # m
    <3>1. i \in 1 .. n /\ i + 1 \in 1 .. m BY <1>4, <2>2
    <3>2. Leads(via[i], line.path[i], via[i + 1]) BY <1>2, <3>1 DEF Going
    <3> QED BY <1>6, <3>1, <3>2
  <2> QED BY <2>1, <2>2
<1>11. \A i \in 1 .. m : Leads(on[i], line.path[i], on[i + 1])'
  <2>1. \A d, step, e : Leads(d, step, e) => Leads(d, step, e)'
    BY DEF Leads, IsDir, Has, Keys
  <2> QED BY <1>10, <2>1
<1>12. Going(m, on)'
  <2>1. on[1] = temp_cwd' BY <1>2, <1>4, <1>6 DEF Going
  <2> QED BY <1>3, <1>6, <1>8, <1>9, <1>11, <2>1 DEF Going
<1>13. todo' \in Seq(Components) BY FirstComponent
<1> QED BY <1>6, <1>12, <1>13 DEF OnTheWay

\* All components are behind: the goal is reached.
LEMMA WholeWay ==
    ASSUME OnTheWay, line.path \in Seq(Components), todo = <<>>, cwd \in dirs
    PROVE  cwd \in LeadsTo(temp_cwd, line.path)
<1>1. PICK n \in Nat : \E via \in [1 .. n + 1 -> dirs] : Going(n, via)
  BY DEF OnTheWay
<1>2. PICK via \in [1 .. n + 1 -> dirs] : Going(n, via) BY <1>1
<1>3. Len(todo) = 0 /\ Len(line.path) \in Nat OBVIOUS
<1>4. n = Len(line.path) /\ DOMAIN line.path = 1 .. n
  <2>1. n + 0 = Len(line.path) BY <1>2, <1>3 DEF Going
  <2>2. n = Len(line.path) BY <1>3, <2>1
  <2>3. DOMAIN line.path = 1 .. Len(line.path) OBVIOUS
  <2> QED BY <2>2, <2>3
<1>5. via \in [1 .. Len(line.path) + 1 -> dirs] BY <1>4
<1>6. /\ via[1] = temp_cwd /\ via[Len(line.path) + 1] = cwd
      /\ \A i \in DOMAIN line.path : Leads(via[i], line.path[i], via[i + 1])
  BY <1>2, <1>4 DEF Going
<1> QED BY <1>5, <1>6 DEF LeadsTo

\* A name that is no directory's: the path leads nowhere.
LEMMA NoWay ==
    ASSUME TreeSound, OnTheWay, line.path \in Seq(Components),
           todo \in Seq(Components), todo # <<>>,
           Head(todo) # Up, ~IsDir(cwd, Head(todo))
    PROVE  LeadsTo(temp_cwd, line.path) = {}
<1>1. SUFFICES ASSUME NEW e \in LeadsTo(temp_cwd, line.path) PROVE FALSE
  OBVIOUS
<1>2. PICK n \in Nat : \E via \in [1 .. n + 1 -> dirs] : Going(n, via)
  BY DEF OnTheWay
<1>3. PICK via \in [1 .. n + 1 -> dirs] : Going(n, via) BY <1>2
<1>4. PICK other \in [1 .. Len(line.path) + 1 -> dirs] :
        /\ other[1] = temp_cwd
        /\ \A i \in DOMAIN line.path : Leads(other[i], line.path[i], other[i + 1])
  BY <1>1 DEF LeadsTo
<1>5. PICK t \in Nat : Len(todo) = t + 1 BY FirstComponent
<1>6. DOMAIN line.path = 1 .. Len(line.path) OBVIOUS
<1>7. Len(line.path) = n + (t + 1) BY <1>3, <1>5 DEF Going
<1>8. /\ n + 1 \in 1 .. (n + (t + 1))
      /\ \A i \in 1 .. n : i \in 1 .. (n + (t + 1))
  OBVIOUS
<1>9. via[n + 1] = other[n + 1]
  <2>1. Along(n, line.path, via) BY <1>3 DEF Going, Along
  <2>2. Along(n, line.path, other) BY <1>4, <1>6, <1>7, <1>8 DEF Along
  <2>3. via[1] = other[1] BY <1>3, <1>4 DEF Going
  <2> QED BY <2>1, <2>2, <2>3, WalksAgree, Zenon
<1>10. Leads(other[n + 1], line.path[n + 1], other[(n + 1) + 1])
  BY <1>4, <1>6, <1>7, <1>8
<1>11. other[n + 1] = cwd /\ line.path[n + 1] = Head(todo)
  BY <1>3, <1>9, FirstComponent DEF Going
<1> QED BY <1>10, <1>11 DEF Leads

\* A ".." that is met in the root leaves it: the components before it were gone.
LEMMA LeavesHere ==
    ASSUME OnTheWay, line.path \in Seq(Components),
           todo \in Seq(Components), todo # <<>>,
           Head(todo) = Up, cwd = Root, cwd \in dirs
    PROVE  LeavesRoot(temp_cwd, line.path)
<1>1. PICK n \in Nat : \E via \in [1 .. n + 1 -> dirs] : Going(n, via)
  BY DEF OnTheWay
<1>2. PICK via \in [1 .. n + 1 -> dirs] : Going(n, via) BY <1>1
<1>3. PICK t \in Nat : Len(todo) = t + 1 BY FirstComponent
<1>4. Len(line.path) = n + (t + 1) BY <1>2, <1>3 DEF Going
<1>5. DOMAIN line.path = 1 .. Len(line.path) OBVIOUS
<1>6. /\ n + 1 \in 1 .. (n + (t + 1)) /\ (n + 1) - 1 = n /\ n <= n + (t + 1)
      /\ \A i \in 1 .. n : i \in 1 .. (n + (t + 1)) /\ (1 + i) - 1 = i
      /\ (n - 1) + 1 = n
  OBVIOUS
<1>7. line.path[n + 1] = Up BY <1>2, FirstComponent DEF Going
<1>8. PICK before : before = SubSeq(line.path, 1, (n + 1) - 1) OBVIOUS
<1>9. /\ Len(before) = n /\ DOMAIN before = 1 .. n
      /\ \A i \in 1 .. n : before[i] = line.path[i]
  BY <1>4, <1>5, <1>6, <1>8
<1>10. /\ via[1] = temp_cwd /\ via[n + 1] = Root
       /\ \A i \in 1 .. n : Leads(via[i], before[i], via[i + 1])
  BY <1>2, <1>9 DEF Going
<1>11. Root \in LeadsTo(temp_cwd, before) BY <1>9, <1>10 DEF LeadsTo
<1>12. n + 1 \in DOMAIN line.path BY <1>4, <1>5, <1>6
<1> QED BY <1>7, <1>8, <1>11, <1>12 DEF LeavesRoot

\* Where a path leads depends on the tree alone.
LEMMA SameGoal ==
    UNCHANGED <<dirs, nodes, line, temp_cwd>> =>
        /\ LeadsTo(temp_cwd, line.path)' = LeadsTo(temp_cwd, line.path)
        /\ LeavesRoot(temp_cwd, line.path)' = LeavesRoot(temp_cwd, line.path)
BY DEF LeavesRoot, LeadsTo, Leads, IsDir, Has, Keys

\* The command ends where the path leads.
LEMMA EndsThere ==
    ASSUME UNCHANGED <<dirs, nodes, line, temp_cwd>>,
           cwd' \in LeadsTo(temp_cwd, line.path)
    PROVE  CdWholeWay'
<1>1. cwd' \in LeadsTo(temp_cwd, line.path)' BY SameGoal
<1> QED BY <1>1 DEF CdWholeWay

\* It ends where it began, for one of the two reasons that it may.
LEMMA EndsHere ==
    ASSUME UNCHANGED <<dirs, nodes, line, temp_cwd>>, cwd' = temp_cwd,
           LeadsTo(temp_cwd, line.path) = {} \/ LeavesRoot(temp_cwd, line.path)
    PROVE  CdWholeWay'
<1>1. cwd' = temp_cwd' /\ line' = line OBVIOUS
<1>2. \/ LeadsTo(temp_cwd, line.path)' = {}
      \/ LeavesRoot(temp_cwd, line.path)'
  BY <1>1, SameGoal
<1> QED BY <1>1, <1>2 DEF CdWholeWay

LEMMA SameWay ==
    OnTheWay /\ UNCHANGED <<dirs, nodes, cwd, temp_cwd, line, todo>> => OnTheWay'
<1> SUFFICES ASSUME OnTheWay, UNCHANGED <<dirs, nodes, cwd, temp_cwd, line, todo>>
             PROVE  OnTheWay'
  OBVIOUS
<1>1. PICK n \in Nat : \E via \in [1 .. n + 1 -> dirs] : Going(n, via)
  BY DEF OnTheWay
<1>2. PICK via \in [1 .. n + 1 -> dirs] : Going(n, via) BY <1>1
<1>3. Going(n, via)' BY <1>2 DEF Going, Leads, IsDir, Has, Keys
<1> QED BY <1>2, <1>3 DEF OnTheWay

LEMMA CdStays ==
    ASSUME CdInv, UNCHANGED <<dirs, nodes, cwd, temp_cwd, line, pc, todo>>
    PROVE  CdInv'
<1>1. SUFFICES ASSUME line'.cmd = "cd" PROVE CdInv' BY DEF CdInv
<1>2. line.cmd = "cd" BY <1>1
<1>3. CdWholeWay'
  <2>1. /\ LeadsTo(temp_cwd, line.path)' = LeadsTo(temp_cwd, line.path)
        /\ LeavesRoot(temp_cwd, line.path)' = LeavesRoot(temp_cwd, line.path)
    BY SameGoal
  <2> QED BY <1>2, <2>1 DEF CdInv, CdWholeWay
<1>4. OnTheWay => OnTheWay' BY SameWay
<1> QED BY <1>1, <1>2, <1>3, <1>4 DEF CdInv

LEMMA CdBegins ==
    ASSUME TreeSound, Standing, ReadLine
    PROVE  CdInv'
<1>1. SUFFICES ASSUME line'.cmd = "cd" PROVE CdInv' BY DEF CdInv
<1>2. line' \in Lines /\ line'.cmd = "cd" BY <1>1 DEF ReadLine
<1>3. line'.path \in Paths(MaxPath) BY <1>2 DEF Lines
<1>4. line'.path \in Seq(Components)
  <2>1. PICK path : path = line'.path OBVIOUS
  <2>2. PICK k \in 0 .. MaxPath : path \in [1 .. k -> Components]
    BY <1>3, <2>1 DEF Paths, UpTo
  <2>3. k \in Nat BY <2>2, ShellAssumption
  <2> QED BY <2>1, <2>2, <2>3
<1>5. pc' = "walk" /\ todo' = line'.path /\ temp_cwd' = cwd /\ cwd' = cwd
  BY <1>1 DEF ReadLine, First
<1>6. OnTheWay'
  <2>1. cwd \in dirs BY StandsWay DEF Standing
  <2>2. dirs' = dirs BY DEF ReadLine, Path, Keep
  <2>3. PICK via : via = [i \in 1 .. 0 + 1 |-> cwd] OBVIOUS
  <2>4. PICK o \in Nat : o = 0 OBVIOUS
  <2>5. via \in [1 .. o + 1 -> dirs'] /\ via[1] = temp_cwd' /\ via[o + 1] = cwd'
    BY <1>5, <2>1, <2>2, <2>3, <2>4
  <2>6. /\ o + Len(todo') = Len(line'.path)
        /\ \A i \in 1 .. Len(todo') : todo'[i] = line'.path[o + i]
        /\ 1 .. o = {}
    BY <1>4, <1>5, <2>4
  <2>7. Going(o, via)' BY <2>5, <2>6 DEF Going
  <2> QED BY <2>5, <2>7 DEF OnTheWay
<1> QED BY <1>4, <1>5, <1>6 DEF CdInv, CdWholeWay

\* The shell goes on walking, or ends the command as it should.
LEMMA CdGoes ==
    ASSUME UNCHANGED line, line.path \in Seq(Components),
           \/ pc' = "walk" /\ todo' \in Seq(Components) /\ OnTheWay'
           \/ pc' = "prompt" /\ CdWholeWay'
    PROVE  CdInv'
BY DEF CdInv, CdWholeWay

LEMMA CdGoesUp ==
    ASSUME TreeSound, Standing, CdInv, GoUp
    PROVE  CdInv'
<1>1. SUFFICES ASSUME line'.cmd = "cd" PROVE CdInv' BY DEF CdInv
<1>2. line' = line /\ temp_cwd' = temp_cwd
  BY DEF GoUp, Fail, Walked, Goto
<1>3. UNCHANGED <<dirs, nodes>> BY DEF GoUp, treeVars, Parent, Keep
<1>4. /\ line.cmd = "cd" /\ pc = "walk" /\ line.path \in Seq(Components)
      /\ OnTheWay /\ todo \in Seq(Components) /\ todo # <<>> /\ Head(todo) = Up
  BY <1>1, <1>2 DEF GoUp, CdInv
<1>5. cwd \in dirs BY StandsWay DEF Standing
<1>6. CASE Fail /\ cwd = Root
  <2>1. pc' = "prompt" /\ cwd' = temp_cwd BY <1>4, <1>6 DEF Fail, Walked, Goto
  <2>2. LeavesRoot(temp_cwd, line.path) BY <1>4, <1>5, <1>6, LeavesHere
  <2> QED BY <1>2, <1>3, <1>4, <2>1, <2>2, EndsHere, CdGoes
<1>7. CASE cwd = Root /\ Goto("walk") /\ todo' = Tail(todo) /\ cwd' = cwd
  <2>1. Leads(cwd, Head(todo), cwd') BY <1>4, <1>7 DEF Leads
  <2>2. OnTheWay' /\ todo' \in Seq(Components)
    BY <1>2, <1>3, <1>4, <1>5, <1>7, <2>1, Further
  <2> QED BY <1>2, <1>4, <1>7, <2>2, CdGoes DEF Goto
<1>8. CASE /\ cwd # Root /\ Parent(cwd) /\ cwd' = reply'.code
           /\ todo' = Tail(todo) /\ Goto("walk")
  <2>1. Stands(cwd) BY DEF Standing
  <2>2. PICK k \in Keys : nodes[k].dir /\ nodes[k].id = cwd /\ Stands(k[1])
    BY <1>8, <2>1, StandsUp
  <2>3. reply'.code = k[1] BY <1>8, <2>2 DEF Parent, Keep, Answer
  <2>4. cwd' = k[1] /\ k[1] \in dirs BY <1>8, <2>2, <2>3 DEF TreeSound
  <2>5. Leads(cwd, Head(todo), cwd') BY <1>4, <1>8, <2>2, <2>4 DEF Leads
  <2>6. OnTheWay' /\ todo' \in Seq(Components)
    BY <1>2, <1>3, <1>4, <1>8, <2>4, <2>5, Further
  <2> QED BY <1>2, <1>4, <1>8, <2>6, CdGoes DEF Goto
<1> QED BY <1>6, <1>7, <1>8 DEF GoUp

LEMMA CdLooksDown ==
    ASSUME TreeSound, Standing, CdInv, LookDown
    PROVE  CdInv'
<1>1. SUFFICES ASSUME line'.cmd = "cd" PROVE CdInv' BY DEF CdInv
<1>2. line' = line /\ temp_cwd' = temp_cwd
  BY DEF LookDown, Fail, Walked, Goto
<1>3. UNCHANGED <<dirs, nodes>> BY DEF LookDown, ReadDirectory, Keep
<1>4. /\ line.cmd = "cd" /\ pc = "walk" /\ line.path \in Seq(Components)
      /\ OnTheWay /\ todo \in Seq(Components) /\ todo # <<>> /\ Head(todo) # Up
  BY <1>1, <1>2 DEF LookDown, CdInv
<1>5. cwd \in dirs BY StandsWay DEF Standing
<1>6. CASE reply'.code = 0 /\ Goto("enter") /\ UNCHANGED <<cwd, todo>>
  <2>1. UNCHANGED <<dirs, nodes, cwd, temp_cwd, line, todo>>
    BY <1>2, <1>3, <1>6
  <2>2. OnTheWay' BY <1>4, <2>1, SameWay
  <2> QED BY <1>2, <1>4, <1>6, <2>2 DEF CdInv, CdWholeWay, Goto
<1>7. CASE reply'.code = -1
  BY <1>5, <1>7 DEF LookDown, ReadDirectory, Keep, Answer
<1>8. CASE reply'.code # 0 /\ Fail
  <2>1. pc' = "prompt" /\ cwd' = temp_cwd BY <1>4, <1>8 DEF Fail, Walked, Goto
  <2>2. ~IsDir(cwd, Head(todo))
    <3> DEFINE name == Head(todo)
    <3>1. ReadDirectory(cwd, name) BY DEF LookDown
    <3> HIDE DEF name
    <3>2. reply'.code # 0 BY <1>8
    <3>3. ~Keep("read_directory", 0, <<>>) BY <3>2 DEF Keep, Answer
    <3>4. IsFile(cwd, name) \/ ~Has(cwd, name) => ~IsDir(cwd, name)
      BY Zenon DEF IsFile, IsDir
    <3>5. \/ cwd \notin dirs \/ ~Has(cwd, name) \/ IsFile(cwd, name)
          \/ Keep("read_directory", 0, <<>>)
      BY <3>1, Zenon DEF ReadDirectory
    <3>6. ~IsDir(cwd, name) BY <1>5, <3>3, <3>4, <3>5, Zenon
    <3> QED BY <3>6 DEF name
  <2>3. LeadsTo(temp_cwd, line.path) = {} BY <1>4, <2>2, NoWay
  <2> QED BY <1>2, <1>3, <1>4, <2>1, <2>3, EndsHere, CdGoes
<1> QED BY <1>6, <1>7, <1>8 DEF LookDown

LEMMA CdEnters ==
    ASSUME TreeSound, Standing, CdInv, Enter
    PROVE  CdInv'
<1>1. SUFFICES ASSUME line'.cmd = "cd" PROVE CdInv' BY DEF CdInv
<1>2. line' = line /\ temp_cwd' = temp_cwd /\ pc' = "walk" BY DEF Enter, Goto
<1>3. UNCHANGED <<dirs, nodes>> BY DEF Enter, Child, Keep
<1>4. /\ line.path \in Seq(Components) /\ OnTheWay
      /\ todo \in Seq(Components) /\ todo # <<>> /\ Head(todo) # Up
  BY <1>1, <1>2 DEF Enter, CdInv
<1> DEFINE name == Head(todo)
<1>5. IsDir(cwd, name) /\ Child(cwd, name) /\ cwd' = reply'.code
  BY DEF Standing, Enter
<1>6. Leads(cwd, Head(todo), cwd') /\ cwd' \in dirs
  <2>1. cwd' = nodes[<<cwd, name>>].id
    <3> HIDE DEF name
    <3> QED BY <1>5 DEF Child, IsDir, Keep, Answer
  <2>2. nodes[<<cwd, name>>].id \in dirs
    <3> HIDE DEF name
    <3> QED BY <1>5 DEF TreeSound, IsDir, Has
  <2> QED BY <1>4, <1>5, <2>1, <2>2 DEF Leads
<1>7. todo' = Tail(todo) BY DEF Enter
<1>8. OnTheWay' /\ todo' \in Seq(Components)
  BY <1>2, <1>3, <1>4, <1>6, <1>7, Further
<1> QED BY <1>2, <1>4, <1>8, CdGoes

LEMMA NextCd ==
    TreeSound /\ Standing /\ CdInv /\ [NextShell]_shellVars => CdInv'
<1> SUFFICES ASSUME TreeSound, Standing, CdInv, [NextShell]_shellVars
             PROVE  CdInv'
  OBVIOUS
<1>1. CASE ReadLine BY <1>1, CdBegins
<1>2. CASE Invalid BY <1>2, CdStays DEF Invalid, Path, Keep
<1>3. CASE List \/ Show \/ CopyRead \/ CopyWrite \/ Remove \/ MkdirLook
           \/ MkdirMake \/ Whereis \/ Tell
  <2>1. line' = line
    BY <1>3 DEF List, Show, CopyRead, CopyWrite, Remove, MkdirLook, MkdirMake,
       Whereis, Tell, Goto
  <2>2. pc \notin {"walk", "enter", "prompt"}
    BY <1>3 DEF List, Show, CopyRead, CopyWrite, Remove, MkdirLook, MkdirMake,
       Whereis, Tell
  <2> QED BY <2>1, <2>2 DEF CdInv
<1>4. CASE Arrive
  <2>1. UNCHANGED <<dirs, nodes, line, temp_cwd>>
    BY <1>4 DEF Arrive, Walked, Goto, treeVars
  <2>2. SUFFICES ASSUME line'.cmd = "cd" PROVE CdInv' BY DEF CdInv
  <2>3. /\ line.cmd = "cd" /\ line.path \in Seq(Components) /\ OnTheWay
        /\ todo = <<>>
    BY <1>4, <2>1, <2>2 DEF Arrive, CdInv
  <2>4. pc' = "prompt" /\ cwd' = cwd BY <1>4, <2>3 DEF Arrive, Walked, Goto
  <2>5. cwd \in LeadsTo(temp_cwd, line.path)
    BY <2>3, WholeWay, StandsWay DEF Standing
  <2> QED BY <2>1, <2>3, <2>4, <2>5, EndsThere, CdGoes
<1>5. CASE GoUp BY <1>5, CdGoesUp
<1>6. CASE LookDown BY <1>6, CdLooksDown
<1>7. CASE Enter BY <1>7, CdEnters
<1>8. CASE OtherWrites BY <1>8 DEF OtherWrites, CdInv
<1>9. CASE PowerOff \/ LoadShell
  BY <1>9 DEF PowerOff, LoadShell, Fresh, NoLine, CdInv
<1>10. CASE UNCHANGED shellVars BY <1>10, CdStays DEF shellVars, treeVars
<1> QED
  BY <1>1, <1>2, <1>3, <1>4, <1>5, <1>6, <1>7, <1>8, <1>9, <1>10
     DEF NextShell, Step

\* A cd ends in the directory that its path leads to, or where it began; it
\* gives up only a path that leads nowhere, or one that meets ".." in the root,
\* where relative_cd's result is never set.
THEOREM CdGoesTheWholeWay == SpecShell => []CdWholeWay
<1>1. InitShell => TreeSound /\ Standing /\ CdInv
  <2> SUFFICES ASSUME InitShell PROVE TreeSound /\ Standing /\ CdInv OBVIOUS
  <2>1. TreeSound /\ Standing BY InitStands
  <2>2. line.cmd = "ls" BY DEF InitShell, NoLine
  <2> QED BY <2>1, <2>2 DEF CdInv
<1>2. TreeSound /\ Standing /\ CdInv /\ [NextShell]_shellVars
        => (TreeSound /\ Standing /\ CdInv)'
  BY NextTree, NextStands, NextCd
<1>3. CdInv => CdWholeWay BY DEF CdInv, CdWholeWay
<1> QED BY <1>1, <1>2, <1>3, PTL DEF SpecShell

=============================================================================

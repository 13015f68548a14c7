-------------------------- MODULE Fat32TreeProofs --------------------------
(***************************************************************************)
(* Fat32 implements FileTree: every call of the driver, seen through the   *)
(* mapping of Fat32Tree, is a step that FileTree allows.                   *)
(***************************************************************************)
EXTENDS Fat32Tree, Fat32Proofs

----------------------------------------------------------------------------
(* What the mapping needs to know of the disk beyond Consistent. *)

\* Once the disk is formatted its root is there and its own parent; every table
\* names a parent and itself, what is no table names none; no entry carries the
\* flag that delete looks at.
Rooted ==
    /\ signature => disk[ROOT].dir /\ disk[ROOT].up = ROOT
    /\ ~disk[SUGAR_PARENT].dir
    /\ \A c \in Data : IF disk[c].dir
                       THEN disk[c].up \in Parents /\ disk[c].name \in Names
                       ELSE disk[c].up = 0
    /\ \A c \in Parents, s \in Slots : ~disk[c].slot[s].notempty

LEMMA MoreNumbers ==
    /\ ROOT \in Parents /\ SUGAR_PARENT \in Parents
    /\ SUGAR_PARENT # ROOT /\ SUGAR_PARENT \notin Data
    /\ Parents = Data \cup {ROOT, SUGAR_PARENT}
    /\ 0 \notin Parents
BY SizesAssumption DEF Parents, Data, FIRST_DATA, ROOT, SUGAR_PARENT

LEMMA BlankMore ==
    /\ Blank.up = 0
    /\ \A s \in Slots : ~Blank.slot[s].notempty
BY BlankType DEF Blank, FreeEntry

LEMMA RootedQuiet ==
    ASSUME Rooted, UNCHANGED <<signature, disk>>
    PROVE  Rooted'
BY DEF Rooted

LEMMA RootedInit == Init => Rooted
<1> SUFFICES ASSUME Init
             PROVE  Rooted
  OBVIOUS
<1>1. \A c \in Clusters : disk[c] = Blank
  BY DEF Init
<1> QED
  BY <1>1, BlankType, BlankMore, Numbers, MoreNumbers DEF Rooted, Init

LEMMA RootedFormat ==
    ASSUME Consistent, Format
    PROVE  Rooted'
<1>1. /\ disk' = [disk EXCEPT ![ROOT] = DirTable(NoName, ROOT)]
      /\ disk \in [Clusters -> Content]
      /\ \A c \in Clusters : disk[c] = Blank
      /\ ROOT \in Clusters
  BY Numbers DEF Consistent, Fresh, Format, TypeOK
<1>2. \A c \in Clusters : c # ROOT => disk'[c] = Blank
  BY <1>1
<1>3. disk'[ROOT] = DirTable(NoName, ROOT)
  BY <1>1
<1>4. /\ disk'[ROOT].dir /\ disk'[ROOT].up = ROOT
      /\ disk'[ROOT].slot = Blank.slot
  <2> DEFINE t == DirTable(NoName, ROOT)
  <2>1. t.dir = TRUE /\ t.up = ROOT /\ t.slot = Blank.slot
    BY <1>1, TableType
  <2> HIDE DEF t
  <2>2. disk'[ROOT] = t
    BY <1>3 DEF t
  <2> QED
    BY <2>1, <2>2
<1>5. ~disk'[SUGAR_PARENT].dir
  BY <1>2, BlankType, Numbers, MoreNumbers
<1>6. \A c \in Data : ~disk'[c].dir /\ disk'[c].up = 0
  BY <1>2, BlankType, BlankMore, Numbers
<1>7. \A c \in Parents, s \in Slots : ~disk'[c].slot[s].notempty
  BY <1>2, <1>4, BlankMore, Numbers
<1> QED
  BY <1>4, <1>5, <1>6, <1>7 DEF Rooted

LEMMA RootedWrite ==
    ASSUME Consistent, Rooted, NEW parent \in Parents, NEW name \in Names,
           NEW buf, NEW s, NEW cl, WriteFacts(parent, s, name, buf, cl),
           signature' = signature
    PROVE  Rooted'
<1>1. /\ disk[parent] \in Content /\ s \in Slots /\ parent \in Clusters
      /\ disk[parent].slot \in [Slots -> Entry]
  BY Numbers DEF Consistent, TypeOK, WriteFacts, Content
<1>2. /\ disk'[parent].slot =
           [disk[parent].slot EXCEPT ![s] =
              [name |-> name, dir |-> buf = <<>>, notempty |-> FALSE,
               undelete |-> TRUE, cl |-> cl[1]]]
      /\ disk'[parent].dir = disk[parent].dir
      /\ disk'[parent].up = disk[parent].up
      /\ disk'[parent].name = disk[parent].name
  BY <1>1 DEF WriteFacts, WithEntry, Content
<1>3. ASSUME NEW c \in Parents, c \in Range(cl)
      PROVE  /\ c \in Data
             /\ IF disk'[c].dir
                THEN disk'[c].up \in Parents /\ disk'[c].name \in Names
                ELSE disk'[c].up = 0
             /\ \A t \in Slots : ~disk'[c].slot[t].notempty
  <2>1. PICK i \in 1 .. Len(cl) : cl[i] = c
    BY <1>3 DEF Range, WriteFacts
  <2>2. c # NOCLUSTER
    BY Numbers DEF NOCLUSTER
  <2>3. /\ c \in Data
        /\ disk'[c] = IF buf = <<>> THEN DirTable(name, parent)
                                    ELSE FileBlock(buf[i])
    BY <2>1, <2>2 DEF WriteFacts
  <2>4. CASE buf = <<>>
    <3>1. disk'[c] = DirTable(name, parent)
      BY <2>3, <2>4
    <3>0. name \in Names \cup {NoName} /\ parent \in Clusters
      BY <1>1
    <3>2. /\ disk'[c].dir /\ disk'[c].up = parent /\ disk'[c].name = name
          /\ disk'[c].slot = Blank.slot
      <4>1. /\ DirTable(name, parent).dir /\ DirTable(name, parent).up = parent
            /\ DirTable(name, parent).name = name
            /\ DirTable(name, parent).slot = Blank.slot
        BY <3>0, TableType
      <4> QED
        BY <3>1, <4>1
    <3> QED
      BY <2>3, <3>2, BlankMore
  <2>5. CASE buf # <<>>
    <3>1. disk'[c] = FileBlock(buf[i]) /\ buf[i] \in Blocks
      BY <2>1, <2>3, <2>5 DEF WriteFacts
    <3>2. ~disk'[c].dir /\ disk'[c].slot = Blank.slot
      BY <3>1, FileType
    <3>3. disk'[c].up = Blank.up
      BY <3>1 DEF FileBlock, Blank
    <3> QED
      BY <2>3, <3>2, <3>3, BlankMore
  <2> QED
    BY <2>4, <2>5
<1>4. ASSUME NEW c \in Parents, c \notin Range(cl)
      PROVE  /\ disk'[c].dir = disk[c].dir /\ disk'[c].up = disk[c].up
             /\ disk'[c].name = disk[c].name
             /\ \A t \in Slots : ~disk'[c].slot[t].notempty
  <2>1. CASE c = parent
    BY <1>1, <1>2, <2>1 DEF Rooted
  <2>2. CASE c # parent
    BY <1>4, <2>2, Numbers DEF Rooted, WriteFacts
  <2> QED
    BY <2>1, <2>2
<1>5. ROOT \notin Range(cl) /\ SUGAR_PARENT \notin Range(cl)
  BY <1>3, Numbers, MoreNumbers
<1>6. ASSUME NEW c \in Data
      PROVE  IF disk'[c].dir
             THEN disk'[c].up \in Parents /\ disk'[c].name \in Names
             ELSE disk'[c].up = 0
  BY <1>3, <1>4, Numbers DEF Rooted
<1>7. \A c \in Parents, t \in Slots : ~disk'[c].slot[t].notempty
  BY <1>3, <1>4
<1> QED
  BY <1>4, <1>5, <1>6, <1>7, MoreNumbers DEF Rooted

LEMMA RootedErase ==
    ASSUME Consistent, Rooted, NEW parent \in Parents, NEW s \in Slots, NEW ch,
           NEW gone, EraseFacts(parent, s, ch, gone), signature' = signature
    PROVE  Rooted'
<1>1. /\ \A c \in gone : c \in Data /\ disk'[c] = Blank
      /\ \A c \in Clusters : c \notin gone =>
           /\ disk'[c].dir = disk[c].dir /\ disk'[c].up = disk[c].up
           /\ disk'[c].name = disk[c].name
           /\ c # parent => disk'[c] = disk[c]
      /\ disk'[parent].slot = [disk[parent].slot EXCEPT ![s] = Reset(@)]
  BY DEF EraseFacts
<1>2. ROOT \notin gone /\ SUGAR_PARENT \notin gone
  BY <1>1, Numbers, MoreNumbers
<1>3. \A c \in Data : IF disk'[c].dir
                      THEN disk'[c].up \in Parents /\ disk'[c].name \in Names
                      ELSE disk'[c].up = 0
  BY <1>1, BlankType, BlankMore, Numbers DEF Rooted
<1>4. disk[parent].slot \in [Slots -> Entry]
  BY Numbers DEF Consistent, TypeOK, Content
<1>5. Reset(disk[parent].slot[s]).notempty = disk[parent].slot[s].notempty
  BY DEF Reset, FreeEntry
<1>6. \A t \in Slots : ~disk'[parent].slot[t].notempty
  BY <1>1, <1>4, <1>5 DEF Rooted
<1>7. \A c \in Parents, t \in Slots : ~disk'[c].slot[t].notempty
  BY <1>1, <1>6, BlankMore, Numbers DEF Rooted
<1> QED
  BY <1>1, <1>2, <1>3, <1>7, Numbers, MoreNumbers DEF Rooted

LEMMA NextRooted == Consistent /\ Rooted /\ [Next]_vars => Rooted'
<1> SUFFICES ASSUME Consistent, Rooted, [Next]_vars
             PROVE  Rooted'
  OBVIOUS
<1>1. CASE Power
  BY <1>1, RootedFormat, RootedQuiet DEF Power, Load, PowerOff
<1>2. CASE Write
  <2>1. PICK parent \in Parents, name \in Names, buf \in Buffers :
               \/ WriteInvalidParent(parent)
               \/ WriteAlreadyExists(parent, name)
               \/ WriteNoRoom(parent, name, buf)
               \/ WriteEntry(parent, name, buf)
    BY <1>2 DEF Write
  <2>2. CASE WriteEntry(parent, name, buf)
    <3>1. PICK s, cl : WriteFacts(parent, s, name, buf, cl)
      BY <2>2, WriteEffects
    <3>2. signature' = signature
      BY <2>2 DEF WriteEntry
    <3> QED
      BY <3>1, <3>2, RootedWrite
  <2> QED
    BY <2>1, <2>2, RootedQuiet DEF WriteInvalidParent, WriteAlreadyExists,
       WriteNoRoom, AnswerOnly
<1>3. CASE Delete
  <2>1. PICK parent \in Parents, name \in Names :
               \/ DeleteInvalidParent(parent)
               \/ DeleteNotFound(parent, name)
               \/ DeleteFound(parent, name)
    BY <1>3 DEF Delete
  <2>2. CASE DeleteInvalidParent(parent) \/ DeleteNotFound(parent, name)
    BY <2>2, RootedQuiet DEF DeleteInvalidParent, DeleteNotFound, AnswerOnly
  <2>3. CASE DeleteFound(parent, name)
    <3>1. ~exhausted /\ disk[parent].dir
      BY <2>3 DEF DeleteFound, Calling
    <3>2. PICK s \in FirstNamed(disk[parent], name) :
                 \/ AnswerOnly("delete", 2, <<>>)
                 \/ EraseEntry(parent, s)
      BY <2>3 DEF DeleteFound
    <3>3. s \in Slots /\ disk[parent].slot[s].name \in Names
      BY <3>2, FoundSlot
    <3>4. CASE AnswerOnly("delete", 2, <<>>)
      BY <3>4, RootedQuiet DEF AnswerOnly
    <3>5. CASE EraseEntry(parent, s)
      <4>1. PICK ch, gone : EraseFacts(parent, s, ch, gone)
        BY <3>1, <3>3, <3>5, EraseEffects
      <4>2. signature' = signature
        BY <3>5 DEF EraseEntry
      <4> QED
        BY <3>3, <4>1, <4>2, RootedErase
    <3> QED
      BY <3>2, <3>4, <3>5
  <2> QED
    BY <2>1, <2>2, <2>3
<1>4. CASE Read \/ ReadEmptyName \/ Browse
  BY <1>4, RootedQuiet DEF Read, ReadEmptyName, Browse, ReadInvalidParent,
     ReadNotFound, ReadNotAFile, ReadNotEnoughBuffer, ReadFile, ReadDirectory,
     MoveToChild, MoveToParent, GetChildren, GetDirPath, SearchIndex,
     AnswerCached, AnswerOnly
<1>5. CASE UNCHANGED vars
  BY <1>5, RootedQuiet DEF vars
<1> QED
  BY <1>1, <1>2, <1>3, <1>4, <1>5 DEF Next

----------------------------------------------------------------------------
(* The mapping, in one state. *)

\* From one cluster there is one chain.
LEMMA ChainAtIs ==
    ASSUME NEW f, NEW head, NEW ch \in SeqUpTo(Data, MaxFragments),
           IsChain(f, ch), ch[1] = head
    PROVE  ChainAt(f, head) = ch
<1>1. PICK w : /\ w = ChainAt(f, head) /\ w \in SeqUpTo(Data, MaxFragments)
               /\ IsChain(f, w) /\ w[1] = head
  BY DEF ChainAt
<1>2. MaxFragments \in Nat
  BY SizesAssumption
<1>3. ChainShape(f, ch) /\ ChainShape(f, w)
  BY <1>1, <1>2, ChainFacts
<1>4. /\ Len(ch) \in Nat /\ Len(w) \in Nat
      /\ ch = [i \in 1 .. Len(ch) |-> ch[i]] /\ w = [i \in 1 .. Len(w) |-> w[i]]
  <2>1. PICK k \in 0 .. MaxFragments : ch \in [1 .. k -> Data]
    BY DEF SeqUpTo
  <2>2. PICK m \in 0 .. MaxFragments : w \in [1 .. m -> Data]
    BY <1>1 DEF SeqUpTo
  <2>3. Len(ch) = k /\ Len(w) = m /\ k \in Nat /\ m \in Nat
    BY <2>1, <2>2
  <2> QED
    BY <2>1, <2>2, <2>3
<1>5. ASSUME Len(ch) <= Len(w)
      PROVE  w = ch
  <2>1. Len(ch) = Len(w) /\ \A i \in 1 .. Len(ch) : ch[i] = w[i]
    BY <1>1, <1>2, <1>5, ChainSame
  <2>2. [i \in 1 .. Len(ch) |-> ch[i]] = [i \in 1 .. Len(w) |-> w[i]]
    BY <2>1
  <2> QED
    BY <1>4, <2>2
<1>6. ASSUME Len(w) <= Len(ch)
      PROVE  w = ch
  <2>1. Len(ch) = Len(w) /\ \A i \in 1 .. Len(w) : w[i] = ch[i]
    BY <1>1, <1>2, <1>6, ChainSame
  <2> QED
    BY <1>4, <1>5, <2>1
<1> QED
  BY <1>1, <1>4, <1>5, <1>6

\* Distinct entries have distinct keys, and a key maps to its entry's node.
Mapped ==
    ~exhausted =>
        /\ TreeNodes = [k \in {KeyOf(e) : e \in Live} |-> TreeNodes[k]]
        /\ \A e \in Live : TreeNodes[KeyOf(e)] = NodeAt(e)
        /\ \A e1, e2 \in Live : KeyOf(e1) = KeyOf(e2) => e1 = e2

LEMMA Mapping == Consistent => Mapped
<1> SUFFICES ASSUME Consistent, ~exhausted
             PROVE  /\ TreeNodes = [k \in {KeyOf(e) : e \in Live} |-> TreeNodes[k]]
                    /\ \A e \in Live : TreeNodes[KeyOf(e)] = NodeAt(e)
                    /\ \A e1, e2 \in Live : KeyOf(e1) = KeyOf(e2) => e1 = e2
  BY DEF Mapped
<1>1. ASSUME NEW e1 \in Live, NEW e2 \in Live, KeyOf(e1) = KeyOf(e2)
      PROVE  e1 = e2
  <2>1. PICK d1 \in Parents, s1 \in Slots : e1 = <<d1, s1>>
    BY DEF Live
  <2>2. PICK d2 \in Parents, s2 \in Slots : e2 = <<d2, s2>>
    BY DEF Live
  <2>3. d1 = d2 /\ EntryAt(e1).name = EntryAt(e2).name
    BY <1>1, <2>1, <2>2 DEF KeyOf
  <2>4. disk[e1[1]].slot[s2].name = EntryAt(e1).name
    BY <2>1, <2>2, <2>3 DEF EntryAt
  <2>5. s2 = s1
    BY <2>1, <2>4 DEF Consistent, NamesUnique
  <2> QED
    BY <2>1, <2>2, <2>3, <2>5
<1>2. ASSUME NEW e \in Live
      PROVE  SlotOf(KeyOf(e)) = e
  <2>1. SlotOf(KeyOf(e)) \in Live /\ KeyOf(SlotOf(KeyOf(e))) = KeyOf(e)
    BY Zenon DEF SlotOf
  <2> QED
    BY <1>1, <2>1
<1>3. TreeNodes = [key \in {KeyOf(e) : e \in Live} |-> NodeAt(SlotOf(key))]
  BY DEF TreeNodes
<1>4. ASSUME NEW e \in Live
      PROVE  TreeNodes[KeyOf(e)] = NodeAt(e)
  <2>1. TreeNodes[KeyOf(e)] = NodeAt(SlotOf(KeyOf(e)))
    BY <1>3, Zenon
  <2> QED
    BY <1>2, <2>1, Zenon
<1>5. TreeNodes = [k \in {KeyOf(e) : e \in Live} |-> TreeNodes[k]]
  BY <1>3, Zenon
<1> QED
  BY <1>1, <1>4, <1>5

\* A name stands for something exactly where an entry in use has it.
LEMMA TreeHas ==
    ASSUME Mapped, ~exhausted, NEW d, NEW name
    PROVE  Tree!Has(d, name) <=> \E e \in Live : e[1] = d /\ EntryAt(e).name = name
<1>1. DOMAIN TreeNodes = {KeyOf(e) : e \in Live}
  BY Zenon DEF Mapped
<1>2. Tree!Has(d, name) <=> <<d, name>> \in {KeyOf(e) : e \in Live}
  BY <1>1, Zenon DEF Tree!Has, Tree!Keys
<1> QED
  BY <1>2 DEF KeyOf

\* The node of an entry.
LEMMA TreeNode ==
    ASSUME Mapped, ~exhausted, NEW e \in Live, NEW d, NEW name,
           e[1] = d, EntryAt(e).name = name
    PROVE  /\ TreeNodes[<<d, name>>] = NodeAt(e)
           /\ Tree!Has(d, name)
           /\ Tree!IsDir(d, name) <=> EntryAt(e).dir
           /\ Tree!IsFile(d, name) <=> ~EntryAt(e).dir
<1>1. Tree!Has(d, name)
  BY TreeHas
<1>2. KeyOf(e) = <<d, name>>
  BY DEF KeyOf
<1>3. TreeNodes[<<d, name>>] = NodeAt(e)
  BY <1>2, Zenon DEF Mapped
<1>4. TreeNodes[<<d, name>>].dir = EntryAt(e).dir
  BY <1>3 DEF NodeAt
<1> QED
  BY <1>1, <1>3, <1>4, Zenon DEF Tree!IsDir, Tree!IsFile

LEMMA DirNodeAt ==
    ASSUME NEW e, EntryAt(e).dir, EntryAt(e).dir \in BOOLEAN
    PROVE  NodeAt(e) = [dir |-> TRUE, id |-> HeadOf(e), data |-> <<>>]
BY DEF NodeAt

\* The content of a file is what its chain holds.
LEMMA FileNodeAt ==
    ASSUME NEW e, ~EntryAt(e).dir, EntryAt(e).dir \in BOOLEAN,
           NEW ch \in SeqUpTo(Data, MaxFragments), IsChain(fat, ch),
           ch[1] = HeadOf(e)
    PROVE  NodeAt(e) = [dir |-> FALSE, id |-> ROOT, data |-> Payload(ch)]
<1>1. ChainAt(fat, HeadOf(e)) = ch
  BY ChainAtIs
<1> QED
  BY <1>1 DEF NodeAt

LEMMA EntryTypes ==
    ASSUME Consistent, NEW e \in Live
    PROVE  /\ e[1] \in Parents /\ e[2] \in Slots /\ e = <<e[1], e[2]>>
           /\ disk[e[1]].dir
           /\ EntryAt(e) \in Entry /\ EntryAt(e).dir \in BOOLEAN
           /\ EntryAt(e).name \in Names
<1>1. PICK d \in Parents, s \in Slots : e = <<d, s>>
  BY DEF Live
<1>2. disk[d].dir /\ disk[d].slot[s].undelete
  BY <1>1 DEF Live
<1>3. EntryAt(e) = disk[d].slot[s]
  BY <1>1 DEF EntryAt
<1>4. disk[d].slot[s] \in Entry
  BY Numbers DEF Consistent, TypeOK, Content
<1>5. disk[d].slot[s].dir \in BOOLEAN /\ disk[d].slot[s].name \in Names \cup {NoName}
  BY <1>4 DEF Entry
<1>6. disk[d].slot[s].name # NoName
  BY <1>2 DEF Consistent, MarksAgree
<1> QED
  BY <1>1, <1>2, <1>3, <1>4, <1>5, <1>6

\* The loop over a table finds the entry that has the name, if there is one.
LEMMA FoundEntry ==
    ASSUME Consistent, NEW d \in Parents, disk[d].dir, NEW name \in Names
    PROVE  /\ \A s \in FirstNamed(disk[d], name) :
                 <<d, s>> \in Live /\ EntryAt(<<d, s>>).name = name
           /\ FirstNamed(disk[d], name) = {} =>
                 ~ \E e \in Live : e[1] = d /\ EntryAt(e).name = name
<1>1. ASSUME NEW s \in FirstNamed(disk[d], name)
      PROVE  <<d, s>> \in Live /\ EntryAt(<<d, s>>).name = name
  <2>1. s \in Slots /\ disk[d].slot[s].name = name
    BY DEF FirstNamed
  <2>2. disk[d].slot[s].undelete
    BY <2>1, NamesAssumption DEF Consistent, MarksAgree
  <2> QED
    BY <2>1, <2>2 DEF Live, EntryAt
<1>2. ASSUME NEW e \in Live, e[1] = d, EntryAt(e).name = name
      PROVE  FirstNamed(disk[d], name) # {}
  <2>1. e[2] \in Slots /\ disk[d].slot[e[2]].name = name
    BY <1>2, EntryTypes DEF EntryAt
  <2> DEFINE T == {s \in Slots : disk[d].slot[s].name = name}
  <2>2. T \in SUBSET Nat /\ T # {}
    BY <2>1, SizesAssumption DEF Slots
  <2>3. PICK s \in T : \A t \in T : s <= t
    BY <2>2, LeastNumber
  <2>4. ASSUME NEW t \in Slots, t < s
        PROVE  disk[d].slot[t].name # name
    <3>1. t \notin T
      BY <2>2, <2>3, <2>4
    <3> QED
      BY <3>1
  <2>5. s \in FirstNamed(disk[d], name)
    BY <2>3, <2>4 DEF FirstNamed
  <2> QED
    BY <2>5
<1> QED
  BY <1>1, <1>2

----------------------------------------------------------------------------
(* Calls that change nothing on the disk. *)

LEMMA TreeQuiet ==
    ASSUME Consistent, Mapped, Mapped', ~exhausted,
           UNCHANGED <<fat, disk, exhausted>>
    PROVE  TreeDirs' = TreeDirs /\ TreeNodes' = TreeNodes
<1>1. TreeDirs' = TreeDirs
  BY DEF TreeDirs, Directories
<1>2. /\ Live' = Live
      /\ \A e : EntryAt(e)' = EntryAt(e) /\ HeadOf(e)' = HeadOf(e)
      /\ \A ch : Payload(ch)' = Payload(ch)
  BY DEF Live, EntryAt, HeadOf, Payload
<1>3. \A e : KeyOf(e)' = KeyOf(e) /\ NodeAt(e)' = NodeAt(e)
  BY <1>2 DEF KeyOf, NodeAt
<1>4. {KeyOf(e) : e \in Live}' = {KeyOf(e) : e \in Live}
  BY <1>2, <1>3
<1>5. ASSUME NEW k \in {KeyOf(e) : e \in Live}
      PROVE  TreeNodes'[k] = TreeNodes[k]
  <2>1. PICK e \in Live : k = KeyOf(e)
    OBVIOUS
  <2>2. TreeNodes[k] = NodeAt(e)
    BY <2>1, Zenon DEF Mapped
  <2>3. TreeNodes'[KeyOf(e)'] = NodeAt(e)'
    BY <1>2, Zenon DEF Mapped
  <2> QED
    BY <1>3, <2>1, <2>2, <2>3, Zenon
<1>6. TreeNodes' = [k \in {KeyOf(e) : e \in Live} |-> TreeNodes'[k]]
  BY <1>4, Zenon DEF Mapped
<1>7. TreeNodes = [k \in {KeyOf(e) : e \in Live} |-> TreeNodes[k]]
  BY Zenon DEF Mapped
<1> QED
  BY <1>1, <1>5, <1>6, <1>7

\* The answer of a call, in the tree.
LEMMA TreeAnswer ==
    ASSUME NEW op, NEW code, NEW data, reply' = Reply(op, code, data)
    PROVE  /\ op # "read_directory" => Tree!Answer(op, code, data)
           /\ op = "read_directory" => Tree!Answer(op, code, <<>>)
BY DEF Tree!Answer, TreeReply, Reply

LEMMA TreeKeep ==
    ASSUME Consistent, Mapped, Mapped', ~exhausted, NEW op, NEW code, NEW data,
           AnswerOnly(op, code, data) \/ AnswerCached(op, code, data)
    PROVE  /\ op # "read_directory" => Tree!Keep(op, code, data)
           /\ op = "read_directory" => Tree!Keep(op, code, <<>>)
<1>1. reply' = Reply(op, code, data) /\ UNCHANGED <<fat, disk, exhausted>>
  BY DEF AnswerOnly, AnswerCached
<1>2. TreeDirs' = TreeDirs /\ TreeNodes' = TreeNodes
  BY <1>1, TreeQuiet
<1> QED
  BY <1>1, <1>2, TreeAnswer DEF Tree!Keep

\* A directory of the disk is one of the tree: the root is there once the
\* disk is mounted.
LEMMA DirOfTree ==
    ASSUME Consistent, Rooted, mounted, NEW d \in Parents
    PROVE  d \in TreeDirs <=> disk[d].dir
BY DEF Consistent, Fresh, Rooted, TreeDirs, Directories

\* What lookups of the driver and of the tree have in common.
Lookup(d, name) ==
    /\ d \in TreeDirs <=> disk[d].dir
    /\ disk[d].dir /\ FirstNamed(disk[d], name) = {} => ~Tree!Has(d, name)
    /\ disk[d].dir =>
         \A s \in FirstNamed(disk[d], name) :
            /\ <<d, s>> \in Live
            /\ Tree!Has(d, name)
            /\ TreeNodes[<<d, name>>] = NodeAt(<<d, s>>)
            /\ Tree!IsDir(d, name) <=> disk[d].slot[s].dir
            /\ Tree!IsFile(d, name) <=> ~disk[d].slot[s].dir

LEMMA TreeLookup ==
    ASSUME Consistent, Rooted, Mapped, ~exhausted, mounted,
           NEW d \in Parents, NEW name \in Names
    PROVE  Lookup(d, name)
<1>1. d \in TreeDirs <=> disk[d].dir
  BY DirOfTree
<1>2. ASSUME disk[d].dir, FirstNamed(disk[d], name) = {}
      PROVE  ~Tree!Has(d, name)
  BY <1>2, FoundEntry, TreeHas
<1>3. ASSUME disk[d].dir, NEW s \in FirstNamed(disk[d], name)
      PROVE  /\ <<d, s>> \in Live
             /\ Tree!Has(d, name)
             /\ TreeNodes[<<d, name>>] = NodeAt(<<d, s>>)
             /\ Tree!IsDir(d, name) <=> disk[d].slot[s].dir
             /\ Tree!IsFile(d, name) <=> ~disk[d].slot[s].dir
  <2> DEFINE e == <<d, s>>
  <2>1. e \in Live /\ EntryAt(e).name = name /\ e[1] = d
    BY <1>3, FoundEntry
  <2>2. EntryAt(e).dir = disk[d].slot[s].dir
    BY DEF EntryAt
  <2> HIDE DEF e
  <2>3. /\ TreeNodes[<<d, name>>] = NodeAt(e)
        /\ Tree!Has(d, name)
        /\ Tree!IsDir(d, name) <=> EntryAt(e).dir
        /\ Tree!IsFile(d, name) <=> ~EntryAt(e).dir
    BY <2>1, TreeNode
  <2> QED
    BY <2>1, <2>2, <2>3, Zenon DEF e
<1> QED
  BY <1>1, <1>2, <1>3 DEF Lookup

\* The hypotheses that the steps share.
Calm == Consistent /\ Rooted /\ Mapped /\ Mapped' /\ ~exhausted

\* The loop that looks for a duplicate answers as the tree does.
LEMMA TreeDuplicate ==
    ASSUME Mapped, ~exhausted, NEW d \in Parents, NEW name, disk[d].dir
    PROVE  Tree!Has(d, name) <=> IsDuplicate(disk[d], name)
<1>1. Tree!Has(d, name) <=> \E e \in Live : e[1] = d /\ EntryAt(e).name = name
  BY TreeHas
<1>2. ASSUME NEW s \in Slots, disk[d].slot[s].undelete,
             disk[d].slot[s].name = name
      PROVE  Tree!Has(d, name)
  <2>1. <<d, s>> \in Live /\ EntryAt(<<d, s>>).name = name
    BY <1>2 DEF Live, EntryAt
  <2> QED
    BY <1>1, <2>1
<1>3. ASSUME NEW e \in Live, e[1] = d, EntryAt(e).name = name
      PROVE  \E s \in Slots : disk[d].slot[s].undelete /\ disk[d].slot[s].name = name
  BY <1>3 DEF Live, EntryAt
<1> QED
  BY <1>1, <1>2, <1>3 DEF IsDuplicate

LEMMA TreeWriteRefused ==
    ASSUME Calm, NEW d \in Parents, NEW name \in Names, NEW buf,
           \/ WriteInvalidParent(d)
           \/ WriteAlreadyExists(d, name)
           \/ WriteNoRoom(d, name, buf)
    PROVE  Tree!WriteRefused(d, name)
<1>1. mounted /\ (d \in TreeDirs <=> disk[d].dir)
  BY DirOfTree DEF Calm, WriteInvalidParent, WriteAlreadyExists, WriteNoRoom,
     Calling
<1>3. disk[d].dir => (Tree!Has(d, name) <=> IsDuplicate(disk[d], name))
  BY TreeDuplicate DEF Calm
<1>4. CASE WriteInvalidParent(d)
  <2>1. AnswerOnly("write", 2, <<>>) /\ ~disk[d].dir
    BY <1>4 DEF WriteInvalidParent
  <2>2. Tree!Keep("write", 2, <<>>)
    BY <2>1, TreeKeep DEF Calm
  <2> QED
    BY <1>1, <2>1, <2>2 DEF Tree!WriteRefused
<1>5. CASE WriteAlreadyExists(d, name)
  <2>1. /\ AnswerOnly("write", 1, <<>>) /\ disk[d].dir
        /\ IsDuplicate(disk[d], name)
    BY <1>5 DEF WriteAlreadyExists
  <2>2. Tree!Keep("write", 1, <<>>)
    BY <2>1, TreeKeep DEF Calm
  <2> QED
    BY <1>3, <2>1, <2>2 DEF Tree!WriteRefused
<1>6. CASE WriteNoRoom(d, name, buf)
  <2>1. /\ AnswerOnly("write", -1, <<>>) /\ disk[d].dir
        /\ ~IsDuplicate(disk[d], name)
    BY <1>6 DEF WriteNoRoom
  <2>2. Tree!Keep("write", -1, <<>>)
    BY <2>1, TreeKeep DEF Calm
  <2> QED
    BY <1>1, <1>3, <2>1, <2>2 DEF Tree!WriteRefused
<1> QED
  BY <1>4, <1>5, <1>6

LEMMA TreeDeleteRefused ==
    ASSUME Calm, NEW d \in Parents, NEW name \in Names,
           DeleteInvalidParent(d) \/ DeleteNotFound(d, name)
    PROVE  Tree!DeleteRefused(d, name)
<1>1. Lookup(d, name)
  BY TreeLookup DEF Calm, DeleteInvalidParent, DeleteNotFound, Calling
<1>2. CASE DeleteInvalidParent(d)
  <2>1. AnswerOnly("delete", -1, <<>>) /\ ~disk[d].dir
    BY <1>2 DEF DeleteInvalidParent
  <2>2. Tree!Keep("delete", -1, <<>>)
    BY <2>1, TreeKeep DEF Calm
  <2> QED
    BY <1>1, <2>1, <2>2 DEF Tree!DeleteRefused, Lookup
<1>3. CASE DeleteNotFound(d, name)
  <2>1. /\ AnswerOnly("delete", 1, <<>>) /\ disk[d].dir
        /\ FirstNamed(disk[d], name) = {}
    BY <1>3 DEF DeleteNotFound
  <2>2. Tree!Keep("delete", 1, <<>>)
    BY <2>1, TreeKeep DEF Calm
  <2> QED
    BY <1>1, <2>1, <2>2 DEF Tree!DeleteRefused, Lookup
<1> QED
  BY <1>2, <1>3

\* The chain of an entry that is a file.
LEMMA FileChain ==
    ASSUME Consistent, ~exhausted, NEW e \in Live, ~EntryAt(e).dir
    PROVE  \E ch \in SeqUpTo(Data, MaxFragments) :
              /\ IsChain(fat, ch) /\ ch[1] = HeadOf(e)
              /\ ChainShape(fat, ch)
              /\ NodeAt(e) = [dir |-> FALSE, id |-> ROOT, data |-> Payload(ch)]
              /\ Len(Payload(ch)) = Len(ch)
<1>1. PICK ch \in SeqUpTo(Data, MaxFragments) :
             IsChain(fat, ch) /\ ch[1] = HeadOf(e)
  BY DEF Consistent, EntriesLead
<1>2. MaxFragments \in Nat
  BY SizesAssumption
<1>3. ChainShape(fat, ch)
  BY <1>1, <1>2, ChainFacts
<1>4. EntryAt(e).dir \in BOOLEAN
  BY EntryTypes
<1>5. NodeAt(e) = [dir |-> FALSE, id |-> ROOT, data |-> Payload(ch)]
  BY <1>1, <1>4, FileNodeAt
<1>6. DOMAIN ch = 1 .. Len(ch) /\ Len(ch) \in Nat
  BY <1>3 DEF ChainShape
<1>7. Len(Payload(ch)) = Len(ch)
  BY <1>6 DEF Payload
<1> QED
  BY <1>1, <1>3, <1>5, <1>7

\* A chain that fits is one that a walk within the buffer meets the end of.
LEMMA ShortChain ==
    ASSUME NEW size \in 1 .. MaxFragments, NEW f, NEW ch,
           ChainShape(f, ch), ch \in SeqUpTo(Data, MaxFragments)
    PROVE  Len(ch) <= size <=> ch \in SeqUpTo(Data, size)
<1>1. PICK k \in 0 .. MaxFragments : ch \in [1 .. k -> Data]
  BY DEF SeqUpTo
<1>2. Len(ch) = k /\ k \in Nat /\ size \in Nat
  BY <1>1, SizesAssumption
<1>3. ASSUME Len(ch) <= size
      PROVE  ch \in SeqUpTo(Data, size)
  <2>1. k \in 0 .. size
    BY <1>2, <1>3
  <2> QED
    BY <1>1, <2>1 DEF SeqUpTo
<1>4. ASSUME ch \in SeqUpTo(Data, size)
      PROVE  Len(ch) <= size
  <2>1. PICK m \in 0 .. size : ch \in [1 .. m -> Data]
    BY <1>4 DEF SeqUpTo
  <2>2. Len(ch) = m
    BY <1>2, <2>1
  <2> QED
    BY <1>2, <2>2
<1> QED
  BY <1>3, <1>4

----------------------------------------------------------------------------
(* Reading. *)

LEMMA TreeReadFile ==
    ASSUME Calm, NEW d \in Parents, NEW name \in Names,
           NEW size \in 1 .. MaxFragments, ReadFile(d, name, size)
    PROVE  Tree!Read(d, name, size)
<1>1. Lookup(d, name) /\ fat_table = fat
  BY TreeLookup DEF Calm, ReadFile, Calling, Consistent, CacheCoherent
<1>2. PICK s \in FirstNamed(disk[d], name), ch \in SeqUpTo(Data, size) \ {<<>>} :
             /\ ~disk[d].slot[s].dir
             /\ ReadAt(disk[d].slot[s], ch, size)
             /\ AnswerCached("read", 0, Payload(ch))
  BY DEF ReadFile
<1> DEFINE e == <<d, s>>
<1>3. /\ e \in Live /\ Tree!IsFile(d, name)
      /\ TreeNodes[<<d, name>>] = NodeAt(e)
      /\ EntryAt(e) = disk[d].slot[s]
  BY <1>1, <1>2 DEF Lookup, ReadFile, EntryAt
<1>4. IsChain(fat, ch) /\ ch[1] = HeadOf(e)
  BY <1>1, <1>2, <1>3 DEF ReadAt, HeadOf
<1> HIDE DEF e
<1>5. ch \in SeqUpTo(Data, MaxFragments)
  <2>1. PICK k \in 0 .. size : ch \in [1 .. k -> Data]
    BY <1>2 DEF SeqUpTo
  <2>2. k \in 0 .. MaxFragments
    BY SizesAssumption
  <2> QED
    BY <2>1, <2>2 DEF SeqUpTo
<1>6. EntryAt(e).dir \in BOOLEAN /\ ~EntryAt(e).dir
  BY <1>2, <1>3, EntryTypes DEF Calm
<1>7. NodeAt(e) = [dir |-> FALSE, id |-> ROOT, data |-> Payload(ch)]
  BY <1>3, <1>4, <1>5, <1>6, FileNodeAt
<1>8. TreeNodes[<<d, name>>].data = Payload(ch)
  BY <1>3, <1>7
<1>9. Len(Payload(ch)) = Len(ch)
  <2>1. MaxFragments \in Nat
    BY SizesAssumption
  <2>2. DOMAIN ch = 1 .. Len(ch) /\ Len(ch) \in Nat
    BY <1>4, <1>5, <2>1, ChainFacts DEF ChainShape
  <2> QED
    BY <2>2 DEF Payload
<1>10. Len(Payload(ch)) <= size
  BY <1>2, <1>9 DEF ReadAt
<1>11. Tree!Keep("read", 0, Payload(ch))
  BY <1>2, TreeKeep DEF Calm
<1> QED
  BY <1>3, <1>8, <1>10, <1>11 DEF Tree!Read

LEMMA TreeReadShort ==
    ASSUME Calm, NEW d \in Parents, NEW name \in Names,
           NEW size \in 1 .. MaxFragments, ReadNotEnoughBuffer(d, name, size)
    PROVE  Tree!Read(d, name, size)
<1>1. Lookup(d, name) /\ fat_table = fat
  BY TreeLookup DEF Calm, ReadNotEnoughBuffer, Calling, Consistent, CacheCoherent
<1>2. PICK s \in FirstNamed(disk[d], name) :
             /\ ~disk[d].slot[s].dir
             /\ \A ch \in SeqUpTo(Data, size) :
                   ch # <<>> => ~ReadAt(disk[d].slot[s], ch, size)
  BY DEF ReadNotEnoughBuffer
<1> DEFINE e == <<d, s>>
<1>3. /\ e \in Live /\ Tree!IsFile(d, name)
      /\ TreeNodes[<<d, name>>] = NodeAt(e)
      /\ EntryAt(e) = disk[d].slot[s]
  BY <1>1, <1>2 DEF Lookup, ReadNotEnoughBuffer, EntryAt
<1> HIDE DEF e
<1>4. ~EntryAt(e).dir
  BY <1>2, <1>3
<1>5. PICK ch \in SeqUpTo(Data, MaxFragments) :
              /\ IsChain(fat, ch) /\ ch[1] = HeadOf(e)
              /\ ChainShape(fat, ch)
              /\ NodeAt(e) = [dir |-> FALSE, id |-> ROOT, data |-> Payload(ch)]
              /\ Len(Payload(ch)) = Len(ch)
  BY <1>3, <1>4, FileChain DEF Calm
<1>6. ~(Len(ch) <= size)
  <2>1. SUFFICES ASSUME Len(ch) <= size
                 PROVE  FALSE
    OBVIOUS
  <2>2. ch \in SeqUpTo(Data, size)
    BY <1>5, <2>1, ShortChain
  <2>3. ReadAt(disk[d].slot[s], ch, size) /\ ch # <<>>
    BY <1>1, <1>3, <1>5, <2>1 DEF ReadAt, HeadOf, IsChain
  <2> QED
    BY <1>2, <2>2, <2>3
<1>7. Len(TreeNodes[<<d, name>>].data) > size
  <2>1. TreeNodes[<<d, name>>].data = Payload(ch)
    BY <1>3, <1>5
  <2>2. Len(ch) \in Nat /\ size \in Nat
    BY <1>5, SizesAssumption DEF ChainShape
  <2> QED
    BY <1>5, <1>6, <2>1, <2>2
<1>8. Tree!Keep("read", 2, <<>>)
  BY TreeKeep DEF Calm, ReadNotEnoughBuffer
<1> QED
  BY <1>3, <1>7, <1>8 DEF Tree!Read

LEMMA TreeReadOther ==
    ASSUME Calm, NEW d \in Parents, NEW name \in Names, NEW size,
           \/ ReadInvalidParent(d)
           \/ ReadNotFound(d, name)
           \/ ReadNotAFile(d, name)
    PROVE  Tree!Read(d, name, size)
<1>1. Lookup(d, name)
  BY TreeLookup DEF Calm, ReadInvalidParent, ReadNotFound, ReadNotAFile, Calling
<1>2. CASE ReadInvalidParent(d)
  <2>1. Tree!Keep("read", -1, <<>>) /\ ~disk[d].dir
    BY <1>2, TreeKeep DEF Calm, ReadInvalidParent
  <2> QED
    BY <1>1, <2>1 DEF Tree!Read, Lookup
<1>3. CASE ReadNotFound(d, name)
  <2>1. /\ Tree!Keep("read", 3, <<>>) /\ disk[d].dir
        /\ FirstNamed(disk[d], name) = {}
    BY <1>3, TreeKeep DEF Calm, ReadNotFound
  <2> QED
    BY <1>1, <2>1 DEF Tree!Read, Lookup
<1>4. CASE ReadNotAFile(d, name)
  <2>1. /\ Tree!Keep("read", 1, <<>>) /\ disk[d].dir
        /\ \E s \in FirstNamed(disk[d], name) : disk[d].slot[s].dir
    BY <1>4, TreeKeep DEF Calm, ReadNotAFile
  <2> QED
    BY <1>1, <2>1 DEF Tree!Read, Lookup
<1> QED
  BY <1>2, <1>3, <1>4

LEMMA TreeEmptyName ==
    ASSUME Calm, NEW d \in Parents,
           ReadNotFound(d, NoName) \/ ReadNotEnoughBuffer(d, NoName, 1)
    PROVE  Tree!ReadEmptyName
<1>1. Tree!Keep("read", 3, <<>>) \/ Tree!Keep("read", 2, <<>>)
  BY TreeKeep DEF Calm, ReadNotFound, ReadNotEnoughBuffer
<1> QED
  BY <1>1 DEF Tree!ReadEmptyName

----------------------------------------------------------------------------
(* Looking at directories. *)

LEMMA TreeReadDirectory ==
    ASSUME Calm, NEW d \in Parents, NEW name \in Names, ReadDirectory(d, name)
    PROVE  Tree!ReadDirectory(d, name)
<1>1. Lookup(d, name)
  BY TreeLookup DEF Calm, ReadDirectory, Calling
<1>2. CASE ~disk[d].dir /\ AnswerCached("read_directory", -1, <<>>)
  <2>1. Tree!Keep("read_directory", -1, <<>>)
    BY <1>2, TreeKeep DEF Calm
  <2> QED
    BY <1>1, <1>2, <2>1 DEF Tree!ReadDirectory, Lookup
<1>3. CASE /\ disk[d].dir /\ FirstNamed(disk[d], name) = {}
           /\ AnswerCached("read_directory", 2, <<>>)
  <2>1. Tree!Keep("read_directory", 2, <<>>)
    BY <1>3, TreeKeep DEF Calm
  <2> QED
    BY <1>1, <1>3, <2>1 DEF Tree!ReadDirectory, Lookup
<1>4. ASSUME NEW s \in FirstNamed(disk[d], name), disk[d].dir,
             ~disk[d].slot[s].dir, AnswerCached("read_directory", 1, <<>>)
      PROVE  Tree!ReadDirectory(d, name)
  <2>1. Tree!Keep("read_directory", 1, <<>>)
    BY <1>4, TreeKeep DEF Calm
  <2> QED
    BY <1>1, <1>4, <2>1 DEF Tree!ReadDirectory, Lookup
<1>5. ASSUME NEW s \in FirstNamed(disk[d], name), disk[d].dir,
             disk[d].slot[s].dir, NEW data,
             AnswerCached("read_directory", 0, data)
      PROVE  Tree!ReadDirectory(d, name)
  <2>1. Tree!Keep("read_directory", 0, <<>>)
    BY <1>5, TreeKeep DEF Calm
  <2> QED
    BY <1>1, <1>5, <2>1 DEF Tree!ReadDirectory, Lookup
<1> QED
  BY <1>2, <1>3, <1>4, <1>5 DEF ReadDirectory

LEMMA TreeChild ==
    ASSUME Calm, NEW d \in Directories, NEW name \in Names, MoveToChild(d, name)
    PROVE  Tree!Child(d, name)
<1>0. d \in Parents /\ disk[d].dir
  BY DEF Directories
<1>1. Lookup(d, name)
  BY <1>0, TreeLookup DEF Calm, MoveToChild, Calling
<1>2. CASE FirstNamed(disk[d], name) = {} /\ AnswerCached("child", 0, <<>>)
  <2>1. Tree!Keep("child", 0, <<>>)
    BY <1>2, TreeKeep DEF Calm
  <2> QED
    BY <1>0, <1>1, <1>2, <2>1 DEF Tree!Child, Lookup
<1>3. ASSUME NEW s \in FirstNamed(disk[d], name),
             AnswerCached("child", disk[d].slot[s].cl, <<>>)
      PROVE  Tree!Child(d, name)
  <2> DEFINE e == <<d, s>>
             id == HeadOf(e)
  <2>1. id = disk[d].slot[s].cl /\ EntryAt(e) = disk[d].slot[s]
    BY DEF HeadOf, EntryAt
  <2>2. e \in Live /\ TreeNodes[<<d, name>>] = NodeAt(e) /\ Tree!Has(d, name)
        /\ (Tree!IsDir(d, name) <=> disk[d].slot[s].dir)
    BY <1>0, <1>1 DEF Lookup
  <2> HIDE DEF e
  <2>3. id \in Parents
    BY <2>2, UsedFacts, Numbers DEF Calm
  <2>4. disk[d].slot[s].dir => TreeNodes[<<d, name>>].id = id
    BY <2>1, <2>2 DEF NodeAt
  <2>5. Tree!Keep("child", id, <<>>)
    BY <1>3, <2>1, TreeKeep DEF Calm
  <2> HIDE DEF id
  <2> QED
    BY <2>2, <2>3, <2>4, <2>5 DEF Tree!Child
<1> QED
  BY <1>2, <1>3 DEF MoveToChild

LEMMA TreeParent ==
    ASSUME Calm, NEW d \in Directories, MoveToParent(d)
    PROVE  Tree!Parent(d)
<1>1. d \in Parents /\ disk[d].dir /\ mounted
  BY DEF Directories, MoveToParent, Calling
<1>2. d = ROOT => disk[d].up = ROOT
  BY <1>1 DEF Calm, Rooted, Consistent, Fresh
<1>3. disk[d].up \in Parents
  BY <1>1, <1>2, MoreNumbers DEF Calm, Rooted
<1>4. ASSUME NEW k \in DOMAIN TreeNodes, TreeNodes[k].dir, TreeNodes[k].id = d
      PROVE  disk[d].up = k[1]
  <2>0. DOMAIN TreeNodes = {KeyOf(e) : e \in Live}
    BY Zenon DEF Calm, Mapped
  <2>1. PICK e \in Live : k = KeyOf(e)
    BY <1>4, <2>0
  <2>2. TreeNodes[k] = NodeAt(e)
    BY <2>1, Zenon DEF Calm, Mapped
  <2>3. EntryAt(e).dir /\ HeadOf(e) = d
    BY <1>4, <2>2 DEF NodeAt
  <2>4. disk[d].up = e[1]
    BY <2>3 DEF Calm, Consistent, EntriesLead
  <2> QED
    BY <2>1, <2>4 DEF KeyOf
<1>5. Tree!Keep("parent", disk[d].up, <<>>)
  BY TreeKeep DEF Calm, MoveToParent
<1> QED
  BY <1>2, <1>3, <1>4, <1>5 DEF Tree!Parent, Tree!Keys

LEMMA TreeChildren ==
    ASSUME Calm, NEW d \in Directories, GetChildren(d)
    PROVE  Tree!Children(d)
<1> DEFINE seen == {disk[d].slot[s].name : s \in Slots} \ {NoName}
<1>1. d \in Parents /\ disk[d].dir /\ d \in Clusters
  BY Numbers DEF Directories
<1>2. ASSUME NEW name \in seen
      PROVE  name \in Names /\ Tree!Has(d, name)
  <2>1. PICK s \in Slots : name = disk[d].slot[s].name /\ name # NoName
    OBVIOUS
  <2>2. disk[d].slot[s].undelete
    BY <1>1, <2>1 DEF Calm, Consistent, MarksAgree
  <2>3. <<d, s>> \in Live /\ EntryAt(<<d, s>>).name = name
    BY <1>1, <2>1, <2>2 DEF Live, EntryAt
  <2>4. Tree!Has(d, name)
    BY <2>3, TreeHas DEF Calm
  <2> QED
    BY <2>3, <2>4, EntryTypes DEF Calm
<1>3. ASSUME NEW name \in Names, Tree!Has(d, name)
      PROVE  name \in seen
  <2>1. PICK e \in Live : e[1] = d /\ EntryAt(e).name = name
    BY <1>3, TreeHas DEF Calm
  <2>2. e[2] \in Slots /\ disk[d].slot[e[2]].name = name
    BY <2>1, EntryTypes DEF Calm, EntryAt
  <2> QED
    BY <2>2, NamesAssumption
<1>4. seen = {name \in Names : Tree!Has(d, name)}
  BY <1>2, <1>3
<1>5. Tree!Keep("children", 0, <<seen>>)
  BY TreeKeep DEF Calm, GetChildren
<1> HIDE DEF seen
<1> QED
  BY <1>4, <1>5 DEF Tree!Children

----------------------------------------------------------------------------
(* The way from the root to a directory. *)

\* v lists what lies between d and the root, each followed by what up gives.
Climbs(up, root, v, n, d) ==
    /\ n = 0 => d = root
    /\ n > 0 => v[1] = d
    /\ \A i \in 1 .. n : v[i] # root /\ up[v[i]] = IF i < n THEN v[i + 1] ELSE root

LEMMA ClimbsWithin ==
    ASSUME NEW up, NEW root, NEW d, NEW n \in Nat, NEW m \in Nat, NEW v, NEW w,
           Climbs(up, root, v, n, d), Climbs(up, root, w, m, d)
    PROVE  \A i \in 1 .. n : i <= m /\ v[i] = w[i]
<1> DEFINE B == {i \in 1 .. n : ~(i <= m /\ v[i] = w[i])}
<1> SUFFICES ASSUME B # {}
             PROVE  FALSE
  OBVIOUS
<1>1. B \in SUBSET Nat
  OBVIOUS
<1>2. PICK i \in B : \A j \in B : i <= j
  BY <1>1, LeastNumber
<1>3. i \in 1 .. n /\ i \in Nat /\ ~(i <= m /\ v[i] = w[i])
  OBVIOUS
<1>4. i # 1
  <2>1. ASSUME i = 1
        PROVE  FALSE
    <3>1. n > 0 /\ v[1] = d /\ v[1] # root
      BY <1>3, <2>1 DEF Climbs
    <3>2. m # 0
      BY <3>1 DEF Climbs
    <3>3. m > 0 /\ w[1] = d
      BY <3>2 DEF Climbs
    <3> QED
      BY <1>3, <2>1, <3>1, <3>3
  <2> QED
    BY <2>1
<1>5. PICK j : j = i - 1
  OBVIOUS
<1>6. j \in 1 .. n /\ j < n /\ j + 1 = i /\ j < i
  BY <1>3, <1>4, <1>5
<1>7. j \notin B
  BY <1>2, <1>3, <1>6
<1>8. j <= m /\ v[j] = w[j]
  BY <1>6, <1>7
<1>9. up[v[j]] = v[i] /\ v[i] # root
  BY <1>3, <1>6 DEF Climbs
<1>10. up[w[j]] = IF j < m THEN w[i] ELSE root
  BY <1>6, <1>8 DEF Climbs
<1>11. j < m /\ w[i] = v[i]
  BY <1>8, <1>9, <1>10
<1> QED
  BY <1>3, <1>6, <1>11

\* There is one way up, and it never comes back to where it was.
LEMMA ClimbsOnce ==
    ASSUME NEW up, NEW root, NEW d, NEW n \in Nat, NEW m \in Nat, NEW v, NEW w,
           Climbs(up, root, v, n, d), Climbs(up, root, w, m, d)
    PROVE  n = m /\ \A i \in 1 .. n : v[i] = w[i]
<1>1. \A i \in 1 .. n : i <= m /\ v[i] = w[i]
  BY ClimbsWithin
<1>2. \A i \in 1 .. m : i <= n
  BY ClimbsWithin
<1>3. n <= m
  BY <1>1
<1>4. m <= n
  BY <1>2
<1> QED
  BY <1>1, <1>3, <1>4

LEMMA ClimbsApart ==
    ASSUME NEW up, NEW root, NEW d, NEW n \in Nat, NEW v,
           Climbs(up, root, v, n, d), NEW i \in 1 .. n, NEW j \in 1 .. n,
           v[i] = v[j]
    PROVE  i = j
<1> DEFINE tail(k) == [x \in 1 .. (n - k + 1) |-> v[x + k - 1]]
<1>1. ASSUME NEW k \in 1 .. n
      PROVE  /\ n - k + 1 \in Nat
             /\ Climbs(up, root, tail(k), n - k + 1, v[k])
  <2>1. n - k + 1 \in Nat /\ n - k + 1 > 0 /\ k \in Nat
    OBVIOUS
  <2>2. tail(k)[1] = v[k]
    <3>1. 1 \in 1 .. (n - k + 1) /\ 1 + k - 1 = k
      BY <2>1
    <3> QED
      BY <3>1
  <2>3. ASSUME NEW x \in 1 .. (n - k + 1)
        PROVE  /\ tail(k)[x] # root
               /\ up[tail(k)[x]] = IF x < n - k + 1 THEN tail(k)[x + 1] ELSE root
    <3>1. PICK y : y = x + k - 1
      OBVIOUS
    <3>2. y \in 1 .. n /\ (y < n <=> x < n - k + 1) /\ x + 1 + k - 1 = y + 1
      BY <2>1, <3>1
    <3>3. tail(k)[x] = v[y]
      BY <3>1
    <3>4. x < n - k + 1 => tail(k)[x + 1] = v[y + 1]
      <4>1. ASSUME x < n - k + 1
            PROVE  x + 1 \in 1 .. (n - k + 1)
        BY <2>1, <4>1
      <4> QED
        BY <3>2, <4>1
    <3>5. v[y] # root /\ up[v[y]] = IF y < n THEN v[y + 1] ELSE root
      BY <3>2 DEF Climbs
    <3> HIDE DEF tail
    <3> QED
      BY <3>2, <3>3, <3>4, <3>5
  <2> HIDE DEF tail
  <2> QED
    BY <2>1, <2>2, <2>3 DEF Climbs
<1> HIDE DEF tail
<1>2. /\ n - i + 1 \in Nat /\ n - j + 1 \in Nat
      /\ Climbs(up, root, tail(i), n - i + 1, v[i])
      /\ Climbs(up, root, tail(j), n - j + 1, v[i])
  BY <1>1
<1>3. PICK a \in Nat, b \in Nat : a = n - i + 1 /\ b = n - j + 1
  BY <1>2
<1>4. Climbs(up, root, tail(i), a, v[i]) /\ Climbs(up, root, tail(j), b, v[i])
  BY <1>2, <1>3
<1>5. a = b
  BY <1>4, ClimbsOnce
<1> QED
  BY <1>3, <1>5

LEMMA SurelyShort ==
    ASSUME NEW S, IsFiniteSet(S), NEW n \in Nat, NEW v,
           \A i \in 1 .. n : v[i] \in S,
           \A i, j \in 1 .. n : v[i] = v[j] => i = j
    PROVE  n \in 0 .. Cardinality(S)
<1> DEFINE f == [i \in 1 .. n |-> v[i]]
<1>1. f \in Injection(1 .. n, S)
  BY DEF Injection, IsInjective
<1>2. Cardinality(1 .. n) <= Cardinality(S)
  BY <1>1, FS_Injection
<1>3. Cardinality(1 .. n) = n
  BY FS_Interval
<1>4. Cardinality(S) \in Nat
  BY FS_CardinalityType
<1> QED
  BY <1>2, <1>3, <1>4

\* The module FileTree counts as this one does.
LEMMA TreeCount ==
    ASSUME NEW S
    PROVE  Tree!Cardinality(S) = Cardinality(S)
BY Zenon DEF Tree!Cardinality, Cardinality

LEMMA TreeDirsFinite == IsFiniteSet(TreeDirs \ {ROOT})
<1>1. IsFiniteSet(Clusters)
  BY SizesAssumption, FS_Interval DEF Clusters
<1>2. TreeDirs \ {ROOT} \in SUBSET Clusters
  BY Numbers DEF TreeDirs, Directories
<1> QED
  BY <1>1, <1>2, FS_Subset

\* A name that stands for a directory: its table leads back and bears the name.
LEMMA KeyLeads ==
    ASSUME Consistent, Mapped, ~exhausted, NEW k \in DOMAIN TreeNodes,
           TreeNodes[k].dir
    PROVE  /\ TreeNodes[k].id \in Data
           /\ disk[TreeNodes[k].id].up = k[1]
           /\ disk[TreeNodes[k].id].name = k[2]
<1>0. DOMAIN TreeNodes = {KeyOf(e) : e \in Live}
  BY Zenon DEF Mapped
<1>1. PICK e \in Live : k = KeyOf(e)
  BY <1>0
<1>2. TreeNodes[k] = NodeAt(e)
  BY <1>1, Zenon DEF Mapped
<1>3. EntryAt(e).dir /\ HeadOf(e) = TreeNodes[k].id
  BY <1>2 DEF NodeAt
<1>4. /\ HeadOf(e) \in Data
      /\ disk[HeadOf(e)].up = e[1]
      /\ disk[HeadOf(e)].name = EntryAt(e).name
  BY <1>3 DEF Consistent, EntriesLead
<1>5. k[1] = e[1] /\ k[2] = EntryAt(e).name
  BY <1>1 DEF KeyOf
<1> QED
  BY <1>3, <1>4, <1>5, Zenon

\* A way down in the tree is the way up of the driver, turned round.
LEMMA WayTurned ==
    ASSUME Consistent, Mapped, ~exhausted, NEW d, NEW m \in Nat,
           NEW way \in [1 .. m -> DOMAIN TreeNodes], Tree!IsWay(way, d)
    PROVE  LET back == [i \in 1 .. m |-> TreeNodes[way[m + 1 - i]].id]
           IN  /\ Climbs([c \in Data |-> disk[c].up], ROOT, back, m, d)
               /\ \A i \in 1 .. m : disk[back[i]].name = way[m + 1 - i][2]
<1> DEFINE back == [i \in 1 .. m |-> TreeNodes[way[m + 1 - i]].id]
           up == [c \in Data |-> disk[c].up]
<1>1. Len(way) = m /\ DOMAIN way = 1 .. m /\ (way = <<>> <=> m = 0)
  OBVIOUS
<1>2. m = 0 => d = ROOT
  BY <1>1 DEF Tree!IsWay
<1>3. m > 0 => back[1] = d
  <2>1. ASSUME m > 0
        PROVE  1 \in 1 .. m /\ m + 1 - 1 = m
    BY <2>1
  <2>2. m > 0 => TreeNodes[way[m]].id = d
    BY <1>1 DEF Tree!IsWay
  <2> QED
    BY <2>1, <2>2
<1>4. ASSUME NEW i \in 1 .. m
      PROVE  /\ back[i] # ROOT
             /\ up[back[i]] = IF i < m THEN back[i + 1] ELSE ROOT
             /\ disk[back[i]].name = way[m + 1 - i][2]
  <2>1. PICK j \in 1 .. m : j = m + 1 - i
    OBVIOUS
  <2>2. /\ TreeNodes[way[j]].dir
        /\ way[j][1] = IF j = 1 THEN ROOT ELSE TreeNodes[way[j - 1]].id
    BY <1>1, <2>1 DEF Tree!IsWay
  <2>3. way[j] \in DOMAIN TreeNodes
    OBVIOUS
  <2>4. back[i] = TreeNodes[way[j]].id
    BY <2>1
  <2>5. /\ TreeNodes[way[j]].id \in Data
        /\ disk[TreeNodes[way[j]].id].up = way[j][1]
        /\ disk[TreeNodes[way[j]].id].name = way[j][2]
    BY <2>2, <2>3, KeyLeads
  <2>6. i < m => back[i + 1] = TreeNodes[way[j - 1]].id
    <3>1. ASSUME i < m
          PROVE  i + 1 \in 1 .. m /\ m + 1 - (i + 1) = j - 1
      BY <2>1, <3>1
    <3> QED
      BY <3>1
  <2>7. i < m <=> j # 1
    BY <2>1
  <2> HIDE DEF back
  <2>8. back[i] \in Data /\ up[back[i]] = way[j][1]
    BY <2>4, <2>5
  <2>9. back[i] # ROOT
    BY <2>8, SizesAssumption DEF Data, ROOT, FIRST_DATA
  <2>10. way[j][1] = IF i < m THEN back[i + 1] ELSE ROOT
    BY <2>2, <2>6, <2>7
  <2>11. disk[back[i]].name = way[m + 1 - i][2]
    BY <2>1, <2>4, <2>5
  <2> HIDE DEF up
  <2> QED
    BY <2>8, <2>9, <2>10, <2>11
<1> HIDE DEF back, up
<1>5. Climbs(up, ROOT, back, m, d)
  BY <1>2, <1>3, <1>4 DEF Climbs
<1> QED
  BY <1>4, <1>5 DEF back, up

LEMMA TreePath ==
    ASSUME Calm, NEW d \in Directories, GetDirPath(d)
    PROVE  Tree!Path(d)
<1> DEFINE up == [c \in Data |-> disk[c].up]
<1>1. PICK way \in SeqUpTo(Data, N - FIRST_DATA) :
         /\ IsWayUp(way, d)
         /\ AnswerCached("path", 0,
               [i \in DOMAIN way |-> disk[way[Len(way) + 1 - i]].name])
  BY DEF GetDirPath
<1>2. PICK n \in 0 .. (N - FIRST_DATA) : way \in [1 .. n -> Data]
  BY <1>1 DEF SeqUpTo
<1>3. /\ n \in Nat /\ Len(way) = n /\ DOMAIN way = 1 .. n
      /\ (way = <<>> <=> n = 0)
  BY <1>2, SizesAssumption DEF FIRST_DATA
<1> DEFINE names == [i \in 1 .. n |-> disk[way[n + 1 - i]].name]
<1>4. Climbs(up, ROOT, way, n, d)
  <2>1. ASSUME NEW i \in 1 .. n
        PROVE  /\ way[i] # ROOT
               /\ up[way[i]] = IF i < n THEN way[i + 1] ELSE ROOT
    <3>1. way[i] \in Data
      BY <1>2
    <3> QED
      BY <1>1, <1>3, <3>1 DEF IsWayUp
  <2>2. (n = 0 => d = ROOT) /\ (n > 0 => way[1] = d)
    BY <1>1, <1>3 DEF IsWayUp
  <2> HIDE DEF up
  <2> QED
    BY <2>1, <2>2 DEF Climbs
<1>5. ASSUME NEW i \in 1 .. n
      PROVE  way[i] \in TreeDirs \ {ROOT} /\ disk[way[i]].name \in Names
  <2>1. way[i] \in Data /\ way[i] # ROOT
    BY <1>2, <1>4 DEF Climbs
  <2>2. disk[way[i]].dir
    <3>1. SUFFICES ASSUME ~disk[way[i]].dir
                   PROVE  FALSE
      OBVIOUS
    <3>2. disk[way[i]].up = 0
      BY <2>1, <3>1 DEF Calm, Rooted
    <3>3. disk[way[i]].up = IF i < n THEN way[i + 1] ELSE ROOT
      BY <1>4, <2>1 DEF Climbs
    <3>4. i < n => way[i + 1] \in Data
      BY <1>2
    <3> QED
      BY <3>2, <3>3, <3>4, SizesAssumption DEF Data, ROOT, FIRST_DATA
  <2> QED
    BY <2>1, <2>2, MoreNumbers DEF Calm, Rooted, TreeDirs, Directories
<1>6. n \in 0 .. Cardinality(TreeDirs \ {ROOT})
  <2>1. \A i, j \in 1 .. n : way[i] = way[j] => i = j
    BY <1>3, <1>4, ClimbsApart
  <2> QED
    BY <1>3, <1>5, <2>1, TreeDirsFinite, SurelyShort
<1>7. names \in [1 .. n -> Names]
  <2>1. \A i \in 1 .. n : n + 1 - i \in 1 .. n
    BY <1>3
  <2> QED
    BY <1>5, <2>1
<1>8. names \in Tree!UpTo(Tree!Depth, Names)
  BY <1>6, <1>7, TreeCount DEF Tree!UpTo, Tree!Depth
<1>9. ASSUME NEW way2 \in Tree!UpTo(Tree!Depth, Tree!Keys), Tree!IsWay(way2, d)
      PROVE  names = [i \in DOMAIN way2 |-> way2[i][2]]
  <2>1. PICK m \in 0 .. Cardinality(TreeDirs \ {ROOT}) :
               way2 \in [1 .. m -> DOMAIN TreeNodes]
    BY <1>9, TreeCount DEF Tree!UpTo, Tree!Depth, Tree!Keys
  <2>2. m \in Nat /\ DOMAIN way2 = 1 .. m
    BY <2>1, TreeDirsFinite, FS_CardinalityType
  <2> DEFINE back == [i \in 1 .. m |-> TreeNodes[way2[m + 1 - i]].id]
  <2>3. /\ Climbs(up, ROOT, back, m, d)
        /\ \A i \in 1 .. m : disk[back[i]].name = way2[m + 1 - i][2]
    BY <1>9, <2>1, <2>2, WayTurned DEF Calm
  <2> HIDE DEF back, up
  <2>4. n = m /\ \A i \in 1 .. n : way[i] = back[i]
    BY <1>3, <1>4, <2>2, <2>3, ClimbsOnce
  <2>5. ASSUME NEW i \in 1 .. n
        PROVE  names[i] = way2[i][2]
    <3>1. PICK j \in 1 .. n : j = n + 1 - i /\ n + 1 - j = i
      BY <1>3
    <3>2. names[i] = disk[way[j]].name
      BY <3>1
    <3>3. disk[back[j]].name = way2[i][2]
      BY <2>3, <2>4, <3>1
    <3> QED
      BY <2>4, <3>2, <3>3
  <2> QED
    BY <2>2, <2>4, <2>5
<1>10. Tree!Keep("path", 0, names)
  <2>1. AnswerCached("path", 0, names)
    BY <1>1, <1>3
  <2> HIDE DEF names
  <2> QED
    BY <2>1, TreeKeep DEF Calm
<1> HIDE DEF names
<1> QED
  BY <1>8, <1>9, <1>10 DEF Tree!Path

----------------------------------------------------------------------------
(* Searching the index. *)

LEMMA ParentsFinite ==
    /\ IsFiniteSet(Parents) /\ Cardinality(Parents) \in Nat
    /\ Cardinality(Starts) <= Cardinality(Parents)
<1>1. IsFiniteSet(Clusters)
  BY SizesAssumption, FS_Interval DEF Clusters
<1>2. Parents \in SUBSET Clusters
  BY Numbers
<1>3. IsFiniteSet(Parents)
  BY <1>1, <1>2, FS_Subset
<1>4. Starts \in SUBSET Parents
  BY MoreNumbers DEF Starts
<1> QED
  BY <1>3, <1>4, FS_Subset, FS_CardinalityType

\* As many places as there are, no more values stand at them.
LEMMA ValuesAtMost ==
    ASSUME NEW I, IsFiniteSet(I), NEW table
    PROVE  Cardinality({table[i][2] : i \in I}) <= Cardinality(I)
<1> DEFINE T == {table[i][2] : i \in I}
           f == [i \in I |-> table[i][2]]
<1>1. f \in [I -> T] /\ \A t \in T : \E i \in I : f[i] = t
  OBVIOUS
<1>2. f \in Surjection(I, T)
  <2> HIDE DEF f, T
  <2> QED
    BY <1>1 DEF Surjection
<1> HIDE DEF f
<1>3. Cardinality(T) <= Cardinality(I)
  <2> HIDE DEF T
  <2> QED
    BY <1>2, FS_Surjection
<1> QED
  BY <1>3

LEMMA TreeSearch ==
    ASSUME Calm, Listed, IndexFits, NEW name \in Names, SearchIndex(name)
    PROVE  Tree!Search(name)
<1> DEFINE hits == {i \in DOMAIN index : index[i][1] = name}
           found == {index[i][2] : i \in hits}
           count == Cardinality(hits)
<1>1. TypeOK
  BY DEF Calm, Consistent
<1>2. AnswerOnly("search", count, <<found>>)
  <2>1. PICK junk : LET table == Loaded(junk)
                        at == {i \in DOMAIN table : table[i][1] = name}
                    IN  AnswerOnly("search", Cardinality(at),
                                   <<{table[i][2] : i \in at}>>)
    BY DEF SearchIndex
  <2>2. Loaded(junk) = index
    BY <1>1, LoadedIndex
  <2> QED
    BY <2>1, <2>2
<1>3. Tree!Keep("search", count, <<found>>)
  <2> HIDE DEF count, found
  <2> QED
    BY <1>2, TreeKeep DEF Calm
<1>4. ASSUME NEW i \in hits
      PROVE  index[i][2] \in Parents
  <2>1. index[i] \in Record \cup {NoRecord}
    BY <1>1
    DEF TypeOK
  <2>2. index[i][1] = name
    OBVIOUS
  <2>3. index[i] # NoRecord
    BY <2>2, NamesAssumption DEF NoRecord
  <2>4. PICK n \in Names, p \in Parents : index[i] = <<n, p>>
    BY <2>1, <2>3 DEF Record
  <2> QED
    BY <2>4
<1>5. found \in SUBSET Parents
  BY <1>4
<1>6. ASSUME NEW d, Tree!Has(d, name)
      PROVE  d \in found
  <2>1. PICK e \in Live : e[1] = d /\ EntryAt(e).name = name
    BY <1>6, TreeHas DEF Calm
  <2>2. PICK i \in DOMAIN index : index[i] = <<EntryAt(e).name, e[1]>>
    BY DEF Calm, Listed, AllListed
  <2>3. index[i] = <<name, d>>
    BY <2>1, <2>2
  <2>4. index[i][1] = name /\ index[i][2] = d
    BY <2>3
  <2> QED
    BY <2>4
<1>7. /\ Len(index) \in Nat /\ DOMAIN index = 1 .. Len(index)
      /\ Len(index) <= Cardinality(Starts)
  <2>1. fat[INDEX] <= Cardinality(Starts)
    BY DEF Calm, IndexFits
  <2> QED
    BY <1>1, <2>1, IndexShape
<1>8. IsFiniteSet(1 .. Len(index)) /\ Cardinality(1 .. Len(index)) = Len(index)
  <2>1. PICK n \in Nat : n = Len(index)
    BY <1>7
  <2>2. IsFiniteSet(1 .. n) /\ Cardinality(1 .. n) = n
    BY FS_Interval
  <2> QED
    BY <2>1, <2>2
<1>9. IsFiniteSet(hits) /\ count \in Nat /\ count <= Len(index)
  <2>1. hits \in SUBSET (1 .. Len(index))
    BY <1>7
  <2> HIDE DEF hits
  <2> QED
    BY <1>8, <2>1, FS_Subset, FS_CardinalityType
<1>10. Cardinality(found) <= count
  <2>1. IsFiniteSet(hits)
    BY <1>9
  <2> HIDE DEF hits
  <2> QED
    BY <2>1, ValuesAtMost
<1>11. Cardinality(found) \in Nat
  BY <1>5, ParentsFinite, FS_Subset, FS_CardinalityType
<1>12. count <= Cardinality(Parents)
  <2> HIDE DEF count
  <2> QED
    BY <1>7, <1>9, ParentsFinite, StartsFinite
<1>13. count \in 0 .. (2 * Cardinality(Parents)) /\ count >= Cardinality(found)
  <2> HIDE DEF count, found
  <2> QED
    BY <1>9, <1>10, <1>11, <1>12, ParentsFinite
<1> HIDE DEF count, found
<1>14. {d \in TreeDirs : Tree!Has(d, name)} \subseteq found
  BY <1>6
<1>15. \E f \in SUBSET Parents, c \in 0 .. (2 * Cardinality(Parents)) :
         /\ {d \in TreeDirs : Tree!Has(d, name)} \subseteq f
         /\ c >= Cardinality(f)
         /\ Tree!Keep("search", c, <<f>>)
  BY <1>3, <1>5, <1>13, <1>14, Zenon
<1> QED
  BY <1>15, TreeCount DEF Tree!Search

----------------------------------------------------------------------------
(* Creating. *)

\* Every name of before stands for what it stood for.
LEMMA WriteKeepsNode ==
    ASSUME Consistent, ~exhausted, NEW parent, NEW name, NEW buf, NEW s, NEW cl,
           EntriesAfterWrite(parent, s, name, buf, cl),
           ClustersAfterWrite(parent, name, buf, cl), NEW e \in Live
    PROVE  KeyOf(e)' = KeyOf(e) /\ NodeAt(e)' = NodeAt(e)
<1>1. EntryAt(e)' = EntryAt(e) /\ HeadOf(e)' = HeadOf(e)
  BY DEF EntriesAfterWrite, HeadOf
<1>2. EntryAt(e).dir \in BOOLEAN
  BY EntryTypes
<1>3. CASE EntryAt(e).dir
  BY <1>1, <1>2, <1>3 DEF NodeAt, KeyOf
<1>4. CASE ~EntryAt(e).dir
  <2>1. PICK ch \in SeqUpTo(Data, MaxFragments) :
               /\ IsChain(fat, ch) /\ ch[1] = HeadOf(e)
               /\ \A i \in DOMAIN ch : disk[ch[i]].data \in Blocks
    BY <1>4 DEF Consistent, EntriesLead
  <2>2. /\ IsChain(fat', ch)
        /\ \A i \in DOMAIN ch : disk'[ch[i]].data = disk[ch[i]].data
    BY <2>1, WriteKeepsChain
  <2>3. /\ ChainAt(fat, HeadOf(e)) = ch
        /\ ChainAt(fat', HeadOf(e)) = ch
    BY <2>1, <2>2, ChainAtIs
  <2>4. Payload(ch)' = Payload(ch)
    BY <2>2 DEF Payload
  <2>5. EntryAt(e).dir = FALSE
    BY <1>2, <1>4
  <2>6. NodeAt(e) = [dir |-> FALSE, id |-> ROOT, data |-> Payload(ch)]
    BY <2>3, <2>5 DEF NodeAt
  <2>7. NodeAt(e)' = [dir |-> FALSE, id |-> ROOT, data |-> Payload(ch)']
    BY <1>1, <2>3, <2>5 DEF NodeAt
  <2> QED
    BY <1>1, <2>4, <2>6, <2>7, Zenon DEF KeyOf
<1> QED
  BY <1>3, <1>4

LEMMA WriteAddsNode ==
    ASSUME Calm, ~exhausted', NEW parent, NEW name, NEW buf, NEW s, NEW cl,
           EntriesAfterWrite(parent, s, name, buf, cl),
           ClustersAfterWrite(parent, name, buf, cl),
           ~Tree!Has(parent, name)
    PROVE  TreeNodes' = Tree!With(<<parent, name>>, NodeAt(<<parent, s>>)')
<1> DEFINE new == <<parent, s>>
           key == <<parent, name>>
           node == NodeAt(new)'
           old == {KeyOf(e) : e \in Live}
<1>1. Live' = Live \cup {new} /\ EntryAt(new)'.name = name
  BY DEF EntriesAfterWrite
<1>2. KeyOf(new)' = key
  BY <1>1 DEF KeyOf
<1>3. \A e \in Live : KeyOf(e)' = KeyOf(e) /\ NodeAt(e)' = NodeAt(e)
  BY WriteKeepsNode DEF Calm
<1>4. /\ DOMAIN TreeNodes = old
      /\ \A e \in Live : TreeNodes[KeyOf(e)] = NodeAt(e)
  BY Zenon DEF Calm, Mapped
<1>5. /\ TreeNodes' = [k \in {KeyOf(e)' : e \in Live'} |-> TreeNodes'[k]]
      /\ \A e \in Live' : TreeNodes'[KeyOf(e)'] = NodeAt(e)'
  BY Zenon DEF Calm, Mapped
<1> HIDE DEF new
<1>6. {KeyOf(e)' : e \in Live'} = old \cup {key}
  <2>1. ASSUME NEW k \in {KeyOf(e)' : e \in Live'}
        PROVE  k \in old \cup {key}
    <3>1. PICK e \in Live' : k = KeyOf(e)'
      OBVIOUS
    <3> QED
      BY <1>1, <1>2, <1>3, <3>1
  <2>2. ASSUME NEW k \in old \cup {key}
        PROVE  k \in {KeyOf(e)' : e \in Live'}
    <3>1. \E e \in Live' : k = KeyOf(e)'
      BY <1>1, <1>2, <1>3
    <3> QED
      BY <3>1
  <2> QED
    BY <2>1, <2>2
<1>7. key \notin old
  BY <1>4, Zenon DEF Tree!Has, Tree!Keys
<1>8. ASSUME NEW k \in old \cup {key}
      PROVE  TreeNodes'[k] = IF k = key THEN node ELSE TreeNodes[k]
  <2>1. CASE k = key
    <3>1. TreeNodes'[KeyOf(new)'] = NodeAt(new)'
      BY <1>1, <1>5
    <3> QED
      BY <1>2, <2>1, <3>1, Zenon
  <2>2. CASE k # key
    <3>1. PICK e \in Live : k = KeyOf(e)
      BY <1>8, <2>2
    <3>2. TreeNodes'[KeyOf(e)'] = NodeAt(e)'
      BY <1>1, <1>5
    <3>3. TreeNodes'[k] = TreeNodes[k]
      BY <1>3, <1>4, <3>1, <3>2, Zenon
    <3> QED
      BY <2>2, <3>3
  <2> QED
    BY <2>1, <2>2
<1> HIDE DEF key, node, old
<1>9. TreeNodes' = [k \in old \cup {key} |->
                      IF k = key THEN node ELSE TreeNodes[k]]
  BY <1>5, <1>6, <1>8
<1> QED
  BY <1>4, <1>9 DEF Tree!With, Tree!Keys, key, node, new

\* The directories after a write.
LEMMA WriteDirectories ==
    ASSUME Consistent, NEW parent \in Parents, NEW name \in Names, NEW buf,
           NEW s, NEW cl, EntriesAfterWrite(parent, s, name, buf, cl),
           ClustersAfterWrite(parent, name, buf, cl)
    PROVE  IF buf = <<>>
           THEN TreeDirs' = TreeDirs \cup Range(cl)
           ELSE TreeDirs' = TreeDirs
<1>1. \A d \in Parents : d \notin Range(cl) => disk'[d].dir = disk[d].dir
  BY DEF EntriesAfterWrite
<1>2. ASSUME NEW c \in Range(cl)
      PROVE  /\ c \in Parents /\ c # ROOT
             /\ ~disk[c].dir
             /\ IF buf = <<>> THEN disk'[c].dir ELSE ~disk'[c].dir
  <2>1. PICK i \in 1 .. Len(cl) : c = cl[i]
    BY DEF ClustersAfterWrite
  <2>2. c \in Data /\ fat[c] = EMPTY
    BY DEF ClustersAfterWrite
  <2>3. ~disk[c].dir
    BY <2>2, BlankType DEF Consistent, FreeIsBlank
  <2>4. buf = <<>> => disk'[c].dir
    <3>1. parent \in Clusters /\ name \in Names \cup {NoName}
      BY Numbers
    <3>2. DirTable(name, parent).dir
      BY <3>1, TableType
    <3>3. buf = <<>> => disk'[c] = DirTable(name, parent)
      BY <2>1 DEF ClustersAfterWrite
    <3> QED
      BY <3>2, <3>3
  <2>5. buf # <<>> => ~disk'[c].dir
    <3>1. buf # <<>> => disk'[c] = FileBlock(buf[i]) /\ buf[i] \in Blocks
      BY <2>1 DEF ClustersAfterWrite
    <3> QED
      BY <3>1, FileType
  <2> QED
    BY <2>2, <2>3, <2>4, <2>5, Numbers, MoreNumbers, SizesAssumption
       DEF Data, ROOT, FIRST_DATA
<1>3. CASE buf = <<>>
  BY <1>1, <1>2, <1>3 DEF TreeDirs, Directories
<1>4. CASE buf # <<>>
  BY <1>1, <1>2, <1>4 DEF TreeDirs, Directories
<1> QED
  BY <1>3, <1>4

LEMMA TreeCreate ==
    ASSUME Calm, Consistent', ~exhausted', NEW d \in Parents,
           NEW name \in Names, NEW buf \in Buffers, WriteEntry(d, name, buf)
    PROVE  Tree!CreateFile(d, name, buf) \/ Tree!CreateDirectory(d, name)
<1>1. PICK s, cl : WriteFacts(d, s, name, buf, cl)
  BY WriteEffects DEF Calm
<1>2. EntriesAfterWrite(d, s, name, buf, cl)
  <2>1. Consistent /\ TypeOK'
    BY DEF Calm, Consistent
  <2> QED
    BY <1>1, <2>1, WriteLive
<1>3. ClustersAfterWrite(d, name, buf, cl)
  BY <1>1, WriteClusters DEF Calm
<1>4. disk[d].dir /\ ~IsDuplicate(disk[d], name) /\ mounted
  BY DEF WriteEntry, Calling
<1>5. d \in TreeDirs /\ ~Tree!Has(d, name)
  BY <1>4, DirOfTree, TreeDuplicate DEF Calm
<1>6. TreeNodes' = Tree!With(<<d, name>>, NodeAt(<<d, s>>)')
  BY <1>2, <1>3, <1>5, WriteAddsNode
<1>7. Tree!Answer("write", 0, <<>>)
  BY TreeAnswer DEF WriteEntry
<1>8. exhausted' = exhausted
  BY DEF Calm, Consistent, TypeOK
<1> DEFINE new == <<d, s>>
<1>9. EntryAt(new)' = [name |-> name, dir |-> buf = <<>>, notempty |-> FALSE,
                       undelete |-> TRUE, cl |-> cl[1]]
  BY <1>2 DEF EntriesAfterWrite
<1>10. HeadOf(new)' = cl[1] /\ EntryAt(new)'.dir = (buf = <<>>)
  <2>1. EntryAt(new)'.cl = cl[1]
    BY <1>9
  <2> DEFINE entry == [name |-> name, dir |-> buf = <<>>, notempty |-> FALSE,
                       undelete |-> TRUE, cl |-> cl[1]]
  <2>2. entry.dir = (buf = <<>>)
    BY Zenon
  <2>3. EntryAt(new)'.dir = (buf = <<>>)
    BY <1>9, <2>2, Zenon
  <2> QED
    BY <2>1, <2>3 DEF HeadOf
<1> HIDE DEF new
<1>11. CASE buf = <<>>
  <2>1. EntryAt(new)'.dir /\ EntryAt(new)'.dir = TRUE
    BY <1>10, <1>11
  <2>2. NodeAt(new)' = Tree!DirNode(cl[1])
    BY <1>10, <2>1 DEF NodeAt, Tree!DirNode
  <2>3. Len(cl) = 1 /\ Range(cl) = {cl[1]} /\ cl[1] \in Data /\ fat[cl[1]] = EMPTY
    <3>1. Len(cl) = 1
      BY <1>1, <1>11 DEF WriteFacts
    <3> QED
      BY <1>3, <3>1 DEF ClustersAfterWrite
  <2>4. TreeDirs' = TreeDirs \cup {cl[1]}
    BY <1>2, <1>3, <1>11, <2>3, WriteDirectories DEF Calm
  <2>5. cl[1] \in Parents \ TreeDirs
    <3>1. ~disk[cl[1]].dir
      BY <2>3, BlankType DEF Calm, Consistent, FreeIsBlank
    <3>2. cl[1] \in Parents /\ cl[1] # ROOT
      BY <2>3, Numbers, MoreNumbers, SizesAssumption DEF Data, ROOT, FIRST_DATA
    <3> QED
      BY <3>1, <3>2 DEF TreeDirs, Directories
  <2>6. TreeNodes' = Tree!With(<<d, name>>, Tree!DirNode(cl[1]))
    BY <1>6, <2>2, Zenon DEF new
  <2> QED
    BY <1>5, <1>7, <1>8, <2>4, <2>5, <2>6 DEF Tree!CreateDirectory
<1>12. CASE buf # <<>>
  <2>1. /\ cl \in SeqUpTo(Data, MaxFragments) /\ IsChain(fat', cl)
        /\ \A i \in DOMAIN cl : disk'[cl[i]].data = buf[i]
    BY <1>1, <1>3, <1>12, WriteNewEntry
  <2>2. DOMAIN cl = 1 .. Len(cl) /\ buf = [i \in 1 .. Len(cl) |-> buf[i]]
    BY <1>1, <1>12 DEF WriteFacts
  <2>3. Payload(cl)' = buf
    <3>1. Payload(cl)' = [i \in 1 .. Len(cl) |-> buf[i]]
      BY <2>1, <2>2 DEF Payload
    <3> QED
      BY <2>2, <3>1
  <2>4. ChainAt(fat', cl[1]) = cl
    BY <2>1, ChainAtIs
  <2>5. EntryAt(new)'.dir = FALSE
    BY <1>10, <1>12
  <2>6. NodeAt(new)' = [dir |-> FALSE, id |-> ROOT, data |-> Payload(cl)']
    BY <1>10, <2>4, <2>5 DEF NodeAt
  <2>7. NodeAt(new)' = Tree!FileNode(buf)
    BY <2>3, <2>6 DEF Tree!FileNode
  <2>8. TreeDirs' = TreeDirs
    BY <1>2, <1>3, <1>12, WriteDirectories DEF Calm
  <2>9. TreeNodes' = Tree!With(<<d, name>>, Tree!FileNode(buf))
    BY <1>6, <2>7, Zenon DEF new
  <2> QED
    BY <1>5, <1>7, <1>8, <1>12, <2>8, <2>9 DEF Tree!CreateFile
<1> QED
  BY <1>11, <1>12

----------------------------------------------------------------------------
(* Deleting. *)

\* What goes with a deletion, in the tree: a directory, or nothing but a name.
GoneDirs(e) == IF EntryAt(e).dir THEN {HeadOf(e)} ELSE {}

LEMMA EraseGone ==
    ASSUME Consistent, ~exhausted, NEW parent \in Parents, NEW s \in Slots,
           NEW ch, NEW gone, EraseFacts(parent, s, ch, gone)
    PROVE  \A c \in gone : disk[c].dir <=> c \in GoneDirs(<<parent, s>>)
<1> DEFINE e == <<parent, s>>
<1>1. /\ e \in Live /\ gone = Range(ch) /\ gone \subseteq Data
      /\ ch \in SeqUpTo(Data, MaxFragments)
      /\ IsChain(fat, ch) /\ ch[1] = HeadOf(e)
  BY DEF EraseFacts
<1> HIDE DEF e
<1>2. MaxFragments \in Nat
  BY SizesAssumption
<1>3. ChainShape(fat, ch)
  BY <1>1, <1>2, ChainFacts
<1>4. CASE EntryAt(e).dir
  <2>1. fat[HeadOf(e)] = EOF /\ disk[HeadOf(e)].dir
    BY <1>1, <1>4 DEF Consistent, EntriesLead
  <2>2. Len(ch) = 1
    <3>1. SUFFICES ASSUME Len(ch) # 1
                   PROVE  FALSE
      OBVIOUS
    <3>2. 1 \in 1 .. Len(ch) /\ 1 < Len(ch)
      <4>1. PICK n \in Nat \ {0} : n = Len(ch)
        BY <1>3 DEF ChainShape
      <4>2. n # 1 => 1 \in 1 .. n /\ 1 < n
        BY SMT
      <4> QED
        BY <3>1, <4>1, <4>2
    <3>3. PICK i : i = 1
      OBVIOUS
    <3>4. fat[ch[i]] = ch[i + 1] /\ i + 1 \in 1 .. Len(ch)
      BY <1>3, <3>2, <3>3 DEF ChainShape
    <3>5. ch[i + 1] \in Data
      BY <1>3, <3>4 DEF ChainShape
    <3> QED
      BY <1>1, <2>1, <3>3, <3>4, <3>5, Numbers
  <2>3. gone = {HeadOf(e)}
    BY <1>1, <1>3, <2>2 DEF ChainShape, Range
  <2> QED
    BY <1>4, <2>1, <2>3 DEF GoneDirs, e
<1>5. CASE ~EntryAt(e).dir
  <2>1. PICK w \in SeqUpTo(Data, MaxFragments) :
               /\ IsChain(fat, w) /\ w[1] = HeadOf(e)
               /\ \A i \in DOMAIN w : disk[w[i]].data \in Blocks
    BY <1>1, <1>5 DEF Consistent, EntriesLead
  <2>2. w = ch
    <3>1. ChainAt(fat, HeadOf(e)) = ch
      BY <1>1, ChainAtIs
    <3>2. ChainAt(fat, HeadOf(e)) = w
      BY <2>1, ChainAtIs
    <3> QED
      BY <3>1, <3>2
  <2>3. ASSUME NEW c \in gone
        PROVE  ~disk[c].dir
    <3>1. PICK i \in DOMAIN ch : c = ch[i]
      BY <1>1, <1>3 DEF Range
    <3>2. disk[c].data \in Blocks /\ c \in Data
      BY <1>1, <2>1, <2>2, <3>1
    <3> QED
      BY <3>2, NamesAssumption DEF Consistent, TablesPlain
  <2> QED
    BY <1>5, <2>3 DEF GoneDirs, e
<1> QED
  BY <1>4, <1>5

\* The entries that stay.
LEMMA EraseLive ==
    ASSUME Consistent, ~exhausted, NEW parent \in Parents, NEW s \in Slots,
           NEW ch, NEW gone, EraseFacts(parent, s, ch, gone)
    PROVE  /\ Live' = {e \in Live : /\ e # <<parent, s>>
                                    /\ e[1] \notin GoneDirs(<<parent, s>>)}
           /\ \A e \in Live' : EntryAt(e)' = EntryAt(e) /\ HeadOf(e)' = HeadOf(e)
           /\ TreeDirs' = TreeDirs \ GoneDirs(<<parent, s>>)
<1> DEFINE new == <<parent, s>>
<1>1. /\ \A d \in Parents, t \in Slots :
            IF d \in gone \/ <<d, t>> = <<parent, s>>
            THEN /\ ~disk'[d].slot[t].undelete
                 /\ disk'[d].slot[t].name = NoName
            ELSE disk'[d].slot[t] = disk[d].slot[t]
      /\ \A e \in Live' : /\ e \in Live /\ e # <<parent, s>>
                          /\ EntryAt(e)' = EntryAt(e)
                          /\ HeadOf(e)' = HeadOf(e)
  BY EraseEntries
<1>2. /\ \A c \in gone : c \in Data /\ disk'[c] = Blank
      /\ \A c \in Clusters : c \notin gone => disk'[c].dir = disk[c].dir
  BY DEF EraseFacts
<1>3. \A c \in gone : disk[c].dir <=> c \in GoneDirs(new)
  BY EraseGone
<1>4. GoneDirs(new) \subseteq gone
  <2>1. HeadOf(new) \in gone
    <3>1. ch[1] = HeadOf(new) /\ gone = Range(ch) /\ IsChain(fat, ch)
          /\ ch \in SeqUpTo(Data, MaxFragments)
      BY DEF EraseFacts
    <3>2. MaxFragments \in Nat
      BY SizesAssumption
    <3>3. ChainShape(fat, ch)
      BY <3>1, <3>2, ChainFacts
    <3>4. DOMAIN ch = 1 .. Len(ch) /\ Len(ch) \in Nat \ {0}
      BY <3>3, Zenon DEF ChainShape
    <3>5. 1 \in DOMAIN ch
      BY <3>4
    <3> QED
      BY <3>1, <3>5 DEF Range
  <2> QED
    BY <2>1 DEF GoneDirs
<1> HIDE DEF new
<1>5. ASSUME NEW e \in Live'
      PROVE  e \in Live /\ e # new /\ e[1] \notin GoneDirs(new)
  <2>1. e \in Live /\ e # new
    BY <1>1 DEF new
  <2>2. e[1] \in Parents /\ disk'[e[1]].dir
    BY DEF Live
  <2>3. e[1] \notin gone
    BY <1>2, <2>2, BlankType
  <2> QED
    BY <1>4, <2>1, <2>3
<1>6. ASSUME NEW e \in Live, e # new, e[1] \notin GoneDirs(new)
      PROVE  e \in Live'
  <2>1. PICK d \in Parents, t \in Slots :
               /\ e = <<d, t>> /\ disk[d].dir /\ disk[d].slot[t].undelete
    BY DEF Live
  <2>2. d \notin gone
    BY <1>3, <1>6, <2>1
  <2>3. disk'[d].slot[t] = disk[d].slot[t] /\ disk'[d].dir
    BY <1>1, <1>2, <1>6, <2>1, <2>2, Numbers DEF new
  <2> QED
    BY <2>1, <2>3 DEF Live
<1>7. Live' = {e \in Live : e # new /\ e[1] \notin GoneDirs(new)}
  BY <1>5, <1>6
<1>8. TreeDirs' = TreeDirs \ GoneDirs(new)
  <2>1. ASSUME NEW c \in Parents
        PROVE  disk'[c].dir <=> disk[c].dir /\ c \notin GoneDirs(new)
    <3>1. CASE c \in gone
      BY <1>2, <1>3, <3>1, BlankType
    <3>2. CASE c \notin gone
      BY <1>2, <1>4, <3>2, Numbers
    <3> QED
      BY <3>1, <3>2
  <2>2. ROOT \notin GoneDirs(new)
    BY <1>2, <1>4, SizesAssumption DEF Data, ROOT, FIRST_DATA
  <2> QED
    BY <2>1, <2>2 DEF TreeDirs, Directories
<1> QED
  BY <1>1, <1>7, <1>8 DEF new

LEMMA EraseKeepsNode ==
    ASSUME Consistent, ~exhausted, NEW parent \in Parents, NEW s \in Slots,
           NEW ch, NEW gone, EraseFacts(parent, s, ch, gone), NEW e \in Live'
    PROVE  KeyOf(e)' = KeyOf(e) /\ NodeAt(e)' = NodeAt(e)
<1>1. /\ e \in Live /\ e # <<parent, s>>
      /\ EntryAt(e)' = EntryAt(e) /\ HeadOf(e)' = HeadOf(e)
  BY EraseLive
<1>2. EntryAt(e).dir \in BOOLEAN
  BY <1>1, EntryTypes
<1>3. CASE EntryAt(e).dir
  BY <1>1, <1>2, <1>3 DEF NodeAt, KeyOf
<1>4. CASE ~EntryAt(e).dir
  <2>1. PICK w \in SeqUpTo(Data, MaxFragments) :
               IsChain(fat, w) /\ w[1] = HeadOf(e)
    BY <1>1, <1>4 DEF Consistent, EntriesLead
  <2>2. /\ IsChain(fat', w)
        /\ \A i \in DOMAIN w : disk'[w[i]].data = disk[w[i]].data
    BY <1>1, <2>1, EraseKeepsChain
  <2>3. /\ ChainAt(fat, HeadOf(e)) = w
        /\ ChainAt(fat', HeadOf(e)) = w
    BY <2>1, <2>2, ChainAtIs
  <2>4. Payload(w)' = Payload(w)
    BY <2>2 DEF Payload
  <2>5. EntryAt(e).dir = FALSE
    BY <1>2, <1>4
  <2>6. NodeAt(e) = [dir |-> FALSE, id |-> ROOT, data |-> Payload(w)]
    BY <2>3, <2>5 DEF NodeAt
  <2>7. NodeAt(e)' = [dir |-> FALSE, id |-> ROOT, data |-> Payload(w)']
    BY <1>1, <2>3, <2>5 DEF NodeAt
  <2> QED
    BY <1>1, <2>4, <2>6, <2>7, Zenon DEF KeyOf
<1> QED
  BY <1>3, <1>4

LEMMA TreeErase ==
    ASSUME Calm, exhausted' = exhausted, NEW d \in Parents, NEW name \in Names,
           NEW s \in FirstNamed(disk[d], name), mounted, disk[d].dir,
           EraseEntry(d, s)
    PROVE  Tree!DeleteNode(d, name)
<1> DEFINE e0 == <<d, s>>
           key == <<d, name>>
           kept == {k \in Tree!Keys : k # key /\ k[1] \notin GoneDirs(e0)}
<1>1. s \in Slots /\ disk[d].slot[s].name \in Names /\ ~exhausted
  BY FoundSlot DEF Calm
<1>2. PICK ch, gone : EraseFacts(d, s, ch, gone)
  BY <1>1, EraseEffects DEF Calm
<1>3. Lookup(d, name)
  BY TreeLookup DEF Calm
<1>4. /\ e0 \in Live /\ Tree!Has(d, name) /\ TreeNodes[key] = NodeAt(e0)
      /\ EntryAt(e0).name = name
  BY <1>3, FoundEntry DEF Lookup, Calm
<1>5. KeyOf(e0) = key
  BY <1>4 DEF KeyOf
<1>6. /\ Live' = {e \in Live : e # e0 /\ e[1] \notin GoneDirs(e0)}
      /\ TreeDirs' = TreeDirs \ GoneDirs(e0)
  BY <1>1, <1>2, EraseLive DEF Calm
<1>7. \A e \in Live' : KeyOf(e)' = KeyOf(e) /\ NodeAt(e)' = NodeAt(e)
  BY <1>1, <1>2, EraseKeepsNode DEF Calm
<1>8. GoneDirs(e0) = IF TreeNodes[key].dir THEN {TreeNodes[key].id} ELSE {}
  <2>0. TreeNodes[key] = NodeAt(e0)
    BY <1>4
  <2> HIDE DEF key, e0
  <2>1. TreeNodes[key].dir = EntryAt(e0).dir
    BY <2>0 DEF NodeAt
  <2>2. EntryAt(e0).dir => TreeNodes[key].id = HeadOf(e0)
    BY <2>0 DEF NodeAt
  <2> QED
    BY <2>1, <2>2 DEF GoneDirs
<1> HIDE DEF e0
<1>9. /\ DOMAIN TreeNodes = {KeyOf(e) : e \in Live}
      /\ \A e \in Live : TreeNodes[KeyOf(e)] = NodeAt(e)
      /\ \A e1, e2 \in Live : KeyOf(e1) = KeyOf(e2) => e1 = e2
  BY Zenon DEF Calm, Mapped
<1>10. ~exhausted'
  BY DEF Calm
<1>11. /\ TreeNodes' = [k \in {KeyOf(e)' : e \in Live'} |-> TreeNodes'[k]]
       /\ \A e \in Live' : TreeNodes'[KeyOf(e)'] = NodeAt(e)'
  BY <1>10, Zenon DEF Calm, Mapped
<1>12. {KeyOf(e)' : e \in Live'} = kept
  <2>1. ASSUME NEW e \in Live'
        PROVE  KeyOf(e)' \in kept
    <3>1. e \in Live /\ e # e0 /\ e[1] \notin GoneDirs(e0)
      BY <1>6
    <3>2. KeyOf(e)' = KeyOf(e) /\ KeyOf(e)[1] = e[1]
      BY <1>7 DEF KeyOf
    <3>3. KeyOf(e) # key
      BY <1>4, <1>5, <1>9, <3>1, Zenon
    <3>4. KeyOf(e) \in Tree!Keys
      BY <1>9, <3>1 DEF Tree!Keys
    <3> HIDE DEF key
    <3> QED
      BY <3>1, <3>2, <3>3, <3>4
  <2>2. ASSUME NEW k \in kept
        PROVE  \E e \in Live' : k = KeyOf(e)'
    <3>1. PICK e \in Live : k = KeyOf(e)
      BY <1>9 DEF Tree!Keys
    <3>2. e # e0
      BY <1>5, <3>1
    <3>3. e[1] \notin GoneDirs(e0)
      BY <3>1 DEF KeyOf
    <3>4. e \in Live'
      BY <1>6, <3>2, <3>3
    <3> QED
      BY <1>7, <3>1, <3>4
  <2> HIDE DEF kept
  <2> QED
    BY <2>1, <2>2
<1>13. ASSUME NEW k \in kept
       PROVE  TreeNodes'[k] = TreeNodes[k]
  <2>1. PICK e \in Live' : k = KeyOf(e)'
    BY <1>12
  <2>2. e \in Live
    BY <1>6
  <2>3. TreeNodes'[KeyOf(e)'] = NodeAt(e)'
    BY <1>11, <2>1
  <2> QED
    BY <1>7, <1>9, <2>1, <2>2, <2>3, Zenon
<1>14. TreeNodes' = Tree!Only(kept)
  <2> HIDE DEF kept
  <2> QED
    BY <1>11, <1>12, <1>13 DEF Tree!Only
<1>15. Tree!Answer("delete", 0, <<>>)
  BY TreeAnswer DEF EraseEntry
<1> QED
  BY <1>4, <1>6, <1>8, <1>14, <1>15, Zenon DEF Tree!DeleteNode

----------------------------------------------------------------------------
(* Starting and stopping. *)

LEMMA TreeEmpty ==
    ASSUME Consistent, ~exhausted, ~signature
    PROVE  TreeDirs = {ROOT} /\ Live = {}
<1>1. \A c \in Clusters : disk[c] = Blank
  BY DEF Consistent, Fresh
<1>2. \A c \in Parents : ~disk[c].dir
  BY <1>1, BlankType, Numbers
<1> QED
  BY <1>2 DEF TreeDirs, Directories, Live

LEMMA NoNodes ==
    ASSUME Mapped, ~exhausted, Live = {}
    PROVE  TreeNodes = [k \in {} |-> Tree!DirNode(ROOT)]
<1>1. TreeNodes = [k \in {KeyOf(e) : e \in Live} |-> TreeNodes[k]]
  BY Zenon DEF Mapped
<1>2. {KeyOf(e) : e \in Live} = {}
  OBVIOUS
<1> QED
  BY <1>1, <1>2

LEMMA TreeInit == Init => Tree!Init
<1> SUFFICES ASSUME Init
             PROVE  Tree!Init
  OBVIOUS
<1>1. Consistent /\ Mapped
  BY ConsistentInit, Mapping
<1>2. ~exhausted /\ ~signature /\ exhausted = FALSE
  BY DEF Init
<1>3. TreeDirs = {ROOT} /\ TreeNodes = [k \in {} |-> Tree!DirNode(ROOT)]
  BY <1>1, <1>2, TreeEmpty, NoNodes
<1>4. TreeReply = [op |-> "none", code |-> 0, data |-> <<>>]
  BY DEF Init, TreeReply, NoReply, Reply
<1> QED
  BY <1>2, <1>3, <1>4 DEF Tree!Init

\* What FileTree sees.
treeVars == <<TreeDirs, TreeNodes, TreeReply, exhausted>>

\* Formatting a disk that was never used changes nothing that it sees.
LEMMA TreeFormat ==
    ASSUME Calm, Consistent', Format
    PROVE  UNCHANGED treeVars
<1>1. TreeDirs = {ROOT} /\ Live = {}
  BY TreeEmpty DEF Calm, Format
<1>2. exhausted' = exhausted /\ TreeReply' = TreeReply /\ ~exhausted
  BY DEF Format, TreeReply, Calm
<1>3. /\ disk' = [disk EXCEPT ![ROOT] = DirTable(NoName, ROOT)]
      /\ disk \in [Clusters -> Content]
      /\ \A c \in Clusters : disk[c] = Blank
      /\ ROOT \in Clusters
  BY Numbers DEF Calm, Consistent, Fresh, Format, TypeOK
<1>4. DirTable(NoName, ROOT).slot = Blank.slot
  BY <1>3, TableType
<1>5. \A c \in Parents : c # ROOT => ~disk'[c].dir
  BY <1>3, BlankType, Numbers
<1>6. \A s \in Slots : ~disk'[ROOT].slot[s].undelete
  <2>1. disk'[ROOT] = DirTable(NoName, ROOT)
    BY <1>3
  <2>2. disk'[ROOT].slot = Blank.slot
    BY <1>4, <2>1
  <2> QED
    BY <2>2, BlankType DEF FreeEntry
<1>7. Live' = {} /\ TreeDirs' = {ROOT}
  BY <1>5, <1>6, MoreNumbers DEF Live, TreeDirs, Directories
<1>8. TreeNodes = [k \in {} |-> Tree!DirNode(ROOT)]
  BY <1>1, <1>2, NoNodes DEF Calm
<1>9. TreeNodes' = [k \in {} |-> Tree!DirNode(ROOT)]
  <2>1. TreeNodes' = [k \in {KeyOf(e)' : e \in Live'} |-> TreeNodes'[k]]
    BY <1>2, Zenon DEF Calm, Mapped
  <2>2. {KeyOf(e)' : e \in Live'} = {}
    BY <1>7
  <2> QED
    BY <2>1, <2>2
<1> QED
  BY <1>1, <1>2, <1>7, <1>8, <1>9 DEF treeVars

----------------------------------------------------------------------------
(* Every step of the driver. *)

LEMMA TreePower ==
    ASSUME Calm, Consistent', Power
    PROVE  Tree!Restart \/ UNCHANGED treeVars
<1>1. CASE Format
  BY <1>1, TreeFormat
<1>2. ASSUME Load \/ PowerOff
      PROVE  TreeDirs' = TreeDirs /\ TreeNodes' = TreeNodes
  BY <1>2, TreeQuiet DEF Calm, Load, PowerOff
<1>3. CASE Load
  BY <1>2, <1>3 DEF Load, treeVars, TreeReply
<1>4. CASE PowerOff
  <2>1. reply' = Reply("none", 0, <<>>) /\ exhausted' = exhausted
    BY <1>4 DEF PowerOff, NoReply
  <2>2. Tree!Answer("none", 0, <<>>)
    BY <2>1, TreeAnswer
  <2> QED
    BY <1>2, <1>4, <2>1, <2>2 DEF Tree!Restart
<1> QED
  BY <1>1, <1>3, <1>4 DEF Power

LEMMA TreeWrite ==
    ASSUME Calm, Consistent', Write
    PROVE  Tree!Next
<1>1. PICK d \in Parents, name \in Names, buf \in Buffers :
               \/ WriteInvalidParent(d)
               \/ WriteAlreadyExists(d, name)
               \/ WriteNoRoom(d, name, buf)
               \/ WriteEntry(d, name, buf)
  BY DEF Write
<1>2. CASE ~WriteEntry(d, name, buf)
  <2>1. Tree!WriteRefused(d, name)
    BY <1>1, <1>2, TreeWriteRefused
  <2> QED
    BY <2>1 DEF Tree!Next
<1>3. CASE WriteEntry(d, name, buf) /\ ~exhausted'
  <2>1. Tree!CreateFile(d, name, buf) \/ Tree!CreateDirectory(d, name)
    BY <1>3, TreeCreate
  <2> QED
    BY <2>1 DEF Tree!Next
<1>4. CASE WriteEntry(d, name, buf) /\ exhausted'
  <2>1. Tree!Answer("write", 0, <<>>)
    BY <1>4, TreeAnswer DEF WriteEntry
  <2>2. exhausted' = TRUE
    BY <1>4 DEF Consistent, TypeOK
  <2> QED
    BY <2>1, <2>2 DEF Tree!Next, Tree!LoseWrite
<1> QED
  BY <1>1, <1>2, <1>3, <1>4

LEMMA TreeDelete ==
    ASSUME Calm, Delete
    PROVE  Tree!Next
<1>1. PICK d \in Parents, name \in Names :
               \/ DeleteInvalidParent(d)
               \/ DeleteNotFound(d, name)
               \/ DeleteFound(d, name)
  BY DEF Delete
<1>2. CASE DeleteInvalidParent(d) \/ DeleteNotFound(d, name)
  <2>1. Tree!DeleteRefused(d, name)
    BY <1>2, TreeDeleteRefused
  <2> QED
    BY <2>1 DEF Tree!Next
<1>3. CASE DeleteFound(d, name)
  <2>1. mounted /\ disk[d].dir
    BY <1>3 DEF DeleteFound, Calling
  <2>2. PICK s \in FirstNamed(disk[d], name) :
               IF RefusesDelete(disk[d].slot[s])
               THEN AnswerOnly("delete", 2, <<>>)
               ELSE EraseEntry(d, s)
    BY <1>3 DEF DeleteFound
  <2>3. s \in Slots
    BY DEF FirstNamed
  <2>4. ~RefusesDelete(disk[d].slot[s])
    BY <2>3 DEF Calm, Rooted, RefusesDelete
  <2>5. EraseEntry(d, s) /\ exhausted' = exhausted
    BY <2>2, <2>4 DEF EraseEntry
  <2>6. Tree!DeleteNode(d, name)
    BY <2>1, <2>5, TreeErase
  <2> QED
    BY <2>6 DEF Tree!Next
<1> QED
  BY <1>1, <1>2, <1>3

LEMMA TreeRead ==
    ASSUME Calm, Read \/ ReadEmptyName
    PROVE  Tree!Next
<1>1. CASE Read
  <2>1. PICK d \in Parents, name \in Names, size \in 1 .. MaxFragments :
               \/ ReadInvalidParent(d)
               \/ ReadNotFound(d, name)
               \/ ReadNotAFile(d, name)
               \/ ReadNotEnoughBuffer(d, name, size)
               \/ ReadFile(d, name, size)
    BY <1>1 DEF Read
  <2>2. Tree!Read(d, name, size)
    BY <2>1, TreeReadFile, TreeReadShort, TreeReadOther
  <2> QED
    BY <2>2 DEF Tree!Next
<1>2. CASE ReadEmptyName
  <2>1. Tree!ReadEmptyName
    BY <1>2, TreeEmptyName DEF ReadEmptyName
  <2> QED
    BY <2>1 DEF Tree!Next
<1> QED
  BY <1>1, <1>2

LEMMA TreeBrowse ==
    ASSUME Calm, Listed, IndexFits, Browse
    PROVE  Tree!Next
<1>1. ASSUME NEW d \in Parents, NEW name \in Names, ReadDirectory(d, name)
      PROVE  Tree!Next
  <2>1. Tree!ReadDirectory(d, name)
    BY <1>1, TreeReadDirectory
  <2> QED
    BY <2>1 DEF Tree!Next
<1>2. ASSUME NEW d \in Directories, NEW name \in DirNames, MoveToChild(d, name)
      PROVE  Tree!Next
  <2>1. Tree!Child(d, name)
    BY <1>2, NamesAssumption, TreeChild
  <2> QED
    BY <2>1 DEF Tree!Next, TreeDirs
<1>3. ASSUME NEW d \in Directories,
             MoveToParent(d) \/ GetChildren(d) \/ GetDirPath(d)
      PROVE  Tree!Next
  <2>1. Tree!Parent(d) \/ Tree!Children(d) \/ Tree!Path(d)
    BY <1>3, TreeParent, TreeChildren, TreePath
  <2> QED
    BY <2>1 DEF Tree!Next, TreeDirs
<1>4. ASSUME NEW name \in Names, SearchIndex(name)
      PROVE  Tree!Next
  <2>1. Tree!Search(name)
    BY <1>4, TreeSearch
  <2> QED
    BY <2>1 DEF Tree!Next
<1> QED
  BY <1>1, <1>2, <1>3, <1>4 DEF Browse

\* Without Calling there are only starts and stops.
LEMMA OnlyCalling ==
    ASSUME Write \/ Delete \/ Read \/ ReadEmptyName \/ Browse
    PROVE  Calling
BY DEF Write, Delete, Read, ReadEmptyName, Browse, WriteInvalidParent,
   WriteAlreadyExists, WriteNoRoom, WriteEntry, DeleteInvalidParent,
   DeleteNotFound, DeleteFound, ReadInvalidParent, ReadNotFound, ReadNotAFile,
   ReadNotEnoughBuffer, ReadFile, ReadDirectory, MoveToChild, MoveToParent,
   GetChildren, GetDirPath, SearchIndex

LEMMA TreeStep ==
    Consistent /\ Consistent' /\ Mapped /\ Mapped' /\ Rooted /\ Catalogued
        /\ [Next]_vars
    => [Tree!Next]_treeVars
<1> SUFFICES ASSUME Consistent, Consistent', Mapped, Mapped', Rooted, Catalogued,
                    [Next]_vars
             PROVE  Tree!Next \/ UNCHANGED treeVars
  OBVIOUS
<1>1. CASE exhausted
  <2>1. ~Calling
    BY <1>1 DEF Calling
  <2>2. Power \/ UNCHANGED vars
    BY <2>1, OnlyCalling DEF Next
  <2>3. exhausted' = exhausted
    BY <2>2 DEF Power, Format, Load, PowerOff, vars
  <2> QED
    BY <1>1, <2>3 DEF Tree!Next, Tree!Broken
<1>2. CASE ~exhausted
  <2>1. Calm /\ Listed /\ IndexFits
    BY <1>2 DEF Calm, Catalogued
  <2>2. CASE Power
    <3>1. Tree!Restart \/ UNCHANGED treeVars
      BY <2>1, <2>2, TreePower
    <3> QED
      BY <3>1 DEF Tree!Next
  <2>3. CASE UNCHANGED vars
    <3>1. TreeDirs' = TreeDirs /\ TreeNodes' = TreeNodes
      BY <1>2, <2>3, TreeQuiet DEF vars
    <3> QED
      BY <2>3, <3>1 DEF vars, treeVars, TreeReply
  <2> QED
    BY <2>1, <2>2, <2>3, TreeWrite, TreeDelete, TreeRead, TreeBrowse DEF Next
<1> QED
  BY <1>1, <1>2

----------------------------------------------------------------------------
(* The theorem. *)

LEMMA CataloguedTree == Spec /\ []Catalogued => TreeSpec
<1>1. Tree!Spec <=> Tree!Init /\ [][Tree!Next]_treeVars
  BY DEF Tree!Spec, treeVars
<1>2. Spec => []Consistent
  BY DiskStaysConsistent
<1>3. Spec => []Rooted
  BY <1>2, RootedInit, NextRooted, PTL DEF Spec
<1> QED
  BY <1>1, <1>2, <1>3, TreeInit, Mapping, TreeStep, PTL DEF Spec, TreeSpec

\* As long as the records of the index fit in its clusters, every behaviour of
\* the driver, restarts included, is one that FileTree allows: what a name
\* stands for changes by the calls that say so and no other, and every answer
\* follows from the tree.
THEOREM DriverImplementsTree == Spec /\ []IndexRoom => TreeSpec
<1>1. Spec /\ []IndexRoom => []Listed
  BY DiskStaysConsistent, ListedInit, NextListed, PTL DEF Spec
<1>2. Listed /\ IndexFits => Catalogued
  BY DEF Catalogued
<1> QED
  BY <1>1, <1>2, CountStaysDown, CataloguedTree, PTL

\* The same as long as there are no more files and directories than the index
\* stores records: how they came and went does not matter.
THEOREM FewFilesMakeTree == Spec /\ []FewFiles => TreeSpec
BY StaysCatalogued, CataloguedTree, PTL

=============================================================================

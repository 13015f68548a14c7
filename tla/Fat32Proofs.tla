---------------------------- MODULE Fat32Proofs ----------------------------
(***************************************************************************)
(* Theorems about Fat32, for every size of the disk, of its tables and of  *)
(* its index, and every set of names and payloads: its variables keep      *)
(* their types, no two files ever share a cluster, and every entry leads   *)
(* to what was written: the invariant Consistent of Fat32 is inductive.    *)
(***************************************************************************)
EXTENDS Fat32, FiniteSetTheorems, SequenceTheorems, TLAPS

----------------------------------------------------------------------------
(* Constants and small facts. *)

\* The cluster numbers the driver uses are clusters of the disk.
LEMMA Numbers ==
    /\ Parents \subseteq Clusters
    /\ Data \subseteq Clusters
    /\ Data \subseteq Parents
    /\ Clusters \subseteq Nat
    /\ {0, 1, FAT_CLUSTER, ROOT, INDEX, 4, 5} \subseteq Clusters
    /\ INDEX \notin Data /\ ROOT \notin Data /\ EMPTY \notin Data
    /\ EOF \notin Data /\ NOCLUSTER \notin Data
    /\ EMPTY # EOF /\ EMPTY # NOCLUSTER
BY SizesAssumption DEF Parents, Data, Clusters, FIRST_DATA, CLUSTER_0,
   FAT_CLUSTER, ROOT, INDEX, SUGAR_PARENT, EMPTY, EOF, NOCLUSTER

LEMMA BlankType ==
    /\ FreeEntry \in Entry
    /\ Blank \in Content
    /\ Blank.dir = FALSE
    /\ Blank.data = NoBlock
    /\ \A s \in Slots : Blank.slot[s] = FreeEntry
<1>1. 0 \in Clusters
  BY Numbers
<1>2. FreeEntry \in Entry
  BY <1>1 DEF FreeEntry, Entry
<1> QED
  BY <1>1, <1>2 DEF Blank, Content

LEMMA TableType ==
    ASSUME NEW name \in Names \cup {NoName}, NEW up \in Clusters
    PROVE  /\ DirTable(name, up) \in Content
           /\ DirTable(name, up).dir = TRUE
           /\ DirTable(name, up).up = up
           /\ DirTable(name, up).name = name
           /\ DirTable(name, up).data = NoBlock
           /\ DirTable(name, up).slot = Blank.slot
BY BlankType DEF DirTable, Blank, Content

LEMMA FileType ==
    ASSUME NEW block \in Blocks
    PROVE  /\ FileBlock(block) \in Content
           /\ FileBlock(block).dir = FALSE
           /\ FileBlock(block).data = block
           /\ FileBlock(block).slot = Blank.slot
BY BlankType DEF FileBlock, Blank, Content

\* Every nonempty set of natural numbers has a least element: the induction
\* the proofs about chains rest on.
LEMMA LeastNumber ==
    ASSUME NEW T \in SUBSET Nat, T # {}
    PROVE  \E n \in T : \A m \in T : n <= m
<1> DEFINE Order  == StrictSubsetOrdering(Nat)
           UpToOf == {0 .. n : n \in T}
<1>1. IsWellFoundedOn(Order, FiniteSubsetsOf(Nat))
  BY FS_StrictSubsetOrderingWellFounded
<1>2. UpToOf \subseteq FiniteSubsetsOf(Nat)
  <2>1. ASSUME NEW n \in T
        PROVE  0 .. n \in FiniteSubsetsOf(Nat)
    <3>1. IsFiniteSet(0 .. n)
      BY FS_Interval
    <3> QED
      BY <3>1 DEF FiniteSubsetsOf
  <2> QED
    BY <2>1
<1>3. UpToOf # {}
  OBVIOUS
<1> HIDE DEF Order, UpToOf
<1>4. PICK w \in UpToOf : \A v \in UpToOf : <<v, w>> \notin Order
  BY <1>1, <1>2, <1>3, WFMin
<1>5. PICK n \in T : w = 0 .. n
  BY DEF UpToOf
<1>6. ASSUME NEW m \in T, m < n
      PROVE  FALSE
  <2>1. <<0 .. m, 0 .. n>> \notin Order
    BY <1>4, <1>5 DEF UpToOf
  <2>2. ~(0 .. m \subseteq 0 .. n /\ 0 .. m # 0 .. n)
    BY <2>1 DEF Order, StrictSubsetOrdering
  <2>3. n \in 0 .. n /\ n \notin 0 .. m
    BY <1>6
  <2> QED
    BY <1>6, <2>2, <2>3
<1> QED
  BY <1>6

----------------------------------------------------------------------------
(* Types. *)

\* A call that only answers keeps the types.
LEMMA AnswerType ==
    ASSUME TypeOK, NEW op, NEW code, NEW data,
           AnswerOnly(op, code, data) \/ AnswerCached(op, code, data)
    PROVE  TypeOK'
BY DEF TypeOK, AnswerOnly, AnswerCached, Reply

\* The buffer of an index call, and what it stores of it.
LEMMA IndexType ==
    ASSUME TypeOK, NEW junk \in Garbage
    PROVE  Loaded(junk) \in Seq(Record \cup {NoRecord})
<1>1. junk \in Record \cup {NoRecord}
  BY DEF Garbage
<1>2. fat[INDEX] \in Nat \cup {-1}
  BY Numbers DEF TypeOK, Links, NOCLUSTER
<1>3. CASE fat[INDEX] \in Nat
  BY <1>1, <1>3, SMT DEF Loaded, TypeOK
<1>4. CASE fat[INDEX] = -1
  <2>1. 1 .. fat[INDEX] = 1 .. 0
    BY <1>4
  <2>2. Loaded(junk) = [i \in 1 .. 0 |-> IF i <= Len(index) THEN index[i]
                                                            ELSE junk]
    BY <2>1 DEF Loaded
  <2> QED
    BY <2>2
<1> QED
  BY <1>2, <1>3, <1>4

LEMMA StoredType ==
    ASSUME NEW S, NEW table \in Seq(S)
    PROVE  Stored(table) \in Seq(S)
BY SizesAssumption, SubSeqProperties DEF Stored

LEMMA WithoutType ==
    ASSUME NEW S, NEW table \in Seq(S), NEW i \in DOMAIN table
    PROVE  Without(table, i) \in Seq(S)
BY DEF Without

LEMMA TypeInit == Init => TypeOK
<1> SUFFICES ASSUME Init
             PROVE  TypeOK
  OBVIOUS
<1>1. /\ signature \in BOOLEAN /\ mounted \in BOOLEAN /\ exhausted \in BOOLEAN
      /\ fat = ZeroTable /\ fat_table = ZeroTable /\ reply = NoReply
  BY DEF Init
<1>2. ZeroTable \in [Clusters -> Links]
  BY Numbers DEF ZeroTable, Links, EMPTY
<1>3. disk \in [Clusters -> Content]
  BY BlankType DEF Init
<1>4. index \in Seq(Record \cup {NoRecord})
  BY EmptySeq DEF Init
<1>5. DOMAIN reply = {"op", "code", "data"}
  BY <1>1 DEF NoReply, Reply
<1> QED
  BY <1>1, <1>2, <1>3, <1>4, <1>5 DEF TypeOK

LEMMA FormatType == TypeOK /\ Format => TypeOK'
<1> SUFFICES ASSUME TypeOK, Format
             PROVE  TypeOK'
  OBVIOUS
<1>1. FormattedTable \in [Clusters -> Links]
  BY DEF FormattedTable, Links, CLUSTER_0, EOF, EMPTY
<1>2. disk' \in [Clusters -> Content]
  BY TableType, Numbers DEF Format, TypeOK
<1> QED
  BY <1>1, <1>2 DEF Format, TypeOK

LEMMA LoadType == TypeOK /\ Load => TypeOK'
BY DEF TypeOK, Load

LEMMA PowerOffType == TypeOK /\ PowerOff => TypeOK'
<1>1. ZeroTable \in [Clusters -> Links]
  BY DEF ZeroTable, Links, EMPTY
<1> QED
  BY <1>1 DEF TypeOK, PowerOff, NoReply, Reply

\* What a write puts on the disk, in the FAT and in the index.
LEMMA WriteEntryType ==
    ASSUME TypeOK, NEW parent \in Parents, NEW name \in Names,
           NEW buf \in Buffers, WriteEntry(parent, name, buf)
    PROVE  TypeOK'
<1>1. PICK s \in FirstFree(disk[parent]), junk \in Garbage,
           cl \in [1 .. ClustersFor(buf) -> Data \cup {NOCLUSTER}] :
             /\ disk' = Written(parent, s, name, buf, cl)
             /\ fat' = [Linked(fat, cl) EXCEPT ![INDEX] = fat[INDEX] + 1]
             /\ fat_table' = fat'
             /\ exhausted' = \E i \in DOMAIN cl : cl[i] = NOCLUSTER
             /\ InsertIndex(name, parent, junk)
  BY DEF WriteEntry
<1>2. /\ buf \in Seq(Blocks) /\ ClustersFor(buf) \in Nat \ {0}
      /\ buf # <<>> => ClustersFor(buf) = Len(buf)
  BY BuffersAssumption DEF ClustersFor
<1>3. \A c : (\E i \in DOMAIN cl : cl[i] = c) =>
                /\ PositionIn(cl, c) \in 1 .. ClustersFor(buf)
                /\ cl[PositionIn(cl, c)] = c
  BY DEF PositionIn
<1>4. Len(cl) = ClustersFor(buf)
  BY <1>2
<1>5. disk' \in [Clusters -> Content]
  <2>1. s \in Slots
    BY DEF FirstFree
  <2>2. cl[1] \in Clusters \cup {NOCLUSTER}
    <3>1. 1 \in 1 .. ClustersFor(buf)
      BY <1>2
    <3>2. cl[1] \in Data \cup {NOCLUSTER}
      BY <3>1
    <3> QED
      BY <3>2, Numbers
  <2>3. WithEntry(disk[parent], s, name, buf = <<>>, cl[1]) \in Content
    <3>1. disk[parent] \in Content
      BY Numbers DEF TypeOK
    <3>2. [name |-> name, dir |-> buf = <<>>, notempty |-> FALSE,
           undelete |-> TRUE, cl |-> cl[1]] \in Entry
      BY <2>2 DEF Entry
    <3> QED
      BY <2>1, <3>1, <3>2 DEF WithEntry, Content
  <2>4. DirTable(name, parent) \in Content
    BY TableType, Numbers
  <2>5. \A c : buf # <<>> /\ (\E i \in DOMAIN cl : cl[i] = c)
                => FileBlock(buf[PositionIn(cl, c)]) \in Content
    <3>1. ASSUME NEW c, buf # <<>>, \E i \in DOMAIN cl : cl[i] = c
          PROVE  buf[PositionIn(cl, c)] \in Blocks
      <4>1. PositionIn(cl, c) \in 1 .. Len(buf)
        BY <1>2, <1>3, <3>1
      <4> QED
        BY <1>2, <4>1
    <3> QED
      BY <3>1, FileType
  <2> QED
    BY <1>1, <2>3, <2>4, <2>5 DEF Written, TypeOK
<1>6. fat' \in [Clusters -> Links]
  <2>1. Linked(fat, cl) \in [Clusters -> Links]
    <3>1. ASSUME NEW c \in Clusters, \E i \in DOMAIN cl : cl[i] = c,
                 PositionIn(cl, c) < Len(cl)
          PROVE  cl[PositionIn(cl, c) + 1] \in Links
      <4>1. cl[PositionIn(cl, c) + 1] \in Data \cup {NOCLUSTER}
        BY <1>2, <1>3, <1>4, <3>1
      <4> QED
        BY <4>1, Numbers DEF Links
    <3>2. EOF \in Links
      BY DEF EOF, Links
    <3> QED
      BY <3>1, <3>2 DEF Linked, TypeOK
  <2>2. fat[INDEX] + 1 \in Links
    <3>1. fat[INDEX] \in Nat \cup {-1}
      BY Numbers DEF TypeOK, Links, NOCLUSTER
    <3> QED
      BY <3>1 DEF Links
  <2> QED
    BY <1>1, <2>1, <2>2
<1>7. index' \in Seq(Record \cup {NoRecord})
  <2>1. <<name, parent>> \in Record \cup {NoRecord}
    BY DEF Record
  <2>2. Append(Loaded(junk), <<name, parent>>) \in Seq(Record \cup {NoRecord})
    BY <2>1, IndexType, AppendProperties
  <2> QED
    BY <1>1, <2>2, StoredType DEF InsertIndex
<1>8. exhausted' \in BOOLEAN
  BY <1>1
<1> QED
  BY <1>1, <1>5, <1>6, <1>7, <1>8 DEF WriteEntry, TypeOK, Reply

LEMMA EraseEntryType ==
    ASSUME TypeOK, NEW parent \in Parents, NEW s \in Slots,
           EraseEntry(parent, s)
    PROVE  TypeOK'
<1>1. PICK junk \in Garbage, ch \in SeqUpTo(Data, MaxFragments),
           count \in {fat[INDEX] - 1, fat[INDEX]} :
             /\ DeleteIndex(disk[parent].slot[s].name, parent, junk, count)
             /\ disk' = Erased(parent, s, Range(ch))
             /\ fat' = [Freed(fat, Range(ch)) EXCEPT ![INDEX] = count]
             /\ fat_table' = fat'
  BY DEF EraseEntry
<1> DEFINE record == <<disk[parent].slot[s].name, parent>>
<1>2. disk' \in [Clusters -> Content]
  <2>1. disk[parent] \in Content /\ disk[parent].slot[s] \in Entry
    BY Numbers DEF TypeOK, Content
  <2>2. Reset(disk[parent].slot[s]) \in Entry
    BY <2>1, BlankType DEF Reset, Entry
  <2>3. [disk[parent] EXCEPT !.slot[s] = Reset(@)] \in Content
    BY <2>1, <2>2 DEF Content
  <2> QED
    BY <1>1, <2>3, BlankType DEF Erased, TypeOK
<1>3. /\ index' \in Seq(Record \cup {NoRecord})
      /\ count \in Links
  <2>1. CASE FirstRecord(Loaded(junk), record) = {} /\ index' = index
             /\ count = fat[INDEX]
    BY <2>1, Numbers DEF TypeOK
  <2>2. CASE \E i \in FirstRecord(Loaded(junk), record) :
               /\ index' = Stored(Without(Loaded(junk), i))
               /\ count = fat[INDEX] - 1
    <3>1. PICK i \in DOMAIN Loaded(junk) :
                 index' = Stored(Without(Loaded(junk), i))
      BY <2>2 DEF FirstRecord
    <3>2. index' \in Seq(Record \cup {NoRecord})
      BY <3>1, IndexType, WithoutType, StoredType
    <3>3. i \in 1 .. fat[INDEX]
      BY <3>1 DEF Loaded
    <3>4. fat[INDEX] \in Nat \cup {-1}
      BY Numbers DEF TypeOK, Links, NOCLUSTER
    <3>5. fat[INDEX] - 1 \in Nat
      BY <3>3, <3>4
    <3> QED
      BY <2>2, <3>2, <3>5 DEF Links
  <2> QED
    BY <1>1, <2>1, <2>2 DEF DeleteIndex
<1>4. fat' \in [Clusters -> Links]
  BY <1>1, <1>3 DEF Freed, TypeOK, Links, EMPTY
<1> QED
  BY <1>1, <1>2, <1>3, <1>4 DEF EraseEntry, TypeOK, Reply

LEMMA FoundSlot ==
    ASSUME NEW table, NEW name, NEW s \in FirstNamed(table, name)
    PROVE  s \in Slots /\ table.slot[s].name = name
BY DEF FirstNamed

\* The calls that refuse, or only look.
LEMMA LookType ==
    TypeOK /\ (Read \/ ReadEmptyName \/ Browse) => TypeOK'
<1> SUFFICES ASSUME TypeOK, Read \/ ReadEmptyName \/ Browse
             PROVE  TypeOK'
  OBVIOUS
<1>1. CASE Read
  BY <1>1, AnswerType DEF Read, ReadInvalidParent, ReadNotFound, ReadNotAFile,
     ReadNotEnoughBuffer, ReadFile
<1>2. CASE ReadEmptyName
  BY <1>2, AnswerType DEF ReadEmptyName, ReadNotFound, ReadNotEnoughBuffer
<1>3. CASE Browse
  BY <1>3, AnswerType DEF Browse, ReadDirectory, MoveToChild, MoveToParent,
     GetChildren, GetDirPath, SearchIndex
<1> QED
  BY <1>1, <1>2, <1>3

LEMMA NextType == TypeOK /\ [Next]_vars => TypeOK'
<1> SUFFICES ASSUME TypeOK, [Next]_vars
             PROVE  TypeOK'
  OBVIOUS
<1>1. CASE Power
  BY <1>1, FormatType, LoadType, PowerOffType DEF Power
<1>2. CASE Write
  BY <1>2, AnswerType, WriteEntryType DEF Write, WriteInvalidParent,
     WriteAlreadyExists, WriteNoRoom
<1>3. CASE Delete
  <2>1. PICK parent \in Parents, name \in Names :
               \/ DeleteInvalidParent(parent)
               \/ DeleteNotFound(parent, name)
               \/ DeleteFound(parent, name)
    BY <1>3 DEF Delete
  <2>2. CASE DeleteInvalidParent(parent) \/ DeleteNotFound(parent, name)
    BY <2>2, AnswerType DEF DeleteInvalidParent, DeleteNotFound
  <2>3. CASE DeleteFound(parent, name)
    BY <2>3, AnswerType, EraseEntryType, FoundSlot DEF DeleteFound
  <2> QED
    BY <2>1, <2>2, <2>3
<1>4. CASE Read \/ ReadEmptyName \/ Browse
  BY <1>4, LookType
<1>5. CASE UNCHANGED vars
  BY <1>5 DEF vars, TypeOK
<1> QED
  BY <1>1, <1>2, <1>3, <1>4, <1>5 DEF Next

\* Whatever the calls and the restarts, every variable of the driver and every
\* cluster of the disk keeps its type: a directory table stays a table of
\* entries, the FAT keeps clusters, the index keeps records.
THEOREM TypeCorrect == Spec => []TypeOK
BY TypeInit, NextType, PTL DEF Spec

----------------------------------------------------------------------------
(* Chains. *)

\* The hypotheses on a FAT that the lemmas about chains share: no two
\* clusters link to the same one.
Injective(f) ==
    \A c1, c2 \in Data : f[c1] = f[c2] /\ f[c1] \in Data => c1 = c2

NoLinkTo(f, h) == \A c \in Data : f[c] # h

ChainShape(f, ch) ==
    /\ Len(ch) \in Nat \ {0}
    /\ DOMAIN ch = 1 .. Len(ch)
    /\ \A i \in 1 .. Len(ch) :
         /\ ch[i] \in Data
         /\ f[ch[i]] # EMPTY
         /\ i < Len(ch) => f[ch[i]] = ch[i + 1] /\ i + 1 \in 1 .. Len(ch)
         /\ i = Len(ch) => f[ch[i]] = EOF
         /\ i > 1 => i - 1 \in 1 .. Len(ch) /\ f[ch[i - 1]] = ch[i]

\* A chain is a nonempty sequence of data clusters, none of which is free.
LEMMA ChainFacts ==
    ASSUME NEW f, NEW max, NEW ch \in SeqUpTo(Data, max), max \in Nat,
           IsChain(f, ch)
    PROVE  ChainShape(f, ch)
<1>1. PICK k \in 0 .. max : ch \in [1 .. k -> Data]
  BY DEF SeqUpTo
<1>2. Len(ch) = k /\ DOMAIN ch = 1 .. k /\ k \in Nat
  BY <1>1
<1>3. k # 0
  <2>1. SUFFICES ASSUME k = 0
                 PROVE  FALSE
    OBVIOUS
  <2>2. ch \in [{} -> Data]
    BY <1>1, <2>1
  <2>3. ch = <<>>
    BY <2>2
  <2> QED
    BY <2>3 DEF IsChain
<1>4. ASSUME NEW i \in 1 .. k
      PROVE  f[ch[i]] = IF i < k THEN ch[i + 1] ELSE EOF
  BY <1>2 DEF IsChain
<1>5. ASSUME NEW i \in 1 .. k
      PROVE  f[ch[i]] # EMPTY
  <2>1. CASE i < k
    <3>1. i + 1 \in 1 .. k
      BY <1>2, <2>1
    <3>2. ch[i + 1] \in Data
      BY <1>1, <3>1
    <3> QED
      BY <1>4, <2>1, <3>2, Numbers
  <2>2. CASE ~(i < k)
    BY <1>4, <2>2, Numbers
  <2> QED
    BY <2>1, <2>2
<1>6. ASSUME NEW i \in 1 .. k, i > 1
      PROVE  i - 1 \in 1 .. k /\ f[ch[i - 1]] = ch[i]
  <2>1. i - 1 \in 1 .. k /\ i - 1 < k /\ (i - 1) + 1 = i
    BY <1>2, <1>6
  <2> QED
    BY <1>4, <2>1
<1> QED
  BY <1>1, <1>2, <1>3, <1>4, <1>5, <1>6 DEF ChainShape

\* Two chains that start at different clusters nothing links to are disjoint.
LEMMA ChainsDisjoint ==
    ASSUME NEW f, NEW max \in Nat, Injective(f),
           NEW ch1 \in SeqUpTo(Data, max), IsChain(f, ch1),
           NEW ch2 \in SeqUpTo(Data, max), IsChain(f, ch2),
           ch1[1] # ch2[1], NoLinkTo(f, ch1[1]), NoLinkTo(f, ch2[1])
    PROVE  Range(ch1) \cap Range(ch2) = {}
<1>1. ChainShape(f, ch1) /\ ChainShape(f, ch2)
  BY ChainFacts
<1> DEFINE T == {i \in 1 .. Len(ch1) :
                   \E j \in 1 .. Len(ch2) : ch1[i] = ch2[j]}
<1>d. /\ DOMAIN ch1 = 1 .. Len(ch1) /\ DOMAIN ch2 = 1 .. Len(ch2)
      /\ Len(ch1) \in Nat /\ Len(ch2) \in Nat
  BY <1>1 DEF ChainShape
<1>2. SUFFICES ASSUME T # {}
               PROVE  FALSE
  BY <1>d DEF Range
<1>3. T \in SUBSET Nat
  BY <1>d
<1>4. PICK i \in T : \A m \in T : i <= m
  BY <1>2, <1>3, LeastNumber
<1>5. PICK j \in 1 .. Len(ch2) : ch1[i] = ch2[j]
  OBVIOUS
<1>6. i \in 1 .. Len(ch1) /\ Len(ch1) \in Nat /\ Len(ch2) \in Nat
  BY <1>1 DEF ChainShape
<1>7. CASE i = 1 /\ j = 1
  BY <1>5, <1>7
<1>8. CASE i = 1 /\ j > 1
  <2>1. ch2[j - 1] \in Data /\ f[ch2[j - 1]] = ch2[j]
    BY <1>1, <1>8 DEF ChainShape
  <2> QED
    BY <1>5, <1>8, <2>1 DEF NoLinkTo
<1>9. CASE i > 1 /\ j = 1
  <2>1. ch1[i - 1] \in Data /\ f[ch1[i - 1]] = ch1[i]
    BY <1>1, <1>9 DEF ChainShape
  <2> QED
    BY <1>5, <1>9, <2>1 DEF NoLinkTo
<1>10. CASE i > 1 /\ j > 1
  <2>1. /\ i - 1 \in 1 .. Len(ch1) /\ f[ch1[i - 1]] = ch1[i]
        /\ ch1[i - 1] \in Data /\ ch1[i] \in Data
    BY <1>1, <1>10 DEF ChainShape
  <2>2. /\ j - 1 \in 1 .. Len(ch2) /\ f[ch2[j - 1]] = ch2[j]
        /\ ch2[j - 1] \in Data
    BY <1>1, <1>10 DEF ChainShape
  <2>3. ch1[i - 1] = ch2[j - 1]
    BY <1>5, <2>1, <2>2 DEF Injective
  <2>4. i - 1 \in T
    BY <2>1, <2>2, <2>3
  <2> QED
    BY <1>3, <1>4, <2>4
<1> QED
  BY <1>6, <1>7, <1>8, <1>9, <1>10

\* From one cluster there is one chain.
LEMMA ChainSame ==
    ASSUME NEW f, NEW max \in Nat,
           NEW ch1 \in SeqUpTo(Data, max), IsChain(f, ch1),
           NEW ch2 \in SeqUpTo(Data, max), IsChain(f, ch2),
           ch1[1] = ch2[1], Len(ch1) <= Len(ch2)
    PROVE  Len(ch1) = Len(ch2) /\ \A i \in 1 .. Len(ch1) : ch1[i] = ch2[i]
<1> DEFINE T == {i \in 1 .. Len(ch1) : ch1[i] # ch2[i]}
<1>0. ChainShape(f, ch1) /\ ChainShape(f, ch2)
  BY ChainFacts
<1>1. /\ Len(ch1) \in Nat \ {0} /\ Len(ch2) \in Nat \ {0}
      /\ DOMAIN ch1 = 1 .. Len(ch1) /\ DOMAIN ch2 = 1 .. Len(ch2)
  BY <1>0 DEF ChainShape
<1>2. T = {}
  <2>1. SUFFICES ASSUME T # {}
                 PROVE  FALSE
    OBVIOUS
  <2>2. T \in SUBSET Nat
    BY <1>1
  <2>3. PICK i \in T : \A m \in T : i <= m
    BY <2>1, <2>2, LeastNumber
  <2>4. i > 1 /\ i \in 1 .. Len(ch1) /\ i \in 1 .. Len(ch2)
    BY <1>1
  <2>5. f[ch1[i - 1]] = ch1[i] /\ f[ch2[i - 1]] = ch2[i]
        /\ i - 1 \in 1 .. Len(ch1)
    BY <1>0, <2>4 DEF ChainShape
  <2>6. i - 1 \notin T
    BY <2>2, <2>3, <2>4
  <2>7. ch1[i - 1] = ch2[i - 1]
    BY <2>5, <2>6
  <2> QED
    BY <2>5, <2>7
<1>3. Len(ch1) = Len(ch2)
  <2>0. Len(ch1) \in Nat /\ Len(ch2) \in Nat
    BY <1>1
  <2>1. SUFFICES ASSUME Len(ch1) < Len(ch2)
                 PROVE  FALSE
    BY <2>0
  <2> DEFINE n == Len(ch1)
  <2>2. n \in 1 .. Len(ch1) /\ n \in 1 .. Len(ch2) /\ n + 1 \in 1 .. Len(ch2)
    BY <1>1, <2>1
  <2>3. ch1[n] = ch2[n]
    BY <1>2, <2>2
  <2>4. f[ch1[n]] = EOF /\ f[ch2[n]] = ch2[n + 1] /\ ch2[n + 1] \in Data
    BY <1>0, <2>1, <2>2 DEF ChainShape
  <2> QED
    BY <2>3, <2>4, Numbers
<1>4. \A i \in 1 .. Len(ch1) : ch1[i] = ch2[i]
  BY <1>2
<1> QED
  BY <1>3, <1>4

LEMMA ChainUnique ==
    ASSUME NEW f, NEW max \in Nat,
           NEW ch1 \in SeqUpTo(Data, max), IsChain(f, ch1),
           NEW ch2 \in SeqUpTo(Data, max), IsChain(f, ch2),
           ch1[1] = ch2[1], Len(ch1) <= Len(ch2)
    PROVE  Range(ch1) = Range(ch2)
<1>1. Len(ch1) = Len(ch2) /\ \A i \in 1 .. Len(ch1) : ch1[i] = ch2[i]
  BY ChainSame
<1>2. DOMAIN ch1 = 1 .. Len(ch1) /\ DOMAIN ch2 = 1 .. Len(ch2)
  BY ChainFacts DEF ChainShape
<1> QED
  BY <1>1, <1>2 DEF Range

----------------------------------------------------------------------------
(* Steps that leave the disk alone, and formatting it. *)

LEMMA ConsistentInit == Init => Consistent
<1> SUFFICES ASSUME Init
             PROVE  Consistent
  OBVIOUS
<1>1. TypeOK
  BY TypeInit
<1>2. \A c \in Clusters : disk[c] = Blank /\ fat[c] = EMPTY
  BY DEF Init, ZeroTable
<1>3. Live = {}
  BY <1>2, BlankType, Numbers DEF Live
<1>4. MarksAgree
  BY <1>2, BlankType, Numbers DEF MarksAgree, FreeEntry
<1>5. LinksLead
  BY <1>2, Numbers DEF LinksLead
<1>6. NoCrossLink
  BY <1>2, <1>3, Numbers DEF NoCrossLink
<1>7. TablesPlain /\ FreeIsBlank
  BY <1>2, <1>3, BlankType, Numbers DEF TablesPlain, FreeIsBlank
<1> QED
  BY <1>1, <1>2, <1>3, <1>4, <1>5, <1>6, <1>7
     DEF Init, Consistent, Fresh, CacheCoherent, NamesUnique, EntriesLead

\* The conjuncts of Consistent that speak of the disk alone.
DiskConsistent ==
    /\ MarksAgree /\ NamesUnique /\ FreeIsBlank /\ TablesPlain
    /\ LinksLead /\ NoCrossLink /\ EntriesLead

LEMMA DiskQuiet ==
    ASSUME DiskConsistent, UNCHANGED <<fat, disk, exhausted>>
    PROVE  DiskConsistent'
<1>1. Live' = Live /\ (\A e : EntryAt(e)' = EntryAt(e) /\ HeadOf(e)' = HeadOf(e))
  BY DEF Live, EntryAt, HeadOf
<1> QED
  BY <1>1 DEF DiskConsistent, MarksAgree, NamesUnique, FreeIsBlank, TablesPlain,
     LinksLead, NoCrossLink, EntriesLead

LEMMA AnswerConsistent ==
    ASSUME Consistent, NEW op, NEW code, NEW data,
           AnswerOnly(op, code, data) \/ AnswerCached(op, code, data)
    PROVE  Consistent'
<1>1. DiskConsistent'
  BY DiskQuiet DEF Consistent, DiskConsistent, AnswerOnly, AnswerCached
<1>2. TypeOK'
  BY AnswerType DEF Consistent
<1> QED
  BY <1>1, <1>2 DEF Consistent, DiskConsistent, Fresh, CacheCoherent,
     AnswerOnly, AnswerCached

LEMMA LookConsistent ==
    Consistent /\ (Read \/ ReadEmptyName \/ Browse) => Consistent'
<1> SUFFICES ASSUME Consistent, Read \/ ReadEmptyName \/ Browse
             PROVE  Consistent'
  OBVIOUS
<1>1. CASE Read
  BY <1>1, AnswerConsistent DEF Read, ReadInvalidParent, ReadNotFound,
     ReadNotAFile, ReadNotEnoughBuffer, ReadFile
<1>2. CASE ReadEmptyName
  BY <1>2, AnswerConsistent DEF ReadEmptyName, ReadNotFound, ReadNotEnoughBuffer
<1>3. CASE Browse
  BY <1>3, AnswerConsistent DEF Browse, ReadDirectory, MoveToChild,
     MoveToParent, GetChildren, GetDirPath, SearchIndex
<1> QED
  BY <1>1, <1>2, <1>3

LEMMA LoadConsistent == Consistent /\ (Load \/ PowerOff) => Consistent'
<1> SUFFICES ASSUME Consistent, Load \/ PowerOff
             PROVE  Consistent'
  OBVIOUS
<1>1. DiskConsistent'
  BY DiskQuiet DEF Consistent, DiskConsistent, Load, PowerOff
<1>2. TypeOK'
  BY LoadType, PowerOffType DEF Consistent
<1> QED
  BY <1>1, <1>2
     DEF Consistent, DiskConsistent, Fresh, CacheCoherent, Load, PowerOff

LEMMA FormatConsistent == Consistent /\ Format => Consistent'
<1> SUFFICES ASSUME Consistent, Format
             PROVE  Consistent'
  OBVIOUS
<1>1. TypeOK'
  BY FormatType DEF Consistent
<1>a. /\ disk' = [disk EXCEPT ![ROOT] = DirTable(NoName, ROOT)]
      /\ disk \in [Clusters -> Content]
      /\ \A c \in Clusters : disk[c] = Blank
      /\ ROOT \in Clusters
  BY Numbers DEF Consistent, Fresh, Format, TypeOK
<1>2. \A c \in Clusters : c # ROOT => disk'[c] = Blank
  BY <1>a
<1>3. disk'[ROOT] = DirTable(NoName, ROOT)
  BY <1>a
<1>4. \A c \in Clusters, s \in Slots : disk'[c].slot[s] = FreeEntry
  <2>1. DirTable(NoName, ROOT).slot = Blank.slot
    BY <1>a, TableType
  <2>2. \A s \in Slots : Blank.slot[s] = FreeEntry
    BY BlankType
  <2>3. \A c \in Clusters : disk'[c].slot = Blank.slot
    BY <1>2, <1>3, <2>1
  <2> QED
    BY <2>2, <2>3
<1>f. \A c \in Clusters, s \in Slots :
         ~disk'[c].slot[s].undelete /\ disk'[c].slot[s].name = NoName
  BY <1>4 DEF FreeEntry
<1>5. Live' = {}
  BY <1>f, Numbers DEF Live
<1>6. \A c \in Data : fat'[c] = EMPTY
  <2>1. \A c \in Data : c \in Clusters /\ c \notin {0, 1, ROOT, 4, 5}
    BY Numbers DEF Data, FIRST_DATA, ROOT
  <2> QED
    BY <2>1 DEF Format, FormattedTable, EMPTY
<1>7. MarksAgree'
  BY <1>f, Numbers DEF MarksAgree
<1>8. LinksLead'
  BY <1>6 DEF LinksLead
<1>9. NoCrossLink'
  BY <1>5, <1>6, Numbers DEF NoCrossLink
<1>10. TablesPlain' /\ FreeIsBlank'
  BY <1>2, <1>5, BlankType, Numbers DEF TablesPlain, FreeIsBlank
<1> QED
  BY <1>1, <1>5, <1>7, <1>8, <1>9, <1>10
     DEF Format, Consistent, Fresh, CacheCoherent, NamesUnique, EntriesLead

----------------------------------------------------------------------------
(* Writing. *)

\* get_empty_cluster returns free clusters, each once, or fails.
LEMMA AllocationFacts ==
    ASSUME NEW k \in Nat, NEW cl \in [1 .. k -> Data \cup {NOCLUSTER}],
           IsAllocation(fat, cl)
    PROVE  /\ \A i \in 1 .. k : cl[i] # NOCLUSTER => cl[i] \in Data /\ fat[cl[i]] = EMPTY
           /\ \A i, j \in 1 .. k : cl[i] = cl[j] /\ cl[i] # NOCLUSTER => i = j
<1>1. ASSUME NEW i \in 1 .. k, cl[i] # NOCLUSTER
      PROVE  /\ cl[i] \in FreeData(fat)
             /\ \A j \in 1 .. (i - 1) : cl[i] # cl[j]
  BY <1>1 DEF IsAllocation
<1>2. ASSUME NEW i \in 1 .. k, NEW j \in 1 .. k, cl[i] = cl[j],
             cl[i] # NOCLUSTER
      PROVE  i = j
  <2>1. CASE i < j
    <3>1. i \in 1 .. (j - 1)
      BY <2>1
    <3> QED
      BY <1>1, <1>2, <3>1
  <2>2. CASE j < i
    <3>1. j \in 1 .. (i - 1)
      BY <2>2
    <3> QED
      BY <1>1, <1>2, <3>1
  <2> QED
    BY <2>1, <2>2
<1> QED
  BY <1>1, <1>2 DEF FreeData

\* A cluster's position in an allocation is the only one.
LEMMA PositionFacts ==
    ASSUME NEW k \in Nat, NEW cl \in [1 .. k -> Data \cup {NOCLUSTER}],
           NEW c \in Data, \E i \in DOMAIN cl : cl[i] = c
    PROVE  PositionIn(cl, c) \in 1 .. k /\ cl[PositionIn(cl, c)] = c
BY DEF PositionIn

\* What a write does, cluster by cluster.
WriteFacts(parent, s, name, buf, cl) ==
    /\ s \in Slots
    /\ Len(cl) \in Nat \ {0}
    /\ cl \in [1 .. Len(cl) -> Data \cup {NOCLUSTER}]
    /\ Len(cl) <= MaxFragments
    /\ parent \in Clusters
    /\ disk[parent].dir
    /\ \A i \in 1 .. Len(cl) :
         cl[i] # NOCLUSTER =>
            /\ cl[i] \in Data /\ fat[cl[i]] = EMPTY /\ disk[cl[i]] = Blank
            /\ cl[i] # parent
            /\ disk'[cl[i]] = IF buf = <<>> THEN DirTable(name, parent)
                                            ELSE FileBlock(buf[i])
            /\ i < Len(cl) => fat'[cl[i]] = cl[i + 1]
            /\ i = Len(cl) => fat'[cl[i]] = EOF
    /\ \A i, j \in 1 .. Len(cl) : cl[i] = cl[j] /\ cl[i] # NOCLUSTER => i = j
    /\ \A c \in Data : c \notin Range(cl) => fat'[c] = fat[c]
    /\ \A c \in Clusters : c \notin Range(cl) /\ c # parent => disk'[c] = disk[c]
    /\ disk'[parent] = WithEntry(disk[parent], s, name, buf = <<>>, cl[1])
    /\ exhausted' <=> \E i \in 1 .. Len(cl) : cl[i] = NOCLUSTER
    /\ ~disk[parent].slot[s].undelete
    /\ ~IsDuplicate(disk[parent], name)
    /\ buf = <<>> => Len(cl) = 1
    /\ buf # <<>> => /\ buf = [i \in 1 .. Len(cl) |-> buf[i]]
                     /\ \A i \in 1 .. Len(cl) : buf[i] \in Blocks

LEMMA WriteEffects ==
    ASSUME Consistent, NEW parent \in Parents, NEW name \in Names,
           NEW buf \in Buffers, WriteEntry(parent, name, buf)
    PROVE  /\ ~exhausted
           /\ \E s, cl : WriteFacts(parent, s, name, buf, cl)
<1>1. PICK s \in FirstFree(disk[parent]), junk \in Garbage,
           cl \in [1 .. ClustersFor(buf) -> Data \cup {NOCLUSTER}] :
             /\ IsAllocation(fat, cl)
             /\ disk' = Written(parent, s, name, buf, cl)
             /\ fat' = [Linked(fat, cl) EXCEPT ![INDEX] = fat[INDEX] + 1]
             /\ exhausted' = \E i \in DOMAIN cl : cl[i] = NOCLUSTER
  BY DEF WriteEntry
<1>2. /\ buf \in Seq(Blocks) /\ ClustersFor(buf) \in Nat \ {0}
      /\ buf # <<>> => ClustersFor(buf) = Len(buf)
      /\ ClustersFor(buf) <= MaxFragments
      /\ buf = <<>> => ClustersFor(buf) = 1
  BY BuffersAssumption, SizesAssumption DEF ClustersFor
<1>3. Len(cl) = ClustersFor(buf) /\ DOMAIN cl = 1 .. Len(cl)
  BY <1>2
<1> DEFINE k == Len(cl)
<1>4. k \in Nat \ {0} /\ cl \in [1 .. k -> Data \cup {NOCLUSTER}]
  BY <1>2, <1>3
<1>5. /\ \A i \in 1 .. k : cl[i] # NOCLUSTER => cl[i] \in Data /\ fat[cl[i]] = EMPTY
      /\ \A i, j \in 1 .. k : cl[i] = cl[j] /\ cl[i] # NOCLUSTER => i = j
  <2>1. k \in Nat /\ IsAllocation(fat, cl)
    BY <1>1, <1>4
  <2> HIDE DEF k
  <2> QED
    BY <1>4, <2>1, AllocationFacts
<1>6. disk[parent].dir /\ ~IsDuplicate(disk[parent], name) /\ ~exhausted
  BY DEF WriteEntry, Calling
<1>7. \A i \in 1 .. k : cl[i] # NOCLUSTER => disk[cl[i]] = Blank /\ cl[i] # parent
  BY <1>5, <1>6, BlankType DEF Consistent, FreeIsBlank
<1>8. ASSUME NEW i \in 1 .. k, cl[i] # NOCLUSTER
      PROVE  PositionIn(cl, cl[i]) = i
  <2>1. /\ PositionIn(cl, cl[i]) \in 1 .. k
        /\ cl[PositionIn(cl, cl[i])] = cl[i]
    BY <1>3, <1>4, <1>5, <1>8, PositionFacts
  <2> QED
    BY <1>5, <1>8, <2>1
<1>9. \A c \in Data : c \in Clusters /\ c # INDEX
  BY Numbers
<1>10. \A c \in Data : fat'[c] = Linked(fat, cl)[c]
  BY <1>1, <1>9 DEF Linked
<1>11. ASSUME NEW i \in 1 .. k, cl[i] # NOCLUSTER
       PROVE  /\ i < k => fat'[cl[i]] = cl[i + 1]
              /\ i = k => fat'[cl[i]] = EOF
              /\ disk'[cl[i]] = IF buf = <<>> THEN DirTable(name, parent)
                                              ELSE FileBlock(buf[i])
  <2>1. cl[i] \in Data /\ cl[i] \in Clusters /\ cl[i] # parent
    BY <1>5, <1>7, <1>9, <1>11
  <2>2. \E j \in DOMAIN cl : cl[j] = cl[i]
    BY <1>3
  <2>3. fat'[cl[i]] = IF i < k THEN cl[i + 1] ELSE EOF
    <3>1. PositionIn(cl, cl[i]) = i
      BY <1>8, <1>11
    <3>2. fat'[cl[i]] = LET p == PositionIn(cl, cl[i])
                        IN  IF p < Len(cl) THEN cl[p + 1] ELSE EOF
      BY <1>10, <2>1, <2>2 DEF Linked
    <3> QED
      BY <3>1, <3>2
  <2>4. disk'[cl[i]] = IF buf = <<>> THEN DirTable(name, parent)
                                     ELSE FileBlock(buf[i])
    BY <1>1, <1>8, <1>11, <2>1, <2>2 DEF Written
  <2> QED
    BY <1>4, <2>3, <2>4
<1>12. /\ \A c \in Data : c \notin Range(cl) => fat'[c] = fat[c]
       /\ \A c \in Clusters : c \notin Range(cl) /\ c # parent
                                => disk'[c] = disk[c]
       /\ disk'[parent] = WithEntry(disk[parent], s, name, buf = <<>>, cl[1])
  BY <1>1, <1>9, <1>10, Numbers DEF Linked, Written, Range
<1>13. s \in Slots /\ ~disk[parent].slot[s].undelete
  BY DEF FirstFree
<1>14. buf # <<>> => /\ buf = [i \in 1 .. k |-> buf[i]]
                     /\ \A i \in 1 .. k : buf[i] \in Blocks
  BY <1>2, <1>3
<1>15. parent \in Clusters
  BY Numbers
<1>16. exhausted' <=> \E i \in 1 .. k : cl[i] = NOCLUSTER
  BY <1>1, <1>3
<1>17. WriteFacts(parent, s, name, buf, cl)
  BY <1>2, <1>3, <1>4, <1>5, <1>6, <1>7, <1>11, <1>12, <1>13, <1>14, <1>15,
     <1>16 DEF WriteFacts
<1> QED
  BY <1>6, <1>17

\* The entries after a write: the old ones, as they were, and the new one.
EntriesAfterWrite(parent, s, name, buf, cl) ==
    /\ <<parent, s>> \notin Live
    /\ Live' = Live \cup {<<parent, s>>}
    /\ \A e \in Live : EntryAt(e)' = EntryAt(e)
    /\ EntryAt(<<parent, s>>)' =
         [name |-> name, dir |-> buf = <<>>, notempty |-> FALSE,
          undelete |-> TRUE, cl |-> cl[1]]
    /\ \A d \in Parents, t \in Slots :
         <<d, t>> # <<parent, s>> => disk'[d].slot[t] = disk[d].slot[t]
    /\ \A d \in Parents :
         d \notin Range(cl) => disk'[d].dir = disk[d].dir

LEMMA WriteLive ==
    ASSUME Consistent, TypeOK', NEW parent \in Parents, NEW name \in Names,
           NEW buf, NEW s, NEW cl, WriteFacts(parent, s, name, buf, cl)
    PROVE  EntriesAfterWrite(parent, s, name, buf, cl)
<1> DEFINE entry == [name |-> name, dir |-> buf = <<>>, notempty |-> FALSE,
                     undelete |-> TRUE, cl |-> cl[1]]
<1>1. disk[parent] \in Content /\ s \in Slots /\ parent \in Clusters
  BY Numbers DEF Consistent, TypeOK, WriteFacts
<1>2. /\ disk'[parent].slot = [disk[parent].slot EXCEPT ![s] = entry]
      /\ disk'[parent].dir = disk[parent].dir
  BY <1>1 DEF WriteFacts, WithEntry, Content
<1>3. disk[parent].slot \in [Slots -> Entry]
  BY <1>1 DEF Content
<1>4. /\ disk'[parent].slot[s] = entry
      /\ \A t \in Slots : t # s => disk'[parent].slot[t] = disk[parent].slot[t]
  BY <1>1, <1>2, <1>3
<1>5. ASSUME NEW d \in Parents, d \in Range(cl)
      PROVE  /\ d # parent
             /\ ~disk[d].dir
             /\ disk[d].slot = Blank.slot /\ disk'[d].slot = Blank.slot
  <2>1. PICK i \in 1 .. Len(cl) : cl[i] = d
    BY <1>5 DEF Range, WriteFacts
  <2>2. d # NOCLUSTER
    BY Numbers DEF NOCLUSTER
  <2>3. /\ disk[d] = Blank /\ d # parent
        /\ disk'[d] = IF buf = <<>> THEN DirTable(name, parent)
                                    ELSE FileBlock(buf[i])
    BY <2>1, <2>2 DEF WriteFacts
  <2>4. buf = <<>> => DirTable(name, parent).slot = Blank.slot
    BY <1>1, TableType
  <2>5. buf # <<>> => FileBlock(buf[i]).slot = Blank.slot
    BY <2>1, FileType DEF WriteFacts
  <2> QED
    BY <2>3, <2>4, <2>5, BlankType
<1>6. ASSUME NEW d \in Parents, d \notin Range(cl), d # parent
      PROVE  disk'[d] = disk[d]
  BY <1>6, Numbers DEF WriteFacts
<1>7. ASSUME NEW d \in Parents, NEW t \in Slots, <<d, t>> # <<parent, s>>
      PROVE  disk'[d].slot[t] = disk[d].slot[t]
  BY <1>4, <1>5, <1>6, <1>7
<1>8. ASSUME NEW d \in Parents, d \notin Range(cl)
      PROVE  disk'[d].dir = disk[d].dir
  BY <1>2, <1>6, <1>8
<1>9. <<parent, s>> \notin Live /\ parent \notin Range(cl)
  BY <1>5 DEF Live, WriteFacts
<1>10. ASSUME NEW e \in Live
       PROVE  e \in Live' /\ EntryAt(e)' = EntryAt(e)
  <2>1. PICK d \in Parents, t \in Slots : e = <<d, t>>
    BY DEF Live
  <2>2. disk[d].dir /\ disk[d].slot[t].undelete
    BY <2>1 DEF Live
  <2>3. d \notin Range(cl)
    BY <1>5, <2>2
  <2>4. <<d, t>> # <<parent, s>>
    BY <1>9, <2>1
  <2>5. disk'[d].slot[t] = disk[d].slot[t] /\ disk'[d].dir
    BY <1>7, <1>8, <2>2, <2>3, <2>4
  <2> QED
    BY <2>1, <2>2, <2>5 DEF Live, EntryAt
<1>11. ASSUME NEW e \in Live', e # <<parent, s>>
       PROVE  e \in Live
  <2>1. PICK d \in Parents, t \in Slots : e = <<d, t>>
    BY DEF Live
  <2>2. disk'[d].dir /\ disk'[d].slot[t].undelete
    BY <2>1 DEF Live
  <2>3. disk[d].slot[t].undelete
    BY <1>7, <1>11, <2>1, <2>2
  <2>4. d \notin Range(cl)
    BY <1>5, <2>3, BlankType DEF FreeEntry
  <2>5. disk[d].dir
    BY <1>8, <2>2, <2>4
  <2> QED
    BY <2>1, <2>3, <2>5 DEF Live
<1>12. <<parent, s>> \in Live'
  <2>1. disk'[parent].dir
    BY <1>2 DEF WriteFacts
  <2>2. entry.undelete
    OBVIOUS
  <2>3. disk'[parent].slot[s].undelete
    BY <1>4, <2>2
  <2>4. parent \in Parents /\ s \in Slots
    BY <1>1
  <2> QED
    BY <2>1, <2>3, <2>4 DEF Live
<1>13. EntryAt(<<parent, s>>)' = entry
  BY <1>4 DEF EntryAt
<1>14. Live' = Live \cup {<<parent, s>>}
  BY <1>10, <1>11, <1>12
<1> QED
  BY <1>7, <1>8, <1>9, <1>10, <1>13, <1>14 DEF EntriesAfterWrite

\* The first cluster of an entry, and a cluster that is linked to, is in use.
LEMMA UsedFacts ==
    ASSUME Consistent, ~exhausted
    PROVE  /\ \A e \in Live : HeadOf(e) \in Data /\ fat[HeadOf(e)] # EMPTY
           /\ \A c \in Data : fat[c] \in Data => fat[fat[c]] # EMPTY
<1>1. ASSUME NEW e \in Live
      PROVE  HeadOf(e) \in Data /\ fat[HeadOf(e)] # EMPTY
  <2>1. CASE EntryAt(e).dir
    BY <2>1, Numbers DEF Consistent, EntriesLead
  <2>2. CASE ~EntryAt(e).dir
    <3>1. PICK ch \in SeqUpTo(Data, MaxFragments) :
                 IsChain(fat, ch) /\ ch[1] = HeadOf(e)
      BY <2>2 DEF Consistent, EntriesLead
    <3>0. MaxFragments \in Nat
      BY SizesAssumption
    <3>2. ch \in SeqUpTo(Data, MaxFragments) /\ IsChain(fat, ch)
      BY <3>1
    <3>4. ChainShape(fat, ch)
      BY <3>0, <3>2, ChainFacts
    <3>5. Len(ch) \in Nat \ {0}
      BY <3>4 DEF ChainShape
    <3>3. 1 \in 1 .. Len(ch)
      BY <3>5
    <3> QED
      BY <3>1, <3>3, <3>4 DEF ChainShape
  <2> QED
    BY <2>1, <2>2
<1>2. ASSUME NEW c \in Data, fat[c] \in Data
      PROVE  fat[fat[c]] # EMPTY
  BY <1>2, Numbers DEF Consistent, LinksLead
<1> QED
  BY <1>1, <1>2

\* A write keeps the tables: marks, names, blank free clusters.
LEMMA WriteTables ==
    ASSUME Consistent, TypeOK', NEW parent \in Parents, NEW name \in Names,
           NEW buf, NEW s, NEW cl, WriteFacts(parent, s, name, buf, cl)
    PROVE  /\ MarksAgree' /\ NamesUnique' /\ FreeIsBlank'
           /\ \A c \in Data : disk'[c].dir => disk'[c].data = NoBlock
<1>0. EntriesAfterWrite(parent, s, name, buf, cl)
  BY WriteLive
<1>1. /\ Live' = Live \cup {<<parent, s>>}
      /\ \A e \in Live : EntryAt(e)' = EntryAt(e)
      /\ EntryAt(<<parent, s>>)'.name = name
      /\ EntryAt(<<parent, s>>)'.undelete
      /\ \A d \in Parents, t \in Slots :
           <<d, t>> # <<parent, s>> => disk'[d].slot[t] = disk[d].slot[t]
  BY <1>0 DEF EntriesAfterWrite
<1>2. disk'[parent].slot[s].name = name /\ disk'[parent].slot[s].undelete
  BY <1>1 DEF EntryAt
<1>3. MarksAgree'
  BY <1>1, <1>2, NamesAssumption DEF Consistent, MarksAgree
<1>4. ASSUME NEW t \in Slots, disk[parent].slot[t].name = name
      PROVE  FALSE
  <2>1. disk[parent].slot[t].undelete
    BY <1>4, NamesAssumption DEF Consistent, MarksAgree
  <2> QED
    BY <1>4, <2>1 DEF WriteFacts, IsDuplicate
<1>5. ASSUME NEW e \in Live', NEW t \in Slots,
             disk'[e[1]].slot[t].name = EntryAt(e)'.name
      PROVE  t = e[2]
  <2>1. CASE e \in Live
    <3>1. PICK d \in Parents, u \in Slots : e = <<d, u>>
      BY <2>1 DEF Live
    <3>2. EntryAt(e)' = disk[d].slot[u]
      BY <1>1, <2>1, <3>1 DEF EntryAt
    <3>3. CASE <<d, t>> = <<parent, s>>
      <4>1. d = parent /\ t = s
        BY <3>3
      <4>2. disk[parent].slot[u].name = name
        BY <1>2, <1>5, <3>1, <3>2, <4>1
      <4> QED
        BY <1>4, <4>2
    <3>4. CASE <<d, t>> # <<parent, s>>
      <4>1. disk[d].slot[t].name = disk[d].slot[u].name
        BY <1>1, <1>5, <3>1, <3>2, <3>4
      <4> QED
        BY <2>1, <3>1, <4>1 DEF Consistent, NamesUnique, EntryAt
    <3> QED
      BY <3>3, <3>4
  <2>2. CASE e = <<parent, s>>
    <3>1. SUFFICES ASSUME t # s
                   PROVE  FALSE
      BY <2>2
    <3>2. disk[parent].slot[t].name = name
      BY <1>1, <1>5, <2>2, <3>1
    <3> QED
      BY <1>4, <3>2
  <2> QED
    BY <1>1, <2>1, <2>2
<1>6. NamesUnique'
  BY <1>5 DEF NamesUnique
<1>7. ASSUME NEW c \in Data
      PROVE  /\ fat'[c] = EMPTY => disk'[c] = Blank
             /\ disk'[c].dir => disk'[c].data = NoBlock
  <2>1. CASE c \in Range(cl)
    <3>1. PICK i \in 1 .. Len(cl) : cl[i] = c
      BY <2>1 DEF Range, WriteFacts
    <3>2. c # NOCLUSTER /\ Len(cl) \in Nat
      BY Numbers DEF NOCLUSTER, WriteFacts
    <3>3. /\ disk'[c] = IF buf = <<>> THEN DirTable(name, parent)
                                      ELSE FileBlock(buf[i])
          /\ i < Len(cl) => fat'[c] = cl[i + 1]
          /\ i = Len(cl) => fat'[c] = EOF
      BY <3>1, <3>2 DEF WriteFacts
    <3>4. fat'[c] # EMPTY
      <4>1. CASE i < Len(cl)
        <5>1. i + 1 \in 1 .. Len(cl)
          BY <3>2, <4>1
        <5>2. cl[i + 1] \in Data \cup {NOCLUSTER}
          BY <5>1 DEF WriteFacts
        <5> QED
          BY <3>3, <4>1, <5>2, Numbers DEF NOCLUSTER, EMPTY
      <4>2. CASE i = Len(cl)
        BY <3>3, <4>2, Numbers
      <4> QED
        BY <3>2, <4>1, <4>2
    <3>5. buf = <<>> => disk'[c].data = NoBlock
      BY <3>3 DEF DirTable, Blank
    <3>6. buf # <<>> => ~disk'[c].dir
      BY <3>3 DEF FileBlock, Blank
    <3> QED
      BY <3>4, <3>5, <3>6
  <2>2. CASE c \notin Range(cl) /\ c # parent
    BY <2>2, Numbers DEF WriteFacts, Consistent, FreeIsBlank, TablesPlain
  <2>3. CASE c \notin Range(cl) /\ c = parent
    <3>1. fat'[c] = fat[c] /\ disk[c].dir
      BY <2>3 DEF WriteFacts
    <3>2. fat[c] # EMPTY /\ disk[c].data = NoBlock
      BY <3>1, BlankType DEF Consistent, FreeIsBlank, TablesPlain
    <3>3. disk'[c].data = disk[c].data
      BY <2>3, Numbers DEF WriteFacts, WithEntry, Consistent, TypeOK, Content
    <3> QED
      BY <3>1, <3>2, <3>3
  <2> QED
    BY <2>1, <2>2, <2>3
<1> QED
  BY <1>3, <1>6, <1>7 DEF FreeIsBlank

\* The clusters of a write that found them all, and the rest of the disk.
ClustersAfterWrite(parent, name, buf, cl) ==
    /\ Len(cl) \in Nat \ {0}
    /\ 1 \in 1 .. Len(cl)
    /\ \A i \in 1 .. Len(cl) :
         /\ cl[i] \in Range(cl)
         /\ i < Len(cl) => fat'[cl[i]] = cl[i + 1] /\ i + 1 \in 1 .. Len(cl)
         /\ i = Len(cl) => fat'[cl[i]] = EOF
         /\ buf = <<>> => disk'[cl[i]] = DirTable(name, parent)
         /\ buf # <<>> => disk'[cl[i]] = FileBlock(buf[i]) /\ buf[i] \in Blocks
    /\ \A i, j \in 1 .. Len(cl) : cl[i] = cl[j] => i = j
    /\ \A c \in Range(cl) :
         /\ c \in Data /\ fat[c] = EMPTY /\ c # parent
         /\ \E i \in 1 .. Len(cl) : c = cl[i]
    /\ \A c \in Data : c \notin Range(cl) =>
         /\ fat'[c] = fat[c]
         /\ disk'[c].dir = disk[c].dir /\ disk'[c].up = disk[c].up
         /\ disk'[c].name = disk[c].name /\ disk'[c].data = disk[c].data

LEMMA WriteClusters ==
    ASSUME Consistent, ~exhausted', NEW parent \in Parents, NEW name \in Names,
           NEW buf, NEW s, NEW cl, WriteFacts(parent, s, name, buf, cl)
    PROVE  ClustersAfterWrite(parent, name, buf, cl)
<1>1. /\ Len(cl) \in Nat \ {0} /\ DOMAIN cl = 1 .. Len(cl)
      /\ \A i \in 1 .. Len(cl) : cl[i] # NOCLUSTER
  BY DEF WriteFacts
<1>2. 1 \in 1 .. Len(cl)
  BY <1>1
<1>3. ASSUME NEW i \in 1 .. Len(cl)
      PROVE  /\ cl[i] \in Range(cl)
             /\ i < Len(cl) => fat'[cl[i]] = cl[i + 1] /\ i + 1 \in 1 .. Len(cl)
             /\ i = Len(cl) => fat'[cl[i]] = EOF
             /\ buf = <<>> => disk'[cl[i]] = DirTable(name, parent)
             /\ buf # <<>> => disk'[cl[i]] = FileBlock(buf[i]) /\ buf[i] \in Blocks
  <2>1. cl[i] \in Range(cl)
    BY <1>1 DEF Range
  <2>2. i < Len(cl) => i + 1 \in 1 .. Len(cl)
    BY <1>1
  <2> QED
    BY <1>1, <2>1, <2>2 DEF WriteFacts
<1>4. ASSUME NEW c \in Range(cl)
      PROVE  /\ c \in Data /\ fat[c] = EMPTY /\ c # parent
             /\ \E i \in 1 .. Len(cl) : c = cl[i]
  <2>1. PICK i \in 1 .. Len(cl) : c = cl[i]
    BY <1>1 DEF Range
  <2> QED
    BY <1>1, <2>1 DEF WriteFacts
<1>5. ASSUME NEW c \in Data, c \notin Range(cl)
      PROVE  /\ fat'[c] = fat[c]
             /\ disk'[c].dir = disk[c].dir /\ disk'[c].up = disk[c].up
             /\ disk'[c].name = disk[c].name /\ disk'[c].data = disk[c].data
  <2>1. fat'[c] = fat[c] /\ c \in Clusters /\ disk[c] \in Content
    BY <1>5, Numbers DEF WriteFacts, Consistent, TypeOK
  <2>2. CASE c # parent
    BY <1>5, <2>1, <2>2 DEF WriteFacts
  <2>3. CASE c = parent
    <3>1. disk'[c] = WithEntry(disk[c], s, name, buf = <<>>, cl[1])
      BY <2>3 DEF WriteFacts
    <3> QED
      BY <2>1, <3>1 DEF WithEntry, Content
  <2> QED
    BY <2>2, <2>3
<1>6. \A i, j \in 1 .. Len(cl) : cl[i] = cl[j] => i = j
  BY <1>1 DEF WriteFacts
<1> QED
  BY <1>1, <1>2, <1>3, <1>4, <1>5, <1>6 DEF ClustersAfterWrite

\* A write keeps the chains.
LEMMA WriteLinks ==
    ASSUME Consistent, ~exhausted, NEW parent \in Parents, NEW name \in Names,
           NEW buf, NEW s, NEW cl,
           EntriesAfterWrite(parent, s, name, buf, cl),
           ClustersAfterWrite(parent, name, buf, cl)
    PROVE  LinksLead' /\ NoCrossLink'
<1>1. /\ \A e \in Live : HeadOf(e) \in Data /\ fat[HeadOf(e)] # EMPTY
      /\ \A c \in Data : fat[c] \in Data => fat[fat[c]] # EMPTY
  BY UsedFacts
<1>2. ASSUME NEW c \in Range(cl)
      PROVE  /\ fat'[c] # EMPTY
             /\ fat'[c] = EOF \/ fat'[c] \in Range(cl)
  <2>1. PICK i \in 1 .. Len(cl) : c = cl[i]
    BY DEF ClustersAfterWrite
  <2>2. Len(cl) \in Nat
    BY DEF ClustersAfterWrite
  <2>3. CASE i < Len(cl)
    <3>1. fat'[c] = cl[i + 1] /\ cl[i + 1] \in Range(cl)
      BY <2>1, <2>3 DEF ClustersAfterWrite
    <3>2. cl[i + 1] \in Data
      BY <3>1 DEF ClustersAfterWrite
    <3> QED
      BY <3>1, <3>2, Numbers
  <2>4. CASE i = Len(cl)
    BY <2>1, <2>4, Numbers DEF ClustersAfterWrite
  <2> QED
    BY <2>2, <2>3, <2>4
<1>3. \A c \in Data : c \notin Range(cl) => fat'[c] = fat[c]
  BY DEF ClustersAfterWrite
<1>4. \A c \in Range(cl) : c \in Data /\ fat[c] = EMPTY
  BY DEF ClustersAfterWrite
<1>5. ASSUME NEW c \in Data
      PROVE  \/ fat'[c] \in {EMPTY, EOF}
             \/ fat'[c] \in Data /\ fat'[fat'[c]] # EMPTY
  <2>1. CASE c \in Range(cl)
    BY <1>2, <1>4, <2>1
  <2>2. CASE c \notin Range(cl)
    <3>1. \/ fat[c] \in {EMPTY, EOF}
          \/ fat[c] \in Data /\ fat[fat[c]] # EMPTY
      BY DEF Consistent, LinksLead
    <3> QED
      BY <1>3, <1>4, <2>2, <3>1
  <2> QED
    BY <2>1, <2>2
<1>6. ASSUME NEW c \in Data, fat'[c] \in Range(cl)
      PROVE  c \in Range(cl)
  BY <1>1, <1>3, <1>4, <1>6
<1>7. ASSUME NEW i \in 1 .. Len(cl), fat'[cl[i]] \in Range(cl)
      PROVE  i + 1 \in 1 .. Len(cl) /\ fat'[cl[i]] = cl[i + 1]
  <2>1. fat'[cl[i]] \in Data
    BY <1>4, <1>7
  <2>2. fat'[cl[i]] # EOF
    BY <2>1, Numbers
  <2>3. Len(cl) \in Nat
    BY DEF ClustersAfterWrite
  <2>4. i # Len(cl)
    BY <2>2 DEF ClustersAfterWrite
  <2>5. i < Len(cl)
    BY <2>3, <2>4
  <2> QED
    BY <2>5 DEF ClustersAfterWrite
<1>8. ASSUME NEW c1 \in Data, NEW c2 \in Data, fat'[c1] = fat'[c2],
             fat'[c1] \in Data
      PROVE  c1 = c2
  <2>1. CASE fat'[c1] \in Range(cl)
    <3>1. c1 \in Range(cl) /\ c2 \in Range(cl)
      BY <1>6, <1>8, <2>1
    <3>2. PICK i \in 1 .. Len(cl) : c1 = cl[i]
      BY <3>1 DEF ClustersAfterWrite
    <3>3. PICK j \in 1 .. Len(cl) : c2 = cl[j]
      BY <3>1 DEF ClustersAfterWrite
    <3>4. /\ i + 1 \in 1 .. Len(cl) /\ j + 1 \in 1 .. Len(cl)
          /\ cl[i + 1] = cl[j + 1]
      BY <1>7, <1>8, <2>1, <3>2, <3>3
    <3>5. i + 1 = j + 1
      BY <3>4 DEF ClustersAfterWrite
    <3>6. i = j
      BY <3>5
    <3> QED
      BY <3>2, <3>3, <3>6
  <2>2. CASE fat'[c1] \notin Range(cl)
    <3>1. c1 \notin Range(cl) /\ c2 \notin Range(cl)
      BY <1>2, <1>8, <2>2, Numbers
    <3> QED
      BY <1>3, <1>8, <3>1 DEF Consistent, NoCrossLink
  <2> QED
    BY <2>1, <2>2
<1>9. /\ Live' = Live \cup {<<parent, s>>}
      /\ \A e \in Live : HeadOf(e)' = HeadOf(e)
      /\ HeadOf(<<parent, s>>)' = cl[1]
      /\ cl[1] \in Range(cl) /\ 1 \in 1 .. Len(cl)
  BY DEF EntriesAfterWrite, ClustersAfterWrite, HeadOf
<1>10. ASSUME NEW e1 \in Live', NEW e2 \in Live', HeadOf(e1)' = HeadOf(e2)'
       PROVE  e1 = e2
  <2>1. CASE e1 \in Live /\ e2 \in Live
    BY <1>9, <1>10, <2>1 DEF Consistent, NoCrossLink
  <2>2. CASE e1 \in Live /\ e2 = <<parent, s>>
    BY <1>1, <1>4, <1>9, <1>10, <2>2
  <2>3. CASE e1 = <<parent, s>> /\ e2 \in Live
    BY <1>1, <1>4, <1>9, <1>10, <2>3
  <2> QED
    BY <1>9, <2>1, <2>2, <2>3
<1>11. ASSUME NEW e \in Live', NEW c \in Data, fat'[c] = HeadOf(e)'
       PROVE  FALSE
  <2>1. CASE e \in Live
    <3>1. HeadOf(e) \in Data /\ HeadOf(e) \notin Range(cl)
      BY <1>1, <1>4, <2>1
    <3>2. c \notin Range(cl)
      BY <1>2, <1>9, <1>11, <2>1, <3>1, Numbers
    <3> QED
      BY <1>3, <1>9, <1>11, <2>1, <3>2 DEF Consistent, NoCrossLink
  <2>2. CASE e = <<parent, s>>
    <3>1. c \in Range(cl)
      BY <1>6, <1>9, <1>11, <2>2
    <3>2. PICK i \in 1 .. Len(cl) : c = cl[i]
      BY <3>1 DEF ClustersAfterWrite
    <3>3. i + 1 \in 1 .. Len(cl) /\ cl[i + 1] = cl[1]
      BY <1>7, <1>9, <1>11, <2>2, <3>2
    <3>4. i + 1 = 1
      BY <1>9, <3>3 DEF ClustersAfterWrite
    <3> QED
      BY <3>4
  <2> QED
    BY <1>9, <2>1, <2>2
<1> QED
  BY <1>5, <1>8, <1>10, <1>11 DEF LinksLead, NoCrossLink

\* A chain of the old FAT avoids the clusters that a write takes.
LEMMA WriteKeepsChain ==
    ASSUME NEW parent, NEW name, NEW buf, NEW cl,
           ClustersAfterWrite(parent, name, buf, cl),
           NEW ch \in SeqUpTo(Data, MaxFragments), IsChain(fat, ch),
           \A i \in DOMAIN ch : disk[ch[i]].data \in Blocks
    PROVE  /\ IsChain(fat', ch)
           /\ \A i \in DOMAIN ch : disk'[ch[i]].data \in Blocks
           /\ \A i \in DOMAIN ch : disk'[ch[i]].data = disk[ch[i]].data
<1>0. MaxFragments \in Nat
  BY SizesAssumption
<1>1. ChainShape(fat, ch)
  BY <1>0, ChainFacts
<1>2. ASSUME NEW i \in DOMAIN ch
      PROVE  fat'[ch[i]] = fat[ch[i]] /\ disk'[ch[i]].data = disk[ch[i]].data
  <2>1. ch[i] \in Data /\ fat[ch[i]] # EMPTY
    BY <1>1 DEF ChainShape
  <2>2. ch[i] \notin Range(cl)
    BY <2>1 DEF ClustersAfterWrite
  <2> QED
    BY <2>1, <2>2 DEF ClustersAfterWrite
<1> QED
  BY <1>2 DEF IsChain

\* The new entry leads to the clusters of the write.
LEMMA WriteNewEntry ==
    ASSUME NEW parent \in Parents, NEW name \in Names, NEW buf, NEW s, NEW cl,
           WriteFacts(parent, s, name, buf, cl),
           ClustersAfterWrite(parent, name, buf, cl)
    PROVE  IF buf = <<>>
           THEN /\ cl[1] \in Data /\ fat'[cl[1]] = EOF
                /\ disk'[cl[1]] = DirTable(name, parent)
           ELSE /\ cl \in SeqUpTo(Data, MaxFragments)
                /\ IsChain(fat', cl)
                /\ \A i \in DOMAIN cl :
                     disk'[cl[i]].data = buf[i] /\ buf[i] \in Blocks
<1>1. /\ Len(cl) \in Nat \ {0} /\ DOMAIN cl = 1 .. Len(cl)
      /\ cl \in [1 .. Len(cl) -> Data \cup {NOCLUSTER}]
      /\ Len(cl) <= MaxFragments
      /\ 1 \in 1 .. Len(cl)
  BY DEF WriteFacts, ClustersAfterWrite
<1>2. \A i \in 1 .. Len(cl) : cl[i] \in Data
  BY DEF ClustersAfterWrite
<1>3. CASE buf = <<>>
  <2>1. Len(cl) = 1
    BY <1>3 DEF WriteFacts
  <2> QED
    BY <1>1, <1>2, <1>3, <2>1 DEF ClustersAfterWrite
<1>4. CASE buf # <<>>
  <2>1. Len(cl) \in 0 .. MaxFragments
    BY <1>1, SizesAssumption
  <2>2. cl \in [1 .. Len(cl) -> Data]
    BY <1>1, <1>2
  <2>3. cl \in SeqUpTo(Data, MaxFragments)
    BY <2>1, <2>2 DEF SeqUpTo
  <2>4. ASSUME NEW i \in DOMAIN cl
        PROVE  fat'[cl[i]] = IF i < Len(cl) THEN cl[i + 1] ELSE EOF
    <3>1. i \in 1 .. Len(cl) /\ (i < Len(cl) \/ i = Len(cl))
      BY <1>1
    <3> QED
      BY <1>1, <3>1 DEF ClustersAfterWrite
  <2>5. cl # <<>>
    BY <1>1
  <2>6. IsChain(fat', cl)
    BY <2>4, <2>5 DEF IsChain
  <2>7. ASSUME NEW i \in DOMAIN cl
        PROVE  disk'[cl[i]].data = buf[i] /\ buf[i] \in Blocks
    <3>1. disk'[cl[i]] = FileBlock(buf[i]) /\ buf[i] \in Blocks
      BY <1>1, <1>4 DEF ClustersAfterWrite
    <3> QED
      BY <3>1, FileType
  <2> QED
    BY <1>4, <2>3, <2>6, <2>7
<1> QED
  BY <1>3, <1>4

LEMMA WriteLeads ==
    ASSUME Consistent, ~exhausted, NEW parent \in Parents, NEW name \in Names,
           NEW buf, NEW s, NEW cl, WriteFacts(parent, s, name, buf, cl),
           EntriesAfterWrite(parent, s, name, buf, cl),
           ClustersAfterWrite(parent, name, buf, cl)
    PROVE  EntriesLead' /\ \A e \in Live' : HeadOf(e)' # e[1]
<1>1. /\ Live' = Live \cup {<<parent, s>>}
      /\ \A e \in Live : EntryAt(e)' = EntryAt(e) /\ HeadOf(e)' = HeadOf(e)
      /\ EntryAt(<<parent, s>>)'.name = name
      /\ HeadOf(<<parent, s>>)' = cl[1]
  BY DEF EntriesAfterWrite, HeadOf
<1>8. EntryAt(<<parent, s>>)'.dir = (buf = <<>>)
  <2> DEFINE entry == [name |-> name, dir |-> buf = <<>>, notempty |-> FALSE,
                       undelete |-> TRUE, cl |-> cl[1]]
  <2>1. EntryAt(<<parent, s>>)' = entry
    BY DEF EntriesAfterWrite
  <2>2. entry.dir = (buf = <<>>)
    BY Zenon
  <2> QED
    BY <2>1, <2>2, Zenon
<1>2. ASSUME NEW e \in Live, EntryAt(e).dir
      PROVE  /\ HeadOf(e) \in Data
             /\ fat'[HeadOf(e)] = EOF
             /\ disk'[HeadOf(e)].dir
             /\ disk'[HeadOf(e)].up = e[1]
             /\ disk'[HeadOf(e)].name = EntryAt(e).name
  <2>1. /\ HeadOf(e) \in Data
        /\ fat[HeadOf(e)] = EOF
        /\ disk[HeadOf(e)].dir
        /\ disk[HeadOf(e)].up = e[1]
        /\ disk[HeadOf(e)].name = EntryAt(e).name
    BY <1>2 DEF Consistent, EntriesLead
  <2>2. HeadOf(e) \notin Range(cl)
    BY <2>1, Numbers DEF ClustersAfterWrite
  <2> QED
    BY <2>1, <2>2 DEF ClustersAfterWrite
<1>3. ASSUME NEW e \in Live, ~EntryAt(e).dir
      PROVE  \E ch \in SeqUpTo(Data, MaxFragments) :
                /\ IsChain(fat', ch) /\ ch[1] = HeadOf(e)
                /\ \A i \in DOMAIN ch : disk'[ch[i]].data \in Blocks
  <2>1. PICK ch \in SeqUpTo(Data, MaxFragments) :
                /\ IsChain(fat, ch) /\ ch[1] = HeadOf(e)
                /\ \A i \in DOMAIN ch : disk[ch[i]].data \in Blocks
    BY <1>3 DEF Consistent, EntriesLead
  <2> QED
    BY <2>1, WriteKeepsChain
<1>4. IF buf = <<>>
      THEN /\ cl[1] \in Data /\ fat'[cl[1]] = EOF
           /\ disk'[cl[1]] = DirTable(name, parent)
      ELSE /\ cl \in SeqUpTo(Data, MaxFragments)
           /\ IsChain(fat', cl)
           /\ \A i \in DOMAIN cl : disk'[cl[i]].data \in Blocks
  BY WriteNewEntry
<1>5. /\ DirTable(name, parent).dir
      /\ DirTable(name, parent).up = parent
      /\ DirTable(name, parent).name = name
  BY TableType, Numbers
<1>6. EntriesLead'
  <2>1. ASSUME NEW e \in Live'
        PROVE  IF EntryAt(e)'.dir
               THEN /\ HeadOf(e)' \in Data
                    /\ fat'[HeadOf(e)'] = EOF
                    /\ disk'[HeadOf(e)'].dir
                    /\ disk'[HeadOf(e)'].up = e[1]
                    /\ disk'[HeadOf(e)'].name = EntryAt(e)'.name
               ELSE \E ch \in SeqUpTo(Data, MaxFragments) :
                       /\ IsChain(fat', ch) /\ ch[1] = HeadOf(e)'
                       /\ \A i \in DOMAIN ch : disk'[ch[i]].data \in Blocks
    <3>1. CASE e \in Live
      BY <1>1, <1>2, <1>3, <3>1
    <3>2. CASE e = <<parent, s>>
      BY <1>1, <1>4, <1>5, <1>8, <3>2
    <3> QED
      BY <1>1, <3>1, <3>2
  <2> QED
    BY <2>1 DEF EntriesLead
<1>7. ASSUME NEW e \in Live'
      PROVE  HeadOf(e)' # e[1]
  <2>1. CASE e \in Live
    BY <1>1, <2>1 DEF Consistent, TablesPlain
  <2>2. CASE e = <<parent, s>>
    <3>1. 1 \in 1 .. Len(cl) /\ cl[1] \in Range(cl)
      BY DEF ClustersAfterWrite
    <3>2. cl[1] # parent
      BY <3>1 DEF ClustersAfterWrite
    <3> QED
      BY <1>1, <2>2, <3>2
  <2> QED
    BY <1>1, <2>1, <2>2
<1> QED
  BY <1>6, <1>7

LEMMA WriteConsistent ==
    ASSUME Consistent, NEW parent \in Parents, NEW name \in Names,
           NEW buf \in Buffers, WriteEntry(parent, name, buf)
    PROVE  Consistent'
<1>1. TypeOK'
  BY WriteEntryType DEF Consistent
<1>2. PICK s, cl : WriteFacts(parent, s, name, buf, cl)
  BY WriteEffects
<1>3. ~exhausted
  BY WriteEffects
<1>4. /\ MarksAgree' /\ NamesUnique' /\ FreeIsBlank'
      /\ \A c \in Data : disk'[c].dir => disk'[c].data = NoBlock
  BY <1>1, <1>2, WriteTables
<1>5. ASSUME ~exhausted'
      PROVE  LinksLead' /\ NoCrossLink' /\ EntriesLead'
             /\ \A e \in Live' : HeadOf(e)' # e[1]
  <2>1. EntriesAfterWrite(parent, s, name, buf, cl)
    BY <1>1, <1>2, WriteLive
  <2>2. ClustersAfterWrite(parent, name, buf, cl)
    BY <1>2, <1>5, WriteClusters
  <2> QED
    BY <1>2, <1>3, <2>1, <2>2, WriteLinks, WriteLeads
<1>6. LinksLead' /\ NoCrossLink' /\ EntriesLead' /\ TablesPlain'
  BY <1>4, <1>5 DEF LinksLead, NoCrossLink, EntriesLead, TablesPlain
<1>7. Fresh' /\ CacheCoherent'
  BY DEF Fresh, CacheCoherent, WriteEntry, Calling, Consistent
<1> QED
  BY <1>1, <1>4, <1>6, <1>7 DEF Consistent

----------------------------------------------------------------------------
(* Deleting. *)

\* What a delete does, cluster by cluster: gone are the clusters it frees.
EraseFacts(parent, s, ch, gone) ==
    /\ <<parent, s>> \in Live
    /\ ch \in SeqUpTo(Data, MaxFragments)
    /\ IsChain(fat, ch)
    /\ ch[1] = HeadOf(<<parent, s>>)
    /\ gone = Range(ch)
    /\ \A c \in gone : /\ c \in Data /\ fat[c] # EMPTY /\ c # parent
                       /\ fat'[c] = EMPTY /\ disk'[c] = Blank
    /\ \A c \in Data : c \notin gone => fat'[c] = fat[c]
    /\ \A c \in Clusters : c \notin gone =>
         /\ disk'[c].dir = disk[c].dir /\ disk'[c].up = disk[c].up
         /\ disk'[c].name = disk[c].name /\ disk'[c].data = disk[c].data
         /\ c # parent => disk'[c] = disk[c]
    /\ disk'[parent].slot = [disk[parent].slot EXCEPT ![s] = Reset(@)]
    /\ \A c \in Data : fat[c] \in gone => c \in gone
    /\ \A e \in Live : e # <<parent, s>> => HeadOf(e) \notin gone

\* The clusters of an entry: its chain, which the parent is not part of.
LEMMA OwnedChain ==
    ASSUME Consistent, ~exhausted, NEW e \in Live,
           NEW ch \in SeqUpTo(Data, MaxFragments), Occupies(EntryAt(e), ch)
    PROVE  IsChain(fat, ch) /\ ch[1] = HeadOf(e) /\ e[1] \notin Range(ch)
<1>0. MaxFragments \in Nat
  BY SizesAssumption
<1>1. e[1] \in Parents /\ disk[e[1]].dir
  BY DEF Live
<1>2. CASE EntryAt(e).dir
  <2>1. ch = <<HeadOf(e)>> /\ fat[HeadOf(e)] = EOF
    BY <1>2 DEF Consistent, EntriesLead, Occupies, HeadOf
  <2>2. Len(ch) = 1 /\ DOMAIN ch = {1} /\ ch[1] = HeadOf(e) /\ ch # <<>>
    BY <2>1
  <2>3. IsChain(fat, ch)
    BY <2>1, <2>2 DEF IsChain
  <2>4. HeadOf(e) # e[1]
    BY DEF Consistent, TablesPlain
  <2> QED
    BY <2>2, <2>3, <2>4 DEF Range
<1>3. CASE ~EntryAt(e).dir
  <2>1. IsChain(fat, ch) /\ ch[1] = HeadOf(e)
    BY <1>3 DEF Occupies, HeadOf
  <2>2. PICK ch2 \in SeqUpTo(Data, MaxFragments) :
                /\ IsChain(fat, ch2) /\ ch2[1] = HeadOf(e)
                /\ \A i \in DOMAIN ch2 : disk[ch2[i]].data \in Blocks
    BY <1>3 DEF Consistent, EntriesLead
  <2>3. ChainShape(fat, ch) /\ ChainShape(fat, ch2)
    BY <1>0, <2>1, <2>2, ChainFacts
  <2>4. Len(ch) \in Nat /\ Len(ch2) \in Nat
    BY <2>3 DEF ChainShape
  <2>5. Range(ch) = Range(ch2)
    <3>1. CASE Len(ch) <= Len(ch2)
      BY <1>0, <2>1, <2>2, <3>1, ChainUnique
    <3>2. CASE Len(ch2) <= Len(ch)
      BY <1>0, <2>1, <2>2, <3>2, ChainUnique
    <3> QED
      BY <2>4, <3>1, <3>2
  <2>6. ASSUME e[1] \in Range(ch)
        PROVE  FALSE
    <3>1. PICK i \in DOMAIN ch2 : ch2[i] = e[1]
      BY <2>5, <2>6 DEF Range
    <3>2. e[1] \in Data /\ disk[e[1]].data \in Blocks
      BY <2>2, <2>3, <3>1 DEF ChainShape
    <3> QED
      BY <1>1, <3>2, NamesAssumption DEF Consistent, TablesPlain
  <2> QED
    BY <2>1, <2>6
<1> QED
  BY <1>2, <1>3

\* Links into the chain of an entry come from the chain itself, and no other
\* entry starts in it.
LEMMA ChainClosed ==
    ASSUME Consistent, ~exhausted, NEW e \in Live,
           NEW ch \in SeqUpTo(Data, MaxFragments), IsChain(fat, ch),
           ch[1] = HeadOf(e)
    PROVE  /\ \A c \in Data : fat[c] \in Range(ch) => c \in Range(ch)
           /\ \A d \in Live : d # e => HeadOf(d) \notin Range(ch)
<1>0. MaxFragments \in Nat
  BY SizesAssumption
<1>1. ChainShape(fat, ch)
  BY <1>0, ChainFacts
<1>2. DOMAIN ch = 1 .. Len(ch) /\ Len(ch) \in Nat
  BY <1>1 DEF ChainShape
<1>3. ASSUME NEW i \in 1 .. Len(ch), i # 1
      PROVE  /\ i - 1 \in 1 .. Len(ch) /\ fat[ch[i - 1]] = ch[i]
             /\ ch[i - 1] \in Data /\ ch[i] \in Data
  <2>1. i > 1
    BY <1>3
  <2> QED
    BY <1>1, <2>1 DEF ChainShape
<1>4. ASSUME NEW c \in Data, fat[c] \in Range(ch)
      PROVE  c \in Range(ch)
  <2>1. PICK i \in 1 .. Len(ch) : fat[c] = ch[i]
    BY <1>2, <1>4 DEF Range
  <2>2. i # 1
    BY <2>1 DEF Consistent, NoCrossLink
  <2>3. c = ch[i - 1]
    BY <1>3, <2>1, <2>2 DEF Consistent, NoCrossLink
  <2> QED
    BY <1>2, <1>3, <2>2, <2>3 DEF Range
<1>5. ASSUME NEW d \in Live, d # e, HeadOf(d) \in Range(ch)
      PROVE  FALSE
  <2>1. PICK i \in 1 .. Len(ch) : HeadOf(d) = ch[i]
    BY <1>2, <1>5 DEF Range
  <2>2. CASE i = 1
    BY <1>5, <2>1, <2>2 DEF Consistent, NoCrossLink
  <2>3. CASE i # 1
    BY <1>3, <2>1, <2>3 DEF Consistent, NoCrossLink
  <2> QED
    BY <2>2, <2>3
<1> QED
  BY <1>4, <1>5

LEMMA EraseEffects ==
    ASSUME Consistent, ~exhausted, NEW parent \in Parents, NEW s \in Slots,
           disk[parent].dir, disk[parent].slot[s].name \in Names,
           EraseEntry(parent, s)
    PROVE  \E ch, gone : EraseFacts(parent, s, ch, gone)
<1>1. PICK junk \in Garbage, ch \in SeqUpTo(Data, MaxFragments),
           count \in {fat[INDEX] - 1, fat[INDEX]} :
             /\ Occupies(disk[parent].slot[s], ch)
             /\ disk' = Erased(parent, s, Range(ch))
             /\ fat' = [Freed(fat, Range(ch)) EXCEPT ![INDEX] = count]
  BY DEF EraseEntry
<1> DEFINE e == <<parent, s>>
<1>2. e \in Live /\ EntryAt(e) = disk[parent].slot[s]
  BY NamesAssumption DEF Live, EntryAt, Consistent, MarksAgree
<1>3. IsChain(fat, ch) /\ ch[1] = HeadOf(e) /\ parent \notin Range(ch)
  <2>1. Occupies(EntryAt(e), ch)
    BY <1>1, <1>2
  <2> HIDE DEF e
  <2>2. IsChain(fat, ch) /\ ch[1] = HeadOf(e) /\ e[1] \notin Range(ch)
    BY <1>2, <2>1, OwnedChain
  <2> QED
    BY <2>2 DEF e
<1>4. /\ \A c \in Data : fat[c] \in Range(ch) => c \in Range(ch)
      /\ \A d \in Live : d # e => HeadOf(d) \notin Range(ch)
  <2> HIDE DEF e
  <2> QED
    BY <1>2, <1>3, ChainClosed
<1>5. ASSUME NEW c \in Range(ch)
      PROVE  c \in Data /\ fat[c] # EMPTY
  <2>0. MaxFragments \in Nat
    BY SizesAssumption
  <2>1. ChainShape(fat, ch)
    BY <1>3, <2>0, ChainFacts
  <2>2. PICK i \in DOMAIN ch : c = ch[i]
    BY DEF Range
  <2> QED
    BY <2>1, <2>2 DEF ChainShape
<1>6. ASSUME NEW c \in Range(ch)
      PROVE  fat'[c] = EMPTY /\ disk'[c] = Blank
  <2>1. c \in Clusters /\ c # INDEX /\ c # parent
    BY <1>3, <1>5, Numbers
  <2> QED
    BY <1>1, <2>1 DEF Freed, Erased
<1>7. ASSUME NEW c \in Data, c \notin Range(ch)
      PROVE  fat'[c] = fat[c]
  <2>1. c \in Clusters /\ c # INDEX
    BY Numbers
  <2> QED
    BY <1>1, <1>7, <2>1 DEF Freed
<1>8. parent \in Clusters /\ disk[parent] \in Content
  BY Numbers DEF Consistent, TypeOK
<1>9. disk'[parent] = [disk[parent] EXCEPT !.slot[s] = Reset(@)]
  BY <1>1, <1>8 DEF Erased
<1>10. ASSUME NEW c \in Clusters, c \notin Range(ch)
       PROVE  /\ disk'[c].dir = disk[c].dir /\ disk'[c].up = disk[c].up
              /\ disk'[c].name = disk[c].name /\ disk'[c].data = disk[c].data
              /\ c # parent => disk'[c] = disk[c]
  <2>1. CASE c = parent
    BY <1>8, <1>9, <2>1 DEF Content
  <2>2. CASE c # parent
    BY <1>1, <1>10, <2>2 DEF Erased
  <2> QED
    BY <2>1, <2>2
<1>11. disk'[parent].slot = [disk[parent].slot EXCEPT ![s] = Reset(@)]
  BY <1>8, <1>9 DEF Content
<1>12. EraseFacts(parent, s, ch, Range(ch))
  BY <1>2, <1>3, <1>4, <1>5, <1>6, <1>7, <1>10, <1>11 DEF EraseFacts
<1> QED
  BY <1>12

\* The entries after a delete: those before it but one, as they were.
LEMMA EraseEntries ==
    ASSUME Consistent, NEW parent \in Parents, NEW s \in Slots, NEW ch,
           NEW gone, EraseFacts(parent, s, ch, gone)
    PROVE  /\ \A d \in Parents, t \in Slots :
                IF d \in gone \/ <<d, t>> = <<parent, s>>
                THEN /\ ~disk'[d].slot[t].undelete
                     /\ disk'[d].slot[t].name = NoName
                ELSE disk'[d].slot[t] = disk[d].slot[t]
           /\ \A e \in Live' : /\ e \in Live /\ e # <<parent, s>>
                               /\ EntryAt(e)' = EntryAt(e)
                               /\ HeadOf(e)' = HeadOf(e)
<1>1. parent \in Clusters /\ disk[parent].slot \in [Slots -> Entry]
  BY Numbers DEF Consistent, TypeOK, Content
<1>2. /\ disk'[parent].slot[s] = Reset(disk[parent].slot[s])
      /\ \A t \in Slots : t # s => disk'[parent].slot[t] = disk[parent].slot[t]
  BY <1>1 DEF EraseFacts
<1>3. /\ ~Reset(disk[parent].slot[s]).undelete
      /\ Reset(disk[parent].slot[s]).name = NoName
  BY DEF Reset, FreeEntry
<1>4. ASSUME NEW d \in Parents, NEW t \in Slots
      PROVE  IF d \in gone \/ <<d, t>> = <<parent, s>>
             THEN /\ ~disk'[d].slot[t].undelete
                  /\ disk'[d].slot[t].name = NoName
             ELSE disk'[d].slot[t] = disk[d].slot[t]
  <2>1. CASE d \in gone
    <3>1. disk'[d] = Blank
      BY <2>1 DEF EraseFacts
    <3>2. disk'[d].slot[t] = FreeEntry
      BY <3>1, BlankType
    <3> QED
      BY <2>1, <3>2 DEF FreeEntry
  <2>2. CASE d \notin gone /\ d = parent
    BY <1>2, <1>3, <2>2
  <2>3. CASE d \notin gone /\ d # parent
    <3>1. disk'[d] = disk[d]
      BY <2>3, Numbers DEF EraseFacts
    <3> QED
      BY <2>3, <3>1
  <2> QED
    BY <2>1, <2>2, <2>3
<1>5. ASSUME NEW e \in Live'
      PROVE  /\ e \in Live /\ e # <<parent, s>>
             /\ EntryAt(e)' = EntryAt(e)
  <2>1. PICK d \in Parents, t \in Slots : e = <<d, t>>
    BY DEF Live
  <2>2. disk'[d].dir /\ disk'[d].slot[t].undelete
    BY <2>1 DEF Live
  <2>3. d \notin gone /\ <<d, t>> # <<parent, s>>
    BY <1>4, <2>2
  <2>4. disk'[d].slot[t] = disk[d].slot[t]
    BY <1>4, <2>3
  <2>5. disk[d].dir
    BY <2>2, <2>3, Numbers DEF EraseFacts
  <2> QED
    BY <2>1, <2>2, <2>3, <2>4, <2>5 DEF Live, EntryAt
<1> QED
  BY <1>4, <1>5 DEF HeadOf

\* A delete keeps the tables.
LEMMA EraseTables ==
    ASSUME Consistent, NEW parent \in Parents, NEW s \in Slots, NEW ch,
           NEW gone, EraseFacts(parent, s, ch, gone)
    PROVE  /\ MarksAgree' /\ NamesUnique' /\ FreeIsBlank'
           /\ \A c \in Data : disk'[c].dir => disk'[c].data = NoBlock
<1>1. /\ \A d \in Parents, t \in Slots :
           IF d \in gone \/ <<d, t>> = <<parent, s>>
           THEN /\ ~disk'[d].slot[t].undelete
                /\ disk'[d].slot[t].name = NoName
           ELSE disk'[d].slot[t] = disk[d].slot[t]
      /\ \A e \in Live' : /\ e \in Live /\ e # <<parent, s>>
                          /\ EntryAt(e)' = EntryAt(e)
  BY EraseEntries
<1>2. MarksAgree'
  BY <1>1 DEF Consistent, MarksAgree
<1>3. ASSUME NEW e \in Live', NEW t \in Slots,
             disk'[e[1]].slot[t].name = EntryAt(e)'.name
      PROVE  t = e[2]
  <2>1. PICK d \in Parents, u \in Slots : e = <<d, u>>
    BY DEF Live
  <2>2. e \in Live /\ EntryAt(e)' = EntryAt(e)
    BY <1>1
  <2>3. EntryAt(e).name # NoName
    BY <2>1, <2>2 DEF Live, EntryAt, Consistent, MarksAgree
  <2>4. disk'[d].slot[t].name # NoName
    BY <1>3, <2>1, <2>2, <2>3
  <2>5. disk'[d].slot[t] = disk[d].slot[t]
    BY <1>1, <2>4
  <2>6. disk[d].slot[t].name = EntryAt(e).name
    BY <1>3, <2>1, <2>2, <2>5
  <2> QED
    BY <2>1, <2>2, <2>6 DEF Consistent, NamesUnique
<1>4. ASSUME NEW c \in Data
      PROVE  /\ fat'[c] = EMPTY => disk'[c] = Blank
             /\ disk'[c].dir => disk'[c].data = NoBlock
  <2>1. CASE c \in gone
    <3>1. disk'[c] = Blank
      BY <2>1 DEF EraseFacts
    <3> QED
      BY <3>1, BlankType
  <2>2. CASE c \notin gone
    <3>1. /\ fat'[c] = fat[c] /\ disk'[c].dir = disk[c].dir
          /\ disk'[c].data = disk[c].data
          /\ c # parent => disk'[c] = disk[c]
      BY <2>2, Numbers DEF EraseFacts
    <3>2. fat[c] = EMPTY => c # parent
      BY BlankType DEF EraseFacts, Live, Consistent, FreeIsBlank
    <3> QED
      BY <3>1, <3>2 DEF Consistent, FreeIsBlank, TablesPlain
  <2> QED
    BY <2>1, <2>2
<1> QED
  BY <1>2, <1>3, <1>4 DEF NamesUnique, FreeIsBlank

\* A delete keeps the chains.
\* A chain of another entry avoids the clusters that a deletion gives back.
LEMMA EraseKeepsChain ==
    ASSUME Consistent, ~exhausted, NEW parent \in Parents, NEW s \in Slots,
           NEW ch, NEW gone, EraseFacts(parent, s, ch, gone),
           NEW e \in Live, e # <<parent, s>>,
           NEW ch2 \in SeqUpTo(Data, MaxFragments), IsChain(fat, ch2),
           ch2[1] = HeadOf(e)
    PROVE  /\ IsChain(fat', ch2)
           /\ \A i \in DOMAIN ch2 : /\ ch2[i] \notin gone
                                    /\ disk'[ch2[i]].data = disk[ch2[i]].data
<1>0. MaxFragments \in Nat
  BY SizesAssumption
<1>1. ChainShape(fat, ch2)
  BY <1>0, ChainFacts
<1>2. Range(ch2) \cap gone = {}
  <2>1. /\ ch \in SeqUpTo(Data, MaxFragments) /\ IsChain(fat, ch)
        /\ ch[1] = HeadOf(<<parent, s>>) /\ <<parent, s>> \in Live
        /\ gone = Range(ch)
    BY DEF EraseFacts
  <2>2. Injective(fat) /\ NoLinkTo(fat, ch[1]) /\ NoLinkTo(fat, ch2[1])
    BY <2>1 DEF Injective, NoLinkTo, Consistent, NoCrossLink
  <2>3. ch2[1] # ch[1]
    BY <2>1 DEF Consistent, NoCrossLink
  <2> QED
    BY <1>0, <2>1, <2>2, <2>3, ChainsDisjoint
<1>3. ASSUME NEW i \in DOMAIN ch2
      PROVE  /\ ch2[i] \notin gone
             /\ fat'[ch2[i]] = fat[ch2[i]]
             /\ disk'[ch2[i]].data = disk[ch2[i]].data
  <2>1. ch2[i] \in Data
    BY <1>1 DEF ChainShape
  <2>2. ch2[i] \notin gone
    BY <1>2 DEF Range
  <2> QED
    BY <2>1, <2>2, Numbers DEF EraseFacts
<1> QED
  BY <1>3 DEF IsChain

LEMMA EraseLinks ==
    ASSUME Consistent, ~exhausted, NEW parent \in Parents, NEW s \in Slots,
           NEW ch, NEW gone, EraseFacts(parent, s, ch, gone)
    PROVE  /\ LinksLead' /\ NoCrossLink' /\ EntriesLead'
           /\ \A e \in Live' : HeadOf(e)' # e[1]
<1>1. \A e \in Live' : /\ e \in Live /\ e # <<parent, s>>
                       /\ EntryAt(e)' = EntryAt(e) /\ HeadOf(e)' = HeadOf(e)
  BY EraseEntries
<1>2. /\ \A c \in gone : c \in Data /\ fat'[c] = EMPTY
      /\ \A c \in Data : c \notin gone => fat'[c] = fat[c]
      /\ \A c \in Data : fat[c] \in gone => c \in gone
      /\ \A e \in Live : e # <<parent, s>> => HeadOf(e) \notin gone
  BY DEF EraseFacts
<1>3. \A e \in Live : HeadOf(e) \in Data
  BY UsedFacts
<1>4. LinksLead'
  <2>1. ASSUME NEW c \in Data
        PROVE  \/ fat'[c] \in {EMPTY, EOF}
               \/ fat'[c] \in Data /\ fat'[fat'[c]] # EMPTY
    <3>1. \/ fat[c] \in {EMPTY, EOF}
          \/ fat[c] \in Data /\ fat[fat[c]] # EMPTY
      BY DEF Consistent, LinksLead
    <3> QED
      BY <1>2, <3>1
  <2> QED
    BY <2>1 DEF LinksLead
<1>5. NoCrossLink'
  <2>1. \A e1, e2 \in Live' : HeadOf(e1)' = HeadOf(e2)' => e1 = e2
    BY <1>1 DEF Consistent, NoCrossLink
  <2>2. ASSUME NEW c1 \in Data, NEW c2 \in Data, fat'[c1] = fat'[c2],
               fat'[c1] \in Data
        PROVE  c1 = c2
    <3>1. c1 \notin gone /\ c2 \notin gone
      BY <1>2, <2>2, Numbers
    <3> QED
      BY <1>2, <2>2, <3>1 DEF Consistent, NoCrossLink
  <2>3. ASSUME NEW e \in Live', NEW c \in Data
        PROVE  fat'[c] # HeadOf(e)'
    <3>1. CASE c \in gone
      BY <1>1, <1>2, <1>3, <3>1, Numbers
    <3>2. CASE c \notin gone
      BY <1>1, <1>2, <3>2 DEF Consistent, NoCrossLink
    <3> QED
      BY <3>1, <3>2
  <2> QED
    BY <2>1, <2>2, <2>3 DEF NoCrossLink
<1>6. \A c \in Data : c \notin gone =>
         /\ disk'[c].dir = disk[c].dir /\ disk'[c].up = disk[c].up
         /\ disk'[c].name = disk[c].name /\ disk'[c].data = disk[c].data
  BY Numbers DEF EraseFacts
<1>7. ASSUME NEW e \in Live'
      PROVE  IF EntryAt(e)'.dir
             THEN /\ HeadOf(e)' \in Data
                  /\ fat'[HeadOf(e)'] = EOF
                  /\ disk'[HeadOf(e)'].dir
                  /\ disk'[HeadOf(e)'].up = e[1]
                  /\ disk'[HeadOf(e)'].name = EntryAt(e)'.name
             ELSE \E ch2 \in SeqUpTo(Data, MaxFragments) :
                     /\ IsChain(fat', ch2) /\ ch2[1] = HeadOf(e)'
                     /\ \A i \in DOMAIN ch2 : disk'[ch2[i]].data \in Blocks
  <2>1. /\ e \in Live /\ e # <<parent, s>>
        /\ EntryAt(e)' = EntryAt(e) /\ HeadOf(e)' = HeadOf(e)
    BY <1>1
  <2>2. HeadOf(e) \in Data /\ HeadOf(e) \notin gone
    BY <1>2, <1>3, <2>1
  <2>3. CASE EntryAt(e).dir
    <3>1. /\ fat[HeadOf(e)] = EOF /\ disk[HeadOf(e)].dir
          /\ disk[HeadOf(e)].up = e[1]
          /\ disk[HeadOf(e)].name = EntryAt(e).name
      BY <2>1, <2>3 DEF Consistent, EntriesLead
    <3> QED
      BY <1>2, <1>6, <2>1, <2>2, <2>3, <3>1
  <2>4. CASE ~EntryAt(e).dir
    <3>1. PICK ch2 \in SeqUpTo(Data, MaxFragments) :
                  /\ IsChain(fat, ch2) /\ ch2[1] = HeadOf(e)
                  /\ \A i \in DOMAIN ch2 : disk[ch2[i]].data \in Blocks
      BY <2>1, <2>4 DEF Consistent, EntriesLead
    <3>2. /\ IsChain(fat', ch2)
          /\ \A i \in DOMAIN ch2 : disk'[ch2[i]].data = disk[ch2[i]].data
      BY <2>1, <3>1, EraseKeepsChain
    <3> QED
      BY <2>1, <2>4, <3>1, <3>2
  <2> QED
    BY <2>3, <2>4
<1>8. EntriesLead'
  BY <1>7 DEF EntriesLead
<1>9. \A e \in Live' : HeadOf(e)' # e[1]
  BY <1>1 DEF Consistent, TablesPlain
<1> QED
  BY <1>4, <1>5, <1>8, <1>9

LEMMA EraseConsistent ==
    ASSUME Consistent, Calling, NEW parent \in Parents, NEW s \in Slots,
           disk[parent].dir, disk[parent].slot[s].name \in Names,
           EraseEntry(parent, s)
    PROVE  Consistent'
<1>1. TypeOK' /\ ~exhausted
  BY EraseEntryType DEF Consistent, Calling
<1>2. PICK ch, gone : EraseFacts(parent, s, ch, gone)
  BY <1>1, EraseEffects
<1>3. /\ MarksAgree' /\ NamesUnique' /\ FreeIsBlank'
      /\ \A c \in Data : disk'[c].dir => disk'[c].data = NoBlock
  BY <1>2, EraseTables
<1>4. /\ LinksLead' /\ NoCrossLink' /\ EntriesLead'
      /\ \A e \in Live' : HeadOf(e)' # e[1]
  BY <1>1, <1>2, EraseLinks
<1>5. Fresh' /\ CacheCoherent'
  BY DEF Fresh, CacheCoherent, EraseEntry, Calling, Consistent
<1>6. TablesPlain'
  BY <1>3, <1>4 DEF TablesPlain
<1> QED
  BY <1>1, <1>3, <1>4, <1>5, <1>6 DEF Consistent

----------------------------------------------------------------------------
(* The theorems. *)

\* Every call keeps the disk consistent.
LEMMA NextConsistent == Consistent /\ [Next]_vars => Consistent'
<1> SUFFICES ASSUME Consistent, [Next]_vars
             PROVE  Consistent'
  OBVIOUS
<1>1. CASE Power
  BY <1>1, FormatConsistent, LoadConsistent DEF Power
<1>2. CASE Write
  BY <1>2, AnswerConsistent, WriteConsistent DEF Write, WriteInvalidParent,
     WriteAlreadyExists, WriteNoRoom
<1>3. CASE Delete
  <2>1. PICK parent \in Parents, name \in Names :
               \/ DeleteInvalidParent(parent)
               \/ DeleteNotFound(parent, name)
               \/ DeleteFound(parent, name)
    BY <1>3 DEF Delete
  <2>2. CASE DeleteInvalidParent(parent) \/ DeleteNotFound(parent, name)
    BY <2>2, AnswerConsistent DEF DeleteInvalidParent, DeleteNotFound
  <2>3. CASE DeleteFound(parent, name)
    <3>1. Calling /\ disk[parent].dir
      BY <2>3 DEF DeleteFound
    <3>2. PICK s \in FirstNamed(disk[parent], name) :
                 \/ AnswerOnly("delete", 2, <<>>)
                 \/ EraseEntry(parent, s)
      BY <2>3 DEF DeleteFound
    <3>3. s \in Slots /\ disk[parent].slot[s].name \in Names
      BY <3>2, FoundSlot
    <3> QED
      BY <3>1, <3>2, <3>3, AnswerConsistent, EraseConsistent
  <2> QED
    BY <2>1, <2>2, <2>3
<1>4. CASE Read \/ ReadEmptyName \/ Browse
  BY <1>4, LookConsistent
<1>5. CASE UNCHANGED vars
  <2>1. DiskConsistent'
    BY <1>5, DiskQuiet DEF vars, Consistent, DiskConsistent
  <2> QED
    BY <1>5, <2>1 DEF vars, Consistent, DiskConsistent, Fresh, CacheCoherent,
       TypeOK
<1> QED
  BY <1>1, <1>2, <1>3, <1>4, <1>5 DEF Next

\* The invariant of the disk holds in every state of the driver.
THEOREM DiskStaysConsistent == Spec => []Consistent
BY ConsistentInit, NextConsistent, PTL DEF Spec

\* No two files or directories ever share a cluster, whatever the sequence of
\* writes, deletes and restarts.
THEOREM ClustersNotShared == Spec => []NoCrossLink
<1>1. Consistent => NoCrossLink
  BY DEF Consistent
<1> QED
  BY <1>1, DiskStaysConsistent, PTL

\* Every entry leads to what was written for it: a complete chain of payloads,
\* or a table that leads back to its parent.
THEOREM EntriesStayWhole == Spec => []EntriesLead
<1>1. Consistent => EntriesLead
  BY DEF Consistent
<1> QED
  BY <1>1, DiskStaysConsistent, PTL

\* The bytes of a deleted file never show in what is created after it.
THEOREM FreeStaysBlank == Spec => []FreeIsBlank
<1>1. Consistent => FreeIsBlank
  BY DEF Consistent
<1> QED
  BY <1>1, DiskStaysConsistent, PTL

\* A directory never holds two entries in use with one name.
THEOREM NamesStayUnique == Spec => []NamesUnique
<1>1. Consistent => NamesUnique
  BY DEF Consistent
<1> QED
  BY <1>1, DiskStaysConsistent, PTL

\* The two marks of a free entry, which different calls read, always agree.
THEOREM MarksStayInStep == Spec => []MarksAgree
<1>1. Consistent => MarksAgree
  BY DEF Consistent
<1> QED
  BY <1>1, DiskStaysConsistent, PTL

\* read never follows a copy of the FAT that an earlier call left stale.
THEOREM CacheStaysCurrent == Spec => []CacheCoherent
<1>1. Consistent => CacheCoherent
  BY DEF Consistent
<1> QED
  BY <1>1, DiskStaysConsistent, PTL

----------------------------------------------------------------------------
(* The index.  While its records fit in its three clusters, every file and  *)
(* directory of the disk has one: whereis never misses a name.              *)

\* Every entry in use has its record.
AllListed ==
    ~exhausted =>
        \A e \in Live : \E i \in DOMAIN index :
            index[i] = <<EntryAt(e).name, e[1]>>

\* The count is the length, which an insertion and a deletion go by.
Listed ==
    /\ Len(index) = fat[INDEX]
    /\ AllListed

RecordOf(e) == <<EntryAt(e).name, e[1]>>

HasRecord(table, record) == \E i \in DOMAIN table : table[i] = record

----------------------------------------------------------------------------
(* The index as a call loads it, adds to it and takes from it. *)

LEMMA IndexShape ==
    ASSUME TypeOK, Listed
    PROVE  /\ index \in Seq(Record \cup {NoRecord})
           /\ Len(index) \in Nat /\ fat[INDEX] = Len(index)
           /\ DOMAIN index = 1 .. Len(index)
           /\ index = [i \in 1 .. Len(index) |-> index[i]]
BY DEF TypeOK, Listed

\* Nothing of the stack shows in the index that is loaded.
LEMMA LoadedIndex ==
    ASSUME TypeOK, Listed, NEW junk
    PROVE  Loaded(junk) = index
<1>1. /\ fat[INDEX] = Len(index)
      /\ index = [i \in 1 .. Len(index) |-> index[i]]
  BY IndexShape
<1>2. Loaded(junk) = [i \in 1 .. Len(index) |-> index[i]]
  BY <1>1 DEF Loaded
<1> QED
  BY <1>1, <1>2

\* An insertion that fits adds its record and loses none.
LEMMA InsertedIndex ==
    ASSUME TypeOK, Listed, NEW name \in Names, NEW parent \in Parents, NEW junk,
           InsertIndex(name, parent, junk), Len(index) + 1 <= IndexCapacity
    PROVE  /\ Len(index') = Len(index) + 1
           /\ HasRecord(index', <<name, parent>>)
           /\ \A r : HasRecord(index, r) => HasRecord(index', r)
<1> DEFINE longer == Append(index, <<name, parent>>)
<1>1. index \in Seq(Record \cup {NoRecord}) /\ <<name, parent>> \in Record
  BY IndexShape DEF Record
<1>2. /\ longer \in Seq(Record \cup {NoRecord})
      /\ Len(longer) = Len(index) + 1
      /\ DOMAIN longer = 1 .. (Len(index) + 1)
      /\ longer[Len(index) + 1] = <<name, parent>>
      /\ \A i \in 1 .. Len(index) : longer[i] = index[i]
  BY <1>1
<1>3. index' = longer
  BY <1>2, LoadedIndex DEF InsertIndex, Stored
<1>4. Len(index) \in Nat /\ DOMAIN index = 1 .. Len(index)
  BY IndexShape
<1> HIDE DEF longer
<1>5. Len(index) + 1 \in DOMAIN index'
  BY <1>2, <1>3, <1>4
<1>6. \A i \in DOMAIN index : i \in DOMAIN index' /\ index'[i] = index[i]
  BY <1>2, <1>3, <1>4
<1> QED
  BY <1>2, <1>3, <1>5, <1>6 DEF HasRecord

\* A deletion takes no record but its own, and the count follows.
LEMMA DeletedIndex ==
    ASSUME TypeOK, Listed, IndexRoom, NEW name, NEW parent, NEW junk, NEW count,
           DeleteIndex(name, parent, junk, count)
    PROVE  /\ Len(index') = count
           /\ \A r : r # <<name, parent>> /\ HasRecord(index, r)
                       => HasRecord(index', r)
<1>1. /\ Len(index) \in Nat /\ fat[INDEX] = Len(index)
      /\ DOMAIN index = 1 .. Len(index)
  BY IndexShape
<1>2. Loaded(junk) = index
  BY LoadedIndex
<1>3. CASE index' = index /\ count = fat[INDEX]
  BY <1>1, <1>3
<1>4. CASE \E i \in FirstRecord(index, <<name, parent>>) :
             index' = Stored(Without(index, i)) /\ count = fat[INDEX] - 1
  <2>1. PICK i \in 1 .. Len(index) :
               /\ index[i] = <<name, parent>>
               /\ index' = Stored(Without(index, i))
    BY <1>1, <1>4 DEF FirstRecord
  <2> DEFINE n == Len(index) - 1
  <2>2. n \in Nat /\ count = n
    BY <1>1, <1>4, <2>1
  <2>3. /\ Len(Without(index, i)) = n
        /\ DOMAIN Without(index, i) = 1 .. n
    BY <2>2 DEF Without
  <2>4. index' = Without(index, i)
    <3>1. n <= IndexCapacity
      BY <1>1, SizesAssumption DEF IndexRoom
    <3> QED
      BY <2>1, <2>3, <3>1 DEF Stored
  <2>5. ASSUME NEW j \in 1 .. Len(index), j # i
        PROVE  \E m \in 1 .. n : index'[m] = index[j]
    <3>1. CASE j < i
      <4>1. j \in 1 .. n
        BY <1>1, <2>1, <3>1
      <4>2. index'[j] = index[j]
        BY <2>4, <3>1, <4>1 DEF Without
      <4> QED
        BY <4>1, <4>2
    <3>2. CASE j > i
      <4>1. j - 1 \in 1 .. n /\ ~(j - 1 < i) /\ (j - 1) + 1 = j
        BY <1>1, <2>1, <3>2
      <4>2. index'[j - 1] = index[j]
        BY <2>4, <4>1 DEF Without
      <4> QED
        BY <4>1, <4>2
    <3> QED
      BY <1>1, <2>1, <2>5, <3>1, <3>2
  <2>6. ASSUME NEW r, r # <<name, parent>>, HasRecord(index, r)
        PROVE  HasRecord(index', r)
    <3>1. PICK j \in 1 .. Len(index) : index[j] = r
      BY <1>1, <2>6 DEF HasRecord
    <3>2. j # i
      BY <2>1, <2>6, <3>1
    <3>3. PICK m \in 1 .. n : index'[m] = index[j]
      BY <2>5, <3>2
    <3>4. m \in DOMAIN index'
      BY <2>3, <2>4
    <3> QED
      BY <3>1, <3>3, <3>4 DEF HasRecord
  <2> QED
    BY <2>2, <2>3, <2>4, <2>6
<1> QED
  BY <1>2, <1>3, <1>4 DEF DeleteIndex

----------------------------------------------------------------------------
(* The steps. *)

LEMMA ListedInit == Init => Listed
<1> SUFFICES ASSUME Init
             PROVE  Listed
  OBVIOUS
<1>1. \A c \in Clusters : disk[c] = Blank /\ fat[c] = EMPTY
  BY DEF Init, ZeroTable
<1>2. Live = {}
  BY <1>1, BlankType, Numbers DEF Live
<1>3. INDEX \in Clusters
  BY Numbers
<1> QED
  BY <1>1, <1>2, <1>3 DEF Init, Listed, AllListed, EMPTY

LEMMA ListedQuiet ==
    ASSUME Listed, UNCHANGED <<fat, disk, index, exhausted>>
    PROVE  Listed'
<1>1. Live' = Live /\ (\A e : EntryAt(e)' = EntryAt(e))
  BY DEF Live, EntryAt
<1> QED
  BY <1>1 DEF Listed, AllListed

\* A disk without the signature has no records, and formatting it makes none.
LEMMA ListedFormat ==
    ASSUME Consistent, Consistent', Listed, Format
    PROVE  Listed'
<1>1. INDEX \in Clusters /\ ROOT \in Clusters
  BY Numbers
<1>2. Len(index') = fat'[INDEX]
  <2>1. fat[INDEX] = 0
    BY <1>1 DEF Format, Consistent, Fresh, ZeroTable, EMPTY
  <2>2. fat'[INDEX] = 0
    BY <1>1 DEF Format, FormattedTable, INDEX, ROOT, EMPTY
  <2> QED
    BY <2>1, <2>2 DEF Format, Listed
<1>3. Live' = {}
  <2>1. \A c \in Clusters : disk[c] = Blank
    BY DEF Format, Consistent, Fresh
  <2>2. disk' = [disk EXCEPT ![ROOT] = DirTable(NoName, ROOT)]
        /\ disk \in [Clusters -> Content]
    BY DEF Format, Consistent, TypeOK
  <2>3. DirTable(NoName, ROOT).slot = Blank.slot
    BY <1>1, TableType
  <2>4. \A c \in Clusters : disk'[c].slot = Blank.slot
    BY <1>1, <2>1, <2>2, <2>3
  <2>5. \A s \in Slots : ~Blank.slot[s].undelete
    BY BlankType DEF FreeEntry
  <2> QED
    BY <2>4, <2>5, Numbers DEF Live
<1> QED
  BY <1>2, <1>3 DEF Listed, AllListed

LEMMA ListedWrite ==
    ASSUME Consistent, Consistent', Listed, IndexRoom',
           NEW parent \in Parents, NEW name \in Names, NEW buf \in Buffers,
           WriteEntry(parent, name, buf)
    PROVE  Listed'
<1>1. PICK s, cl : ~exhausted /\ WriteFacts(parent, s, name, buf, cl)
  BY WriteEffects
<1>2. EntriesAfterWrite(parent, s, name, buf, cl)
  BY <1>1, WriteLive DEF Consistent
<1>3. TypeOK /\ INDEX \in Clusters
  BY Numbers DEF Consistent
<1>4. PICK junk : InsertIndex(name, parent, junk)
  BY DEF WriteEntry
<1>5. fat'[INDEX] = fat[INDEX] + 1
  BY <1>3 DEF WriteEntry, Linked
<1>6. Len(index) = fat[INDEX] /\ Len(index) + 1 <= IndexCapacity
  BY <1>5 DEF Listed, IndexRoom
<1>7. /\ Len(index') = Len(index) + 1
      /\ HasRecord(index', <<name, parent>>)
      /\ \A r : HasRecord(index, r) => HasRecord(index', r)
  BY <1>3, <1>4, <1>6, InsertedIndex
<1>8. ASSUME NEW e \in Live'
      PROVE  HasRecord(index', RecordOf(e)')
  <2>1. CASE e = <<parent, s>>
    BY <1>2, <1>7, <2>1 DEF EntriesAfterWrite, RecordOf
  <2>2. CASE e # <<parent, s>>
    <3>1. e \in Live /\ EntryAt(e)' = EntryAt(e)
      BY <1>2, <2>2 DEF EntriesAfterWrite
    <3>2. HasRecord(index, RecordOf(e))
      BY <1>1, <3>1 DEF Listed, AllListed, HasRecord, RecordOf
    <3> QED
      BY <1>7, <3>1, <3>2 DEF RecordOf
  <2> QED
    BY <2>1, <2>2
<1> QED
  BY <1>5, <1>6, <1>7, <1>8 DEF Listed, AllListed, HasRecord, RecordOf

LEMMA ListedErase ==
    ASSUME Consistent, Listed, IndexRoom, ~exhausted,
           NEW parent \in Parents, NEW s \in Slots,
           disk[parent].dir, disk[parent].slot[s].name \in Names,
           EraseEntry(parent, s)
    PROVE  Listed'
<1> DEFINE name == disk[parent].slot[s].name
<1>1. PICK ch, gone : EraseFacts(parent, s, ch, gone)
  BY EraseEffects
<1>2. \A e \in Live' : /\ e \in Live /\ e # <<parent, s>>
                       /\ EntryAt(e)' = EntryAt(e)
  BY <1>1, EraseEntries
<1>3. TypeOK /\ INDEX \in Clusters
  BY Numbers DEF Consistent
<1>4. PICK junk, count : /\ DeleteIndex(name, parent, junk, count)
                         /\ fat'[INDEX] = count
  BY <1>3 DEF EraseEntry, Freed
<1>5. /\ Len(index') = count
      /\ \A r : r # <<name, parent>> /\ HasRecord(index, r)
                  => HasRecord(index', r)
  BY <1>3, <1>4, DeletedIndex
<1>6. ASSUME NEW e \in Live'
      PROVE  HasRecord(index', RecordOf(e)')
  <2>1. PICK d \in Parents, t \in Slots : e = <<d, t>>
    BY DEF Live
  <2>2. e \in Live /\ e # <<parent, s>> /\ EntryAt(e)' = EntryAt(e)
    BY <1>2
  <2>3. HasRecord(index, RecordOf(e))
    BY <2>2 DEF Listed, AllListed, HasRecord, RecordOf
  <2>4. RecordOf(e) # <<name, parent>>
    <3>1. SUFFICES ASSUME EntryAt(e).name = name, d = parent
                   PROVE  FALSE
      BY <2>1 DEF RecordOf
    <3>2. s = t
      BY <2>1, <2>2, <3>1 DEF Consistent, NamesUnique
    <3> QED
      BY <2>1, <2>2, <3>1, <3>2
  <2> QED
    BY <1>5, <2>2, <2>3, <2>4 DEF RecordOf
<1> QED
  BY <1>4, <1>5, <1>6 DEF Listed, AllListed, HasRecord, RecordOf

\* Every call keeps the index, as long as there is room in it.
LEMMA NextListed ==
    Consistent /\ Consistent' /\ IndexRoom /\ IndexRoom' /\ Listed /\ [Next]_vars
        => Listed'
<1> SUFFICES ASSUME Consistent, Consistent', IndexRoom, IndexRoom', Listed,
                    [Next]_vars
             PROVE  Listed'
  OBVIOUS
<1>1. CASE Power
  BY <1>1, ListedFormat, ListedQuiet DEF Power, Load, PowerOff
<1>2. CASE Write
  BY <1>2, ListedWrite, ListedQuiet DEF Write, WriteInvalidParent,
     WriteAlreadyExists, WriteNoRoom, AnswerOnly
<1>3. CASE Delete
  <2>1. PICK parent \in Parents, name \in Names :
               \/ DeleteInvalidParent(parent)
               \/ DeleteNotFound(parent, name)
               \/ DeleteFound(parent, name)
    BY <1>3 DEF Delete
  <2>2. CASE DeleteInvalidParent(parent) \/ DeleteNotFound(parent, name)
    BY <2>2, ListedQuiet DEF DeleteInvalidParent, DeleteNotFound, AnswerOnly
  <2>3. CASE DeleteFound(parent, name)
    <3>1. ~exhausted /\ disk[parent].dir
      BY <2>3 DEF DeleteFound, Calling
    <3>2. PICK s \in FirstNamed(disk[parent], name) :
                 \/ AnswerOnly("delete", 2, <<>>)
                 \/ EraseEntry(parent, s)
      BY <2>3 DEF DeleteFound
    <3>3. s \in Slots /\ disk[parent].slot[s].name \in Names
      BY <3>2, FoundSlot
    <3>4. CASE AnswerOnly("delete", 2, <<>>)
      BY <3>4, ListedQuiet DEF AnswerOnly
    <3>5. CASE EraseEntry(parent, s)
      BY <3>1, <3>3, <3>5, ListedErase
    <3> QED
      BY <3>2, <3>4, <3>5
  <2> QED
    BY <2>1, <2>2, <2>3
<1>4. CASE Read
  BY <1>4, ListedQuiet DEF Read, ReadInvalidParent, ReadNotFound, ReadNotAFile,
     ReadNotEnoughBuffer, ReadFile, AnswerCached
<1>5. CASE ReadEmptyName
  BY <1>5, ListedQuiet DEF ReadEmptyName, ReadNotFound, ReadNotEnoughBuffer,
     AnswerCached
<1>6. CASE Browse
  BY <1>6, ListedQuiet DEF Browse, ReadDirectory, MoveToChild, MoveToParent,
     GetChildren, GetDirPath, SearchIndex, AnswerCached, AnswerOnly
<1>7. CASE UNCHANGED vars
  BY <1>7, ListedQuiet DEF vars
<1> QED
  BY <1>1, <1>2, <1>3, <1>4, <1>5, <1>6, <1>7 DEF Next

----------------------------------------------------------------------------
(* The theorem. *)

\* As long as the three clusters hold the records that the count promises,
\* every entry in use, in any directory, has its record: no insertion or
\* deletion of another name, however the calls are mixed, loses it.
THEOREM NothingUnlisted == Spec /\ []IndexRoom => []IndexComplete
<1>1. Listed => IndexComplete
  BY DEF Listed, AllListed, IndexComplete
<1> QED
  BY <1>1, ListedInit, NextListed, DiskStaysConsistent, PTL DEF Spec

----------------------------------------------------------------------------
(* The count of the records. *)

LEMMA StartsFinite ==
    /\ IsFiniteSet(Starts) /\ Cardinality(Starts) \in Nat
    /\ IsFiniteSet(Starts') /\ Cardinality(Starts') \in Nat
<1>1. IsFiniteSet(Data)
  BY SizesAssumption, FS_Interval DEF Data, FIRST_DATA
<1>2. Starts \in SUBSET Data /\ Starts' \in SUBSET Data
  BY DEF Starts
<1> QED
  BY <1>1, <1>2, FS_Subset, FS_CardinalityType

\* A write that finds its clusters starts one chain, and ends none.
LEMMA WriteStarts ==
    ASSUME Consistent, ~exhausted, NEW parent, NEW name, NEW buf, NEW cl,
           ClustersAfterWrite(parent, name, buf, cl)
    PROVE  Cardinality(Starts') >= Cardinality(Starts) + 1
<1> DEFINE new == cl[1]
<1>1. /\ new \in Range(cl) /\ new \in Data /\ fat[new] = EMPTY
      /\ Range(cl) \subseteq Data
  BY DEF ClustersAfterWrite
<1>2. \A c \in Data : c \notin Range(cl) => fat'[c] = fat[c]
  BY DEF ClustersAfterWrite
<1>3. ASSUME NEW b \in Data, NEW c \in Data, fat[b] = c
      PROVE  fat[c] # EMPTY
  BY <1>3, UsedFacts
<1>4. ASSUME NEW b \in Range(cl)
      PROVE  /\ fat'[b] # EMPTY
             /\ \A c \in Data : fat'[b] = c => c \in Range(cl) /\ c # new
  <2>1. PICK i \in 1 .. Len(cl) : b = cl[i]
    BY DEF ClustersAfterWrite
  <2>2. Len(cl) \in Nat
    BY DEF ClustersAfterWrite
  <2>3. CASE i = Len(cl)
    BY <2>1, <2>3, Numbers DEF ClustersAfterWrite
  <2>4. CASE i < Len(cl)
    <3>1. /\ fat'[b] = cl[i + 1] /\ i + 1 \in 1 .. Len(cl)
          /\ 1 \in 1 .. Len(cl)
      BY <2>1, <2>4 DEF ClustersAfterWrite
    <3>2. i + 1 # 1
      BY <2>2
    <3>3. cl[i + 1] # new /\ cl[i + 1] \in Range(cl)
      BY <3>1, <3>2 DEF ClustersAfterWrite
    <3> QED
      BY <1>1, <3>1, <3>3, Numbers
  <2> QED
    BY <2>2, <2>3, <2>4
<1> HIDE DEF new
<1>5. new \in Starts'
  <2>1. ASSUME NEW b \in Data
        PROVE  fat'[b] # new
    <3>1. CASE b \in Range(cl)
      BY <1>1, <1>4, <3>1
    <3>2. CASE b \notin Range(cl)
      BY <1>1, <1>2, <1>3, <3>2
    <3> QED
      BY <3>1, <3>2
  <2> QED
    BY <1>1, <1>4, <2>1 DEF Starts
<1>6. ASSUME NEW c \in Starts
      PROVE  c \in Starts' /\ c # new
  <2>1. /\ c \in Data /\ fat[c] # EMPTY /\ c # new
        /\ \A b \in Data : fat[b] # c
    BY <1>1 DEF Starts
  <2>2. c \notin Range(cl)
    BY <2>1 DEF ClustersAfterWrite
  <2>3. \A b \in Data : fat'[b] # c
    BY <1>2, <1>4, <2>1, <2>2
  <2> QED
    BY <1>2, <2>1, <2>2, <2>3 DEF Starts
<1>7. Starts \cup {new} \in SUBSET Starts' /\ new \notin Starts
  BY <1>5, <1>6
<1>8. Cardinality(Starts \cup {new}) = Cardinality(Starts) + 1
  BY <1>7, StartsFinite, FS_AddElement
<1>9. Cardinality(Starts \cup {new}) <= Cardinality(Starts')
  BY <1>7, StartsFinite, FS_Subset
<1> QED
  BY <1>8, <1>9, StartsFinite

\* A delete takes away one start: that of the entry that it resets.
LEMMA EraseStarts ==
    ASSUME Consistent, ~exhausted, NEW parent \in Parents, NEW s \in Slots,
           NEW ch, NEW gone, EraseFacts(parent, s, ch, gone)
    PROVE  Cardinality(Starts') >= Cardinality(Starts) - 1
<1> DEFINE head == HeadOf(<<parent, s>>)
<1>1. /\ \A c \in gone : c \in Data /\ fat'[c] = EMPTY
      /\ \A c \in Data : c \notin gone => fat'[c] = fat[c]
      /\ \A c \in Data : fat[c] \in gone => c \in gone
      /\ <<parent, s>> \in Live /\ gone = Range(ch)
      /\ ch \in SeqUpTo(Data, MaxFragments) /\ IsChain(fat, ch)
      /\ ch[1] = head
  BY DEF EraseFacts
<1> HIDE DEF head
<1>2. ASSUME NEW c \in gone, c # head
      PROVE  \E b \in Data : fat[b] = c
  <2>1. MaxFragments \in Nat
    BY SizesAssumption
  <2>0. ch \in SeqUpTo(Data, MaxFragments) /\ IsChain(fat, ch)
    BY <1>1
  <2>2. ChainShape(fat, ch)
    BY <2>0, <2>1, ChainFacts
  <2>3. PICK i \in 1 .. Len(ch) : c = ch[i]
    <3>1. DOMAIN ch = 1 .. Len(ch)
      BY <2>2 DEF ChainShape
    <3>2. c \in Range(ch)
      BY <1>1
    <3> QED
      BY <3>1, <3>2 DEF Range
  <2>4. i > 1
    BY <1>1, <1>2, <2>3
  <2>5. i - 1 \in 1 .. Len(ch) /\ fat[ch[i - 1]] = ch[i]
    BY <2>2, <2>4 DEF ChainShape
  <2>6. ch[i - 1] \in Data
    BY <2>2, <2>5 DEF ChainShape
  <2> QED
    BY <2>3, <2>5, <2>6
<1>3. ASSUME NEW c \in Starts, c # head
      PROVE  c \in Starts'
  <2>1. c \in Data /\ fat[c] # EMPTY /\ \A b \in Data : fat[b] # c
    BY DEF Starts
  <2>2. c \notin gone
    BY <1>2, <1>3, <2>1
  <2>3. ASSUME NEW b \in Data
        PROVE  fat'[b] # c
    <3>1. CASE b \in gone
      BY <1>1, <2>1, <3>1, Numbers
    <3>2. CASE b \notin gone
      BY <1>1, <2>1, <3>2
    <3> QED
      BY <3>1, <3>2
  <2> QED
    BY <1>1, <2>1, <2>2, <2>3 DEF Starts
<1>4. Starts \ {head} \in SUBSET Starts'
  BY <1>3
<1>5. Cardinality(Starts \ {head}) >= Cardinality(Starts) - 1
  <2>1. IsFiniteSet(Starts) /\ Cardinality(Starts) \in Nat
    BY StartsFinite
  <2>2. Cardinality(Starts \ {head}) =
          IF head \in Starts THEN Cardinality(Starts) - 1
                             ELSE Cardinality(Starts)
    BY <2>1, FS_RemoveElement
  <2> QED
    BY <2>1, <2>2
<1>6. /\ Cardinality(Starts \ {head}) <= Cardinality(Starts')
      /\ Cardinality(Starts \ {head}) \in Nat
  BY <1>4, StartsFinite, FS_Subset, FS_RemoveElement, FS_CardinalityType
<1> QED
  BY <1>5, <1>6, StartsFinite

\* The loop of delete_index meets every record that is there.
LEMMA RecordFound ==
    ASSUME NEW table, DOMAIN table \subseteq Nat, NEW record,
           HasRecord(table, record)
    PROVE  FirstRecord(table, record) # {}
<1> DEFINE T == {i \in DOMAIN table : table[i] = record}
<1>1. T \in SUBSET Nat /\ T # {}
  BY DEF HasRecord
<1>2. PICK n \in T : \A m \in T : n <= m
  BY <1>1, LeastNumber
<1>3. ASSUME NEW j \in DOMAIN table, j < n
      PROVE  table[j] # record
  <2>1. j \notin T
    BY <1>1, <1>2, <1>3
  <2> QED
    BY <2>1
<1>4. n \in FirstRecord(table, record)
  BY <1>2, <1>3 DEF FirstRecord
<1> QED
  BY <1>4

LEMMA FitsWrite ==
    ASSUME Consistent, Consistent', Listed, IndexFits,
           NEW parent \in Parents, NEW name \in Names, NEW buf \in Buffers,
           WriteEntry(parent, name, buf)
    PROVE  IndexFits'
<1>1. SUFFICES ASSUME ~exhausted'
               PROVE  fat'[INDEX] <= Cardinality(Starts')
  BY DEF IndexFits
<1>2. PICK s, cl : ~exhausted /\ WriteFacts(parent, s, name, buf, cl)
  BY WriteEffects
<1>3. Cardinality(Starts') >= Cardinality(Starts) + 1
  BY <1>1, <1>2, WriteClusters, WriteStarts
<1>4. TypeOK /\ INDEX \in Clusters
  BY Numbers DEF Consistent
<1>5. fat'[INDEX] = fat[INDEX] + 1
  BY <1>4 DEF WriteEntry, Linked
<1>6. fat[INDEX] \in Nat /\ fat[INDEX] <= Cardinality(Starts)
  BY <1>2, <1>4, IndexShape DEF IndexFits
<1> QED
  BY <1>3, <1>5, <1>6, StartsFinite

LEMMA FitsErase ==
    ASSUME Consistent, Listed, IndexFits, ~exhausted,
           NEW parent \in Parents, NEW s \in Slots,
           disk[parent].dir, disk[parent].slot[s].name \in Names,
           EraseEntry(parent, s)
    PROVE  IndexFits'
<1> DEFINE name == disk[parent].slot[s].name
<1>1. PICK ch, gone : EraseFacts(parent, s, ch, gone)
  BY EraseEffects
<1>2. Cardinality(Starts') >= Cardinality(Starts) - 1
  BY <1>1, EraseStarts
<1>3. TypeOK /\ INDEX \in Clusters
  BY Numbers DEF Consistent
<1>4. PICK junk, count : /\ DeleteIndex(name, parent, junk, count)
                         /\ fat'[INDEX] = count
  BY <1>3 DEF EraseEntry, Freed
<1>5. count = fat[INDEX] - 1
  <2>1. Loaded(junk) = index /\ DOMAIN index \subseteq Nat
    BY <1>3, LoadedIndex, IndexShape
  <2>2. HasRecord(index, <<name, parent>>)
    <3>1. <<parent, s>> \in Live
      BY <1>1 DEF EraseFacts
    <3> QED
      BY <3>1 DEF Listed, AllListed, HasRecord, EntryAt
  <2>3. FirstRecord(index, <<name, parent>>) # {}
    BY <2>1, <2>2, RecordFound
  <2> QED
    BY <1>4, <2>1, <2>3 DEF DeleteIndex
<1>6. fat[INDEX] \in Nat /\ fat[INDEX] <= Cardinality(Starts)
  BY <1>3, IndexShape DEF IndexFits
<1>7. fat'[INDEX] <= Cardinality(Starts')
  BY <1>2, <1>4, <1>5, <1>6, StartsFinite
<1> QED
  BY <1>7 DEF IndexFits

LEMMA FitsQuiet ==
    ASSUME IndexFits, UNCHANGED <<fat, exhausted>>
    PROVE  IndexFits'
BY DEF IndexFits, Starts

LEMMA NextFits ==
    Consistent /\ Consistent' /\ IndexFits /\ Listed /\ [Next]_vars
        => IndexFits'
<1> SUFFICES ASSUME Consistent, Consistent', IndexFits, Listed, [Next]_vars
             PROVE  IndexFits'
  OBVIOUS
<1>1. CASE Power
  <2>1. CASE Format
    <3>1. fat'[INDEX] = 0
      BY <2>1, Numbers DEF Format, FormattedTable, INDEX, ROOT, EMPTY
    <3> QED
      BY <3>1, StartsFinite DEF IndexFits
  <2> QED
    BY <1>1, <2>1, FitsQuiet DEF Power, Load, PowerOff
<1>2. CASE Write
  BY <1>2, FitsWrite, FitsQuiet DEF Write, WriteInvalidParent,
     WriteAlreadyExists, WriteNoRoom, AnswerOnly
<1>3. CASE Delete
  <2>1. PICK parent \in Parents, name \in Names :
               \/ DeleteInvalidParent(parent)
               \/ DeleteNotFound(parent, name)
               \/ DeleteFound(parent, name)
    BY <1>3 DEF Delete
  <2>2. CASE DeleteInvalidParent(parent) \/ DeleteNotFound(parent, name)
    BY <2>2, FitsQuiet DEF DeleteInvalidParent, DeleteNotFound, AnswerOnly
  <2>3. CASE DeleteFound(parent, name)
    <3>1. ~exhausted /\ disk[parent].dir
      BY <2>3 DEF DeleteFound, Calling
    <3>2. PICK s \in FirstNamed(disk[parent], name) :
                 \/ AnswerOnly("delete", 2, <<>>)
                 \/ EraseEntry(parent, s)
      BY <2>3 DEF DeleteFound
    <3>3. s \in Slots /\ disk[parent].slot[s].name \in Names
      BY <3>2, FoundSlot
    <3>4. CASE AnswerOnly("delete", 2, <<>>)
      BY <3>4, FitsQuiet DEF AnswerOnly
    <3>5. CASE EraseEntry(parent, s)
      BY <3>1, <3>3, <3>5, FitsErase
    <3> QED
      BY <3>2, <3>4, <3>5
  <2> QED
    BY <2>1, <2>2, <2>3
<1>4. CASE Read \/ ReadEmptyName \/ Browse
  BY <1>4, FitsQuiet DEF Read, ReadEmptyName, Browse, ReadInvalidParent,
     ReadNotFound, ReadNotAFile, ReadNotEnoughBuffer, ReadFile, ReadDirectory,
     MoveToChild, MoveToParent, GetChildren, GetDirPath, SearchIndex,
     AnswerCached, AnswerOnly
<1>5. CASE UNCHANGED vars
  BY <1>5, FitsQuiet DEF vars
<1> QED
  BY <1>1, <1>2, <1>3, <1>4, <1>5 DEF Next

\* The count that says how many records are read and written never exceeds the
\* number of files and directories with clusters of their own, which is at most
\* the number of data clusters: it stays inside the table on the stack.
THEOREM CountStaysDown == Spec /\ []IndexRoom => []IndexFits
<1>1. Init => IndexFits
  <2>1. Init => fat[INDEX] = 0
    BY Numbers DEF Init, ZeroTable, EMPTY
  <2> QED
    BY <2>1, StartsFinite DEF IndexFits
<1> QED
  BY <1>1, ListedInit, NextListed, NextFits, DiskStaysConsistent, PTL DEF Spec

----------------------------------------------------------------------------
(* That there is room in the index follows from the number of files.        *)

\* No more chains, each that of a file or a directory, are on the disk than the index
\* stores records.
FewFiles == ~exhausted => Cardinality(Starts) <= IndexCapacity

\* Once a write has run out of clusters, no call is made.
LEMMA ExhaustedStays ==
    ASSUME exhausted, [Next]_vars
    PROVE  exhausted'
<1>1. ~Calling
  BY DEF Calling
<1>2. ~(Write \/ Delete \/ Read \/ ReadEmptyName \/ Browse)
  BY <1>1 DEF Write, Delete, Read, ReadEmptyName, Browse, WriteInvalidParent,
     WriteAlreadyExists, WriteNoRoom, WriteEntry, DeleteInvalidParent,
     DeleteNotFound, DeleteFound, ReadInvalidParent, ReadNotFound, ReadNotAFile,
     ReadNotEnoughBuffer, ReadFile, ReadDirectory, MoveToChild, MoveToParent,
     GetChildren, GetDirPath, SearchIndex
<1>3. Power \/ UNCHANGED vars
  BY <1>2 DEF Next
<1> QED
  BY <1>3 DEF Power, Format, Load, PowerOff, vars

\* The count, which cannot run ahead of the files, has then room.
Catalogued == IndexFits /\ (~exhausted => Listed)

LEMMA CataloguedInit == Init => Catalogued
<1> SUFFICES ASSUME Init
             PROVE  Catalogued
  OBVIOUS
<1>1. fat[INDEX] = 0
  BY Numbers DEF Init, ZeroTable, EMPTY
<1> QED
  BY <1>1, StartsFinite, ListedInit DEF IndexFits, Catalogued

LEMMA NextCatalogued ==
    Consistent /\ Consistent' /\ FewFiles /\ FewFiles' /\ Catalogued /\ [Next]_vars
        => Catalogued'
<1> SUFFICES ASSUME Consistent, Consistent', FewFiles, FewFiles', Catalogued,
                    [Next]_vars
             PROVE  Catalogued'
  OBVIOUS
<1>1. CASE exhausted'
  BY <1>1 DEF Catalogued, IndexFits
<1>2. CASE ~exhausted'
  <2>1. ~exhausted
    BY <1>2, ExhaustedStays
  <2>2. IndexFits /\ Listed
    BY <2>1 DEF Catalogued
  <2>3. IndexFits'
    BY <2>2, NextFits
  <2>4. fat[INDEX] \in Int /\ fat'[INDEX] \in Int
    <3>1. TypeOK /\ TypeOK' /\ INDEX \in Clusters
      BY Numbers DEF Consistent
    <3> QED
      BY <3>1, Numbers DEF TypeOK, Links, NOCLUSTER
  <2>5. IndexRoom /\ IndexRoom'
    BY <1>2, <2>1, <2>2, <2>3, <2>4, StartsFinite, SizesAssumption
       DEF IndexFits, FewFiles, IndexRoom
  <2>6. Listed'
    BY <2>2, <2>5, NextListed
  <2> QED
    BY <2>3, <2>6 DEF Catalogued
<1> QED
  BY <1>1, <1>2

LEMMA StaysCatalogued == Spec /\ []FewFiles => []Catalogued
BY CataloguedInit, NextCatalogued, DiskStaysConsistent, PTL DEF Spec

\* As long as there are no more files and directories than the index stores,
\* every entry in use has its record: calls that add and remove in any order
\* cannot fill the index with records of what is gone.
THEOREM FewFilesAreListed == Spec /\ []FewFiles => []IndexComplete
<1>1. Catalogued => IndexComplete
  BY DEF Catalogued, Listed, AllListed, IndexComplete
<1> QED
  BY <1>1, StaysCatalogued, PTL

=============================================================================

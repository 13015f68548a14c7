------------------------- MODULE Fat32WritesProofs -------------------------
(***************************************************************************)
(* Theorems about Fat32Writes, for every size of the disk and any number   *)
(* of stops.                                                               *)
(***************************************************************************)
EXTENDS Fat32Writes, Fat32Proofs

----------------------------------------------------------------------------
(* Types. *)

\* One cluster whose two marks of a free entry agree, and that is not both a
\* table and a payload.
Good ==
    {v \in Content :
        /\ \A s \in Slots : v.slot[s].undelete <=> v.slot[s].name # NoName
        /\ v.dir => v.data = NoBlock}

WellMade(w) ==
    /\ w.to = "boot" => w.value \in BOOLEAN
    /\ w.to = "fat"  => w.value \in [Clusters -> Nat]
    /\ w.to = "disk" => w.value \in Good

\* A sequence, of whatever.
IsSeq(s) == s \in Seq(Range(s))

DiskTyped(f, d) == f \in [Clusters -> Nat] /\ d \in [Clusters -> Good]

Typed ==
    /\ signature \in BOOLEAN /\ mounted \in BOOLEAN /\ exhausted = FALSE
    /\ DiskTyped(fat, disk)
    /\ saved = [signature |-> saved.signature, fat |-> saved.fat,
                disk |-> saved.disk, index |-> saved.index]
    /\ DiskTyped(saved.fat, saved.disk)
    /\ IsSeq(pending)
    /\ \A w \in Range(pending) : WellMade(w)

----------------------------------------------------------------------------
(* What a call leaves alone. *)

\* The clusters of the bystanders.
Owned ==
    {c \in Data : \E e \in Bystanders :
        IF Saved!EntryAt(e).dir THEN c = Saved!HeadOf(e)
        ELSE \E ch \in SeqUpTo(Data, MaxFragments) \ {<<>>} :
                /\ Saved!IsChain(saved.fat, ch)
                /\ ch[1] = Saved!HeadOf(e)
                /\ c \in Range(ch)}

\* What v says of the bystanders is what cluster c said before the call.
Keeps(c, v) ==
    /\ c \in Owned => /\ v.dir = saved.disk[c].dir
                      /\ v.up = saved.disk[c].up
                      /\ v.data = saved.disk[c].data
    /\ \A e \in Bystanders :
         e[1] = c => v.dir /\ v.slot[e[2]] = saved.disk[c].slot[e[2]]

Harmless(w) ==
    /\ w.to = "fat" => \A c \in Owned : c \div BlockCells = w.at
                                          => w.value[c] = saved.fat[c]
    /\ w.to = "disk" => Keeps(w.at, w.value)

Protected ==
    /\ \A c \in Owned : fat[c] = saved.fat[c]
    /\ \A c \in Clusters : Keeps(c, disk[c])
    /\ \A w \in Range(pending) : Harmless(w)

Spared == call.op # "mount" /\ SavedSound => Protected

----------------------------------------------------------------------------
(* Sequences of writes. *)

LEMMA SeqOfAny ==
    ASSUME NEW n \in Nat, NEW s, s = [i \in 1 .. n |-> s[i]]
    PROVE  IsSeq(s) /\ Len(s) = n /\ DOMAIN s = 1 .. n
<1>1. DOMAIN s = 1 .. n
  OBVIOUS
<1>2. s \in [1 .. n -> Range(s)]
  BY <1>1 DEF Range
<1> QED
  BY <1>1, <1>2 DEF IsSeq

LEMMA SeqTyped ==
    ASSUME NEW S, NEW s \in Seq(S)
    PROVE  IsSeq(s) /\ Range(s) \subseteq S
<1>1. PICK n \in Nat : s \in [1 .. n -> S]
  OBVIOUS
<1>2. s = [i \in 1 .. n |-> s[i]] /\ Range(s) \subseteq S
  BY <1>1 DEF Range
<1> QED
  BY <1>2, SeqOfAny

LEMMA SeqShape ==
    ASSUME NEW s, IsSeq(s)
    PROVE  /\ Len(s) \in Nat /\ DOMAIN s = 1 .. Len(s)
           /\ s = [i \in 1 .. Len(s) |-> s[i]]
BY DEF IsSeq

LEMMA SeqNone == IsSeq(<<>>) /\ Range(<<>>) = {}
BY DEF IsSeq, Range

LEMMA SeqOne ==
    ASSUME NEW a
    PROVE  IsSeq(<<a>>) /\ Range(<<a>>) = {a}
<1>1. Range(<<a>>) = {a}
  BY DEF Range
<1> QED
  BY <1>1 DEF IsSeq

LEMMA SeqTwo ==
    ASSUME NEW a, NEW b
    PROVE  IsSeq(<<a, b>>) /\ Range(<<a, b>>) = {a, b}
<1>0. DOMAIN <<a, b>> = 1 .. 2
  OBVIOUS
<1>1. Range(<<a, b>>) = {a, b}
  BY DEF Range
<1>2. <<a, b>> \in Seq({a, b})
  OBVIOUS
<1> QED
  BY <1>1, <1>2 DEF IsSeq

LEMMA SeqJoin ==
    ASSUME NEW s, NEW t, IsSeq(s), IsSeq(t)
    PROVE  /\ IsSeq(s \o t) /\ Range(s \o t) = Range(s) \cup Range(t)
           /\ \A i \in DOMAIN s : i \in DOMAIN (s \o t) /\ (s \o t)[i] = s[i]
<1> DEFINE S == Range(s) \cup Range(t)
<1>1. s \in Seq(S) /\ t \in Seq(S)
  BY DEF IsSeq
<1> HIDE DEF S
<1>2. /\ s \o t \in Seq(S)
      /\ Len(s \o t) = Len(s) + Len(t)
      /\ \A i \in 1 .. Len(s) + Len(t) :
            (s \o t)[i] = IF i <= Len(s) THEN s[i] ELSE t[i - Len(s)]
  BY <1>1, ConcatProperties
<1>3. /\ Len(s) \in Nat /\ Len(t) \in Nat /\ DOMAIN s = 1 .. Len(s)
      /\ DOMAIN t = 1 .. Len(t) /\ DOMAIN (s \o t) = 1 .. (Len(s) + Len(t))
  BY <1>1, <1>2
<1>4. ASSUME NEW i \in DOMAIN (s \o t)
      PROVE  (s \o t)[i] \in S
  BY <1>2, <1>3
<1>5. ASSUME NEW i \in DOMAIN s
      PROVE  s[i] \in Range(s \o t)
  <2>1. i \in DOMAIN (s \o t) /\ (s \o t)[i] = s[i]
    BY <1>2, <1>3
  <2> QED
    BY <2>1 DEF Range
<1>6. ASSUME NEW i \in DOMAIN t
      PROVE  t[i] \in Range(s \o t)
  <2>1. i + Len(s) \in DOMAIN (s \o t) /\ (s \o t)[i + Len(s)] = t[i]
    BY <1>2, <1>3
  <2> QED
    BY <2>1 DEF Range
<1>7. Range(s \o t) = S
  BY <1>4, <1>5, <1>6 DEF S, Range
<1> QED
  BY <1>2, <1>7 DEF IsSeq, S

LEMMA SeqRest ==
    ASSUME NEW s, IsSeq(s), s # <<>>
    PROVE  /\ Head(s) \in Range(s)
           /\ IsSeq(Tail(s)) /\ Range(Tail(s)) \subseteq Range(s)
           /\ Len(s) \in Nat \ {0} /\ Len(Tail(s)) = Len(s) - 1
           /\ \A i \in 1 .. Len(s) - 1 : Tail(s)[i] = s[i + 1]
           /\ Len(s) = 1 => Tail(s) = <<>>
<1>1. s \in Seq(Range(s))
  BY DEF IsSeq
<1> DEFINE S == Range(s)
<1>s. s \in Seq(S)
  BY <1>1
<1> HIDE DEF S
<1>2. /\ Head(s) = s[1] /\ Head(s) \in S
      /\ Tail(s) \in Seq(S)
      /\ Len(s) \in Nat \ {0} /\ Len(Tail(s)) = Len(s) - 1
      /\ \A i \in 1 .. Len(Tail(s)) : Tail(s)[i] = s[i + 1]
  BY <1>s, HeadTailProperties, EmptySeq, LenProperties
<1>3. Range(Tail(s)) \subseteq S
  BY <1>2 DEF Range
<1>4. IsSeq(Tail(s))
  BY <1>2, SeqTyped
<1>5. ASSUME Len(s) = 1
      PROVE  Tail(s) = <<>>
  <2>1. Tail(s) \in Seq(S) /\ Len(Tail(s)) = 0
    BY <1>2, <1>5
  <2> QED
    BY <2>1, EmptySeq
<1> QED
  BY <1>2, <1>3, <1>4, <1>5 DEF S

----------------------------------------------------------------------------
(* The writes of a call. *)

LEMMA FatWritesShape ==
    ASSUME NEW t
    PROVE  /\ IsSeq(FatWrites(t))
           /\ \A w \in Range(FatWrites(t)) : w.to = "fat" /\ w.value = t
<1> DEFINE n == (N + BlockCells - 1) \div BlockCells
<1>1. n \in Nat
  BY SizesAssumption, WritesAssumption DEF FIRST_DATA
<1>2. FatWrites(t) = [b \in 1 .. n |-> ToFAT(b - 1, t)]
  BY DEF FatWrites
<1> HIDE DEF n
<1>3. IsSeq(FatWrites(t)) /\ DOMAIN FatWrites(t) = 1 .. n
  BY <1>1, <1>2, SeqOfAny
<1>4. ASSUME NEW b \in 1 .. n
      PROVE  FatWrites(t)[b].to = "fat" /\ FatWrites(t)[b].value = t
  BY <1>2 DEF ToFAT
<1> QED
  BY <1>3, <1>4 DEF Range

LEMMA EntryWritesShape ==
    ASSUME NEW parent, NEW table
    PROVE  /\ IsSeq(EntryWrites(parent, table))
           /\ Range(EntryWrites(parent, table))
                = {ToCluster(parent, [disk[parent] EXCEPT !.notempty = table.notempty]),
                   ToCluster(parent, table)}
BY SeqTwo DEF EntryWrites

LEMMA ShiftWritesShape ==
    ASSUME NEW i \in Int, fat[INDEX] \in Int
    PROVE  /\ IsSeq(ShiftWrites(i))
           /\ \A w \in Range(ShiftWrites(i)) : w.to = "index"
<1> DEFINE m == fat[INDEX] - i
           sh == ShiftWrites(i)
<1>1. sh = [j \in 1 .. m |-> ToRecord(i + j - 1, index[i + j])]
  BY DEF ShiftWrites
<1>2. PICK n \in Nat : 1 .. m = 1 .. n
  <2>1. CASE m >= 0
    BY <2>1
  <2>2. CASE m < 0
    <3>1. 1 .. m = 1 .. 0
      BY <2>2
    <3> QED
      BY <3>1
  <2> QED
    BY <2>1, <2>2
<1> HIDE DEF m
<1>3. DOMAIN sh = 1 .. n /\ \A j \in 1 .. n : sh[j] = ToRecord(i + j - 1, index[i + j])
  BY <1>1, <1>2
<1>4. sh = [j \in 1 .. n |-> sh[j]]
  BY <1>1, <1>2
<1> HIDE DEF sh
<1>5. IsSeq(sh)
  BY <1>4, SeqOfAny
<1>6. \A w \in Range(sh) : w.to = "index"
  BY <1>3 DEF Range, ToRecord
<1> QED
  BY <1>5, <1>6 DEF sh

\* The values a call writes.
LEMMA GoodBlank == Blank \in Good
BY BlankType DEF Good, FreeEntry

LEMMA GoodMarks ==
    ASSUME NEW v \in Content, v.slot = Blank.slot, v.dir => v.data = NoBlock
    PROVE  v \in Good
<1>1. FreeEntry.undelete = FALSE /\ FreeEntry.name = NoName
  BY DEF FreeEntry
<1>2. \A s \in Slots : v.slot[s] = FreeEntry
  BY BlankType
<1>3. \A s \in Slots : v.slot[s].undelete <=> v.slot[s].name # NoName
  BY <1>1, <1>2
<1> QED
  BY <1>3 DEF Good

LEMMA GoodTable ==
    ASSUME NEW name \in Names \cup {NoName}, NEW up \in Clusters
    PROVE  DirTable(name, up) \in Good
<1> DEFINE v == DirTable(name, up)
<1>1. v \in Content /\ v.data = NoBlock /\ v.slot = Blank.slot
  BY TableType
<1> HIDE DEF v
<1>2. v \in Good
  BY <1>1, GoodMarks
<1> QED
  BY <1>2 DEF v

LEMMA GoodFile ==
    ASSUME NEW block \in Blocks
    PROVE  FileBlock(block) \in Good
<1> DEFINE v == FileBlock(block)
<1>1. v \in Content /\ v.dir = FALSE /\ v.slot = Blank.slot
  BY FileType
<1> HIDE DEF v
<1>2. v \in Good
  BY <1>1, GoodMarks
<1> QED
  BY <1>2 DEF v

LEMMA GoodHeader ==
    ASSUME NEW d \in Good, NEW b \in BOOLEAN
    PROVE  LET v == [d EXCEPT !.notempty = b]
           IN  /\ v \in Good
               /\ v.dir = d.dir /\ v.up = d.up /\ v.data = d.data
               /\ v.slot = d.slot
BY DEF Good, Content

LEMMA GoodSlot ==
    ASSUME NEW d \in Good, NEW v \in Content, NEW s \in Slots, NEW entry \in Entry,
           v.dir = d.dir, v.data = d.data,
           \A t \in Slots : t # s => v.slot[t] = d.slot[t],
           v.slot[s] = entry,
           entry.undelete = (entry.name # NoName)
    PROVE  v \in Good
<1>1. d \in Content /\ (d.dir => d.data = NoBlock)
      /\ \A t \in Slots : d.slot[t].undelete <=> d.slot[t].name # NoName
  BY DEF Good
<1>4. \A t \in Slots : v.slot[t].undelete <=> v.slot[t].name # NoName
  BY <1>1
<1>5. v.dir => v.data = NoBlock
  BY <1>1
<1>6. v \in Good
  BY ONLY <1>4, <1>5, v \in Content DEF Good
<1> QED
  BY <1>6

\* A table with one entry reset.
ResetTable(d, s) == [d EXCEPT !.slot[s] = Reset(@)]

LEMMA GoodReset ==
    ASSUME NEW d \in Good, NEW s \in Slots
    PROVE  /\ ResetTable(d, s) \in Good
           /\ ResetTable(d, s).dir = d.dir
           /\ ResetTable(d, s).up = d.up
           /\ ResetTable(d, s).data = d.data
           /\ ResetTable(d, s).notempty \in BOOLEAN
           /\ \A t \in Slots : t # s => ResetTable(d, s).slot[t] = d.slot[t]
<1> DEFINE entry == Reset(d.slot[s])
           v     == ResetTable(d, s)
<1>1. d \in Content
  BY DEF Good
<1>2. d.slot[s] \in Entry /\ d.notempty \in BOOLEAN
  BY <1>1 DEF Content
<1>3. entry \in Entry /\ entry.undelete = FALSE /\ entry.name = NoName
  BY <1>2, BlankType DEF Reset, FreeEntry, Entry
<1>4. v = [d EXCEPT !.slot[s] = entry]
  BY DEF ResetTable
<1> HIDE DEF entry, v
<1>5. v \in Content
  BY <1>1, <1>3, <1>4 DEF Content
<1>6. /\ v.dir = d.dir /\ v.up = d.up /\ v.data = d.data
      /\ v.notempty = d.notempty /\ v.slot = [d.slot EXCEPT ![s] = entry]
  BY <1>1, <1>4 DEF Content
<1>7. /\ \A t \in Slots : t # s => v.slot[t] = d.slot[t]
      /\ v.slot[s] = entry
  BY <1>1, <1>6 DEF Content
<1>8. v \in Good
  <2>1. entry.undelete = (entry.name # NoName)
    BY <1>3
  <2> QED
    BY <1>3, <1>5, <1>6, <1>7, <2>1, GoodSlot
<1> QED
  BY <1>2, <1>6, <1>7, <1>8 DEF v

----------------------------------------------------------------------------
(* What the calls have in mind when they start. *)

\* A write to the table of a directory that touches one slot at most.
OfEntry(w, parent, s) ==
    /\ w.to = "disk" /\ w.at = parent /\ w.value \in Good
    /\ w.value.dir = disk[parent].dir
    /\ w.value.up = disk[parent].up
    /\ w.value.data = disk[parent].data
    /\ \A t \in Slots : t # s => w.value.slot[t] = disk[parent].slot[t]

\* A write of the FAT that changes no data cluster but those of a set.
OfFAT(w, changed) ==
    /\ w.to = "fat" /\ w.value \in [Clusters -> Nat]
    /\ \A c \in Data : c \notin changed => w.value[c] = fat[c]

OfCluster(w, changed) == w.to = "disk" /\ w.at \in changed /\ w.value \in Good

\* A payload, or the table of a new directory.
Fits(v, parent, buf) ==
    /\ v.slot = Blank.slot
    /\ buf = <<>> => v.dir /\ v.up = parent
    /\ buf # <<>> => ~v.dir /\ v.data \in Blocks

NewEntry(name, buf, c) ==
    [name |-> name, dir |-> buf = <<>>, notempty |-> FALSE, undelete |-> TRUE, cl |-> c]

OfPayload(w, cl, parent, buf) ==
    OfCluster(w, Range(cl)) /\ Fits(w.value, parent, buf)

OfNew(w, parent, s, entry) ==
    OfEntry(w, parent, s) /\ w.value.slot[s] \in {disk[parent].slot[s], entry}

OfLinks(w, cl) ==
    /\ OfFAT(w, Range(cl))
    /\ \A c \in Range(cl) : w.value[c] \in Range(cl) \cup {EOF}
    /\ \A c \in Range(cl) : w.value[c] \in Range(cl) => w.value[c] > c

WriteMeans(parent, name, buf, s, cl) ==
    /\ disk[parent].dir /\ s \in Slots /\ ~disk[parent].slot[s].undelete
    /\ Len(cl) \in Nat \ {0} /\ cl \in [1 .. Len(cl) -> Data]
    /\ Len(cl) <= MaxFragments
    /\ \A i \in 1 .. Len(cl) : fat[cl[i]] = EMPTY
    /\ \A i, j \in 1 .. Len(cl) : cl[i] = cl[j] => i = j
    /\ IsSeq(pending')
    /\ call' = [op |-> "write", parent |-> parent, name |-> name]
    /\ saved' = Image
    /\ UNCHANGED <<vars, resets>>
    /\ \A w \in Range(pending') :
         \/ OfPayload(w, cl, parent, buf)
         \/ OfNew(w, parent, s, NewEntry(name, buf, cl[1]))
         \/ OfLinks(w, cl)
         \/ w.to = "index"
    /\ \A i \in 1 .. Len(cl) : /\ i \in DOMAIN pending'
                                /\ pending'[i].at = cl[i]
                                /\ OfPayload(pending'[i], cl, parent, buf)

LEMMA WriteKinds ==
    ASSUME NEW parent, NEW name, NEW buf, NEW s, NEW cl,
           WriteMeans(parent, name, buf, s, cl), NEW w \in Range(pending')
    PROVE  \/ OfCluster(w, Range(cl)) \/ OfEntry(w, parent, s) \/ OfFAT(w, Range(cl))
           \/ w.to = "index"
<1>1. \/ OfPayload(w, cl, parent, buf)
      \/ OfNew(w, parent, s, NewEntry(name, buf, cl[1]))
      \/ OfLinks(w, cl)
      \/ w.to = "index"
  BY DEF WriteMeans
<1> QED
  BY <1>1 DEF OfPayload, OfNew, OfLinks

\* The table of a FAT with a new chain, or with cells given back.
LEMMA LinkedType ==
    ASSUME NEW f \in [Clusters -> Nat], NEW k \in Nat \ {0},
           NEW cl \in [1 .. k -> Data], Len(cl) = k
    PROVE  /\ Linked(f, cl) \in [Clusters -> Nat]
           /\ \A c \in Data : c \notin Range(cl) => Linked(f, cl)[c] = f[c]
           /\ \A c \in Range(cl) : Linked(f, cl)[c] \in Range(cl) \cup {EOF}
<1>1. DOMAIN cl = 1 .. k
  OBVIOUS
<1>2. ASSUME NEW c \in Clusters
      PROVE  Linked(f, cl)[c] \in Nat
  <2>1. CASE \E i \in DOMAIN cl : cl[i] = c
    <3>1. PositionIn(cl, c) \in 1 .. k
      BY <1>1, <2>1 DEF PositionIn
    <3>2. CASE PositionIn(cl, c) < Len(cl)
      <4>1. cl[PositionIn(cl, c) + 1] \in Data
        BY <3>1, <3>2
      <4>2. cl[PositionIn(cl, c) + 1] \in Nat
        BY <4>1, Numbers
      <4> QED
        BY <2>1, <3>2, <4>2 DEF Linked
    <3>3. CASE ~(PositionIn(cl, c) < Len(cl))
      BY <2>1, <3>3 DEF Linked, EOF
    <3> QED
      BY <3>2, <3>3
  <2>2. CASE ~\E i \in DOMAIN cl : cl[i] = c
    BY <2>2 DEF Linked
  <2> QED
    BY <2>1, <2>2
<1>3. Linked(f, cl) \in [Clusters -> Nat]
  BY <1>2 DEF Linked
<1>4. ASSUME NEW c \in Data, c \notin Range(cl)
      PROVE  Linked(f, cl)[c] = f[c]
  BY <1>4, Numbers DEF Linked, Range
<1>5. ASSUME NEW c \in Range(cl)
      PROVE  Linked(f, cl)[c] \in Range(cl) \cup {EOF}
  <2>1. c \in Clusters /\ \E i \in DOMAIN cl : cl[i] = c
    <3>1. PICK i \in DOMAIN cl : cl[i] = c
      BY DEF Range
    <3> QED
      BY <1>1, <3>1, Numbers
  <2>2. PositionIn(cl, c) \in 1 .. k
    BY <1>1, <2>1 DEF PositionIn
  <2>3. CASE PositionIn(cl, c) < Len(cl)
    <3>1. PositionIn(cl, c) + 1 \in DOMAIN cl
      BY <1>1, <2>2, <2>3
    <3>2. cl[PositionIn(cl, c) + 1] \in Range(cl)
      BY <3>1 DEF Range
    <3> QED
      BY <2>1, <2>3, <3>2 DEF Linked
  <2>4. CASE ~(PositionIn(cl, c) < Len(cl))
    BY <2>1, <2>4 DEF Linked
  <2> QED
    BY <2>3, <2>4
<1> QED
  BY <1>3, <1>4, <1>5

\* get_empty_cluster hands out the clusters in ascending order.
LEMMA AllocationAscends ==
    ASSUME NEW k \in Nat \ {0}, NEW cl \in [1 .. k -> Data], IsAllocation(fat, cl),
           NEW i \in 1 .. k, i + 1 \in 1 .. k
    PROVE  cl[i] < cl[i + 1]
<1> DEFINE rest(m) == FreeData(fat) \ {cl[j] : j \in 1 .. (m - 1)}
<1>1. ASSUME NEW m \in 1 .. k
      PROVE  cl[m] \in rest(m) /\ \A c \in rest(m) : cl[m] <= c
  <2>1. m \in DOMAIN cl /\ cl[m] \in Data
    OBVIOUS
  <2>2. cl[m] # NOCLUSTER
    BY <2>1, Numbers
  <2> QED
    BY <2>1, <2>2 DEF IsAllocation
<1>2. cl[i + 1] \in FreeData(fat) /\ \A j \in 1 .. i : cl[i + 1] # cl[j]
  BY <1>1
<1>3. cl[i + 1] \in rest(i) /\ cl[i + 1] # cl[i]
  BY <1>2
<1>4. cl[i] <= cl[i + 1]
  BY <1>1, <1>3
<1>5. cl[i] \in Nat /\ cl[i + 1] \in Nat
  BY Numbers
<1> QED
  BY <1>3, <1>4, <1>5

LEMMA LinkedAscends ==
    ASSUME NEW k \in Nat \ {0}, NEW cl \in [1 .. k -> Data], Len(cl) = k,
           IsAllocation(fat, cl),
           NEW c \in Range(cl), Linked(fat, cl)[c] \in Range(cl)
    PROVE  Linked(fat, cl)[c] > c
<1>1. DOMAIN cl = 1 .. k
  OBVIOUS
<1>2. PICK i \in 1 .. k : i = PositionIn(cl, c) /\ cl[i] = c
  BY <1>1 DEF PositionIn, Range
<1>3. c \in Clusters /\ c \in Nat /\ cl[i] \in Data
  BY <1>2, Numbers
<1>4. Linked(fat, cl)[c] = IF i < Len(cl) THEN cl[i + 1] ELSE EOF
  BY <1>1, <1>2, <1>3 DEF Linked
<1>5. i < k
  <2>1. EOF \notin Range(cl)
    BY <1>1, Numbers DEF Range
  <2> QED
    BY <1>4, <2>1
<1>6. i + 1 \in 1 .. k
  BY <1>5
<1>7. cl[i] < cl[i + 1]
  BY <1>6, AllocationAscends
<1>8. cl[i + 1] \in Nat
  BY <1>6, Numbers
<1> QED
  BY <1>2, <1>3, <1>4, <1>5, <1>7, <1>8

LEMMA CountedType ==
    ASSUME NEW f \in [Clusters -> Nat], NEW n \in Nat
    PROVE  /\ [f EXCEPT ![INDEX] = n] \in [Clusters -> Nat]
           /\ \A c \in Data : [f EXCEPT ![INDEX] = n][c] = f[c]
BY Numbers

LEMMA BufferFacts ==
    ASSUME NEW buf \in Buffers
    PROVE  /\ ClustersFor(buf) \in Nat \ {0}
           /\ ClustersFor(buf) <= MaxFragments
           /\ buf # <<>> => /\ ClustersFor(buf) = Len(buf)
                            /\ \A i \in 1 .. Len(buf) : buf[i] \in Blocks
<1>1. buf \in Seq(Blocks)
  BY BuffersAssumption
<1>2. CASE buf = <<>>
  BY <1>2, SizesAssumption DEF ClustersFor
<1>3. CASE buf # <<>>
  BY <1>1, <1>3, EmptySeq, ElementOfSeq, BuffersAssumption DEF ClustersFor
<1> QED
  BY <1>2, <1>3

LEMMA WriteCall ==
    ASSUME Typed, NEW parent \in Parents, NEW name \in Names, NEW buf \in Buffers,
           StartWrite(parent, name, buf)
    PROVE  \E s, cl : WriteMeans(parent, name, buf, s, cl)
<1> DEFINE k == ClustersFor(buf)
<1>k. k \in Nat \ {0} /\ k <= MaxFragments
  BY BufferFacts
<1>f. fat \in [Clusters -> Nat] /\ disk[parent] \in Good /\ parent \in Clusters
  BY Numbers DEF Typed, DiskTyped
<1>1. PICK s \in FirstFree(disk[parent]), cl \in [1 .. k -> Data] :
         LET table   == Linked(fat, cl)
             content == [i \in DOMAIN cl |-> IF buf = <<>> THEN DirTable(name, parent)
                                                          ELSE FileBlock(buf[i])]
         IN  /\ IsAllocation(fat, cl)
             /\ Begin("write", parent, name, WriteOrder(
                  [i \in DOMAIN cl |-> ToCluster(cl[i], content[i])],
                  EntryWrites(parent,
                     WithEntry(disk[parent], s, name, buf = <<>>, cl[1])),
                  table,
                  <<ToRecord(fat[INDEX] + 1, <<name, parent>>)>>
                     \o FatWrites([table EXCEPT ![INDEX] = fat[INDEX] + 1])))
  BY DEF StartWrite
<1> DEFINE table   == Linked(fat, cl)
           content == [i \in DOMAIN cl |-> IF buf = <<>> THEN DirTable(name, parent)
                                                        ELSE FileBlock(buf[i])]
           v       == WithEntry(disk[parent], s, name, buf = <<>>, cl[1])
           counted == [table EXCEPT ![INDEX] = fat[INDEX] + 1]
           data    == [i \in DOMAIN cl |-> ToCluster(cl[i], content[i])]
           record  == <<ToRecord(fat[INDEX] + 1, <<name, parent>>)>>
<1>2. /\ IsAllocation(fat, cl)
      /\ pending' = WriteOrder(data, EntryWrites(parent, v), table,
                               record \o FatWrites(counted))
      /\ call' = [op |-> "write", parent |-> parent, name |-> name]
      /\ saved' = Image
      /\ UNCHANGED <<vars, resets>>
  BY <1>1 DEF Begin
<1>3. s \in Slots /\ ~disk[parent].slot[s].undelete /\ disk[parent].dir
  BY <1>1 DEF FirstFree, StartWrite
<1>4. /\ Len(cl) = k /\ DOMAIN cl = 1 .. k /\ cl \in [1 .. k -> Data]
      /\ cl \in [1 .. k -> Data \cup {NOCLUSTER}]
  BY <1>1, <1>k
<1>5. /\ \A i \in 1 .. k : fat[cl[i]] = EMPTY
      /\ \A i, j \in 1 .. k : cl[i] = cl[j] => i = j
  <2>1. \A i \in 1 .. k : cl[i] # NOCLUSTER
    BY <1>4, Numbers
  <2>2. /\ \A i \in 1 .. k : cl[i] # NOCLUSTER => cl[i] \in Data /\ fat[cl[i]] = EMPTY
        /\ \A i, j \in 1 .. k : cl[i] = cl[j] /\ cl[i] # NOCLUSTER => i = j
    BY <1>2, <1>4, <1>k, AllocationFacts
  <2> QED
    BY <2>1, <2>2
<1> HIDE DEF k
<1>6. cl[1] \in Clusters
  <2>1. 1 \in 1 .. k
    BY <1>k
  <2>2. cl[1] \in Data
    BY <1>4, <2>1
  <2> QED
    BY <2>2, Numbers
<1>7. /\ v \in Good /\ v.notempty \in BOOLEAN
      /\ v.dir = disk[parent].dir /\ v.up = disk[parent].up
      /\ v.data = disk[parent].data
      /\ \A t \in Slots : t # s => v.slot[t] = disk[parent].slot[t]
      /\ v.slot[s] = NewEntry(name, buf, cl[1])
  <2> DEFINE entry == NewEntry(name, buf, cl[1])
  <2>1. entry \in Entry
    BY <1>6 DEF Entry, NewEntry
  <2>2. entry.undelete = (entry.name # NoName)
    BY NamesAssumption DEF NewEntry
  <2>3. v = [disk[parent] EXCEPT !.notempty = TRUE, !.slot[s] = entry]
    BY DEF WithEntry, NewEntry
  <2> DEFINE d == disk[parent]
  <2>4. d \in Content /\ d \in Good
    BY <1>f DEF Good
  <2> HIDE DEF entry, v, d
  <2>5. v = [d EXCEPT !.notempty = TRUE, !.slot[s] = entry]
    BY <2>3 DEF d
  <2>6. v \in Content
    BY ONLY <1>3, <2>1, <2>4, <2>5 DEF Content
  <2>7. /\ v.dir = d.dir /\ v.up = d.up /\ v.data = d.data
        /\ v.notempty = TRUE /\ v.slot = [d.slot EXCEPT ![s] = entry]
    BY ONLY <2>4, <2>5 DEF Content
  <2>8. /\ \A t \in Slots : t # s => v.slot[t] = d.slot[t]
        /\ v.slot[s] = entry
    BY ONLY <1>3, <2>4, <2>7 DEF Content
  <2>9. v \in Good
    <3>1. v.dir = d.dir /\ v.data = d.data
      BY ONLY <2>7
    <3>2. s \in Slots /\ d \in Good
      BY ONLY <1>3, <2>4
    <3> QED
      BY ONLY <2>1, <2>2, <2>6, <2>8, <3>1, <3>2, GoodSlot
  <2> QED
    BY ONLY <2>7, <2>8, <2>9 DEF d, entry
<1>8. \A i \in 1 .. k : content[i] \in Good /\ Fits(content[i], parent, buf)
  <2> SUFFICES ASSUME NEW i \in 1 .. k
               PROVE  content[i] \in Good /\ Fits(content[i], parent, buf)
    OBVIOUS
  <2>1. CASE buf = <<>>
    <3>1. content[i] = DirTable(name, parent)
      BY <1>4, <2>1
    <3> HIDE DEF content
    <3>2. content[i] \in Good
      BY <1>f, <3>1, GoodTable
    <3>3. /\ DirTable(name, parent).dir /\ DirTable(name, parent).up = parent
          /\ DirTable(name, parent).slot = Blank.slot
      BY <1>f, TableType
    <3>4. Fits(DirTable(name, parent), parent, buf)
      BY <2>1, <3>3 DEF Fits
    <3> QED
      BY <3>1, <3>2, <3>4
  <2>2. CASE buf # <<>>
    <3>1. content[i] = FileBlock(buf[i]) /\ buf[i] \in Blocks
      BY <1>4, <2>2, BufferFacts DEF k
    <3> HIDE DEF content
    <3>2. content[i] \in Good
      BY <3>1, GoodFile
    <3>3. /\ content[i].dir = FALSE /\ content[i].data \in Blocks
          /\ content[i].slot = Blank.slot
      BY <3>1, FileType
    <3> QED
      BY <2>2, <3>2, <3>3 DEF Fits
  <2> QED
    BY <2>1, <2>2
<1> HIDE DEF v, content
<1>9. /\ table \in [Clusters -> Nat]
      /\ \A c \in Data : c \notin Range(cl) => table[c] = fat[c]
      /\ \A c \in Range(cl) : table[c] \in Range(cl) \cup {EOF}
      /\ \A c \in Range(cl) : table[c] \in Range(cl) => table[c] > c
  <2>1. cl \in [1 .. k -> Data] /\ Len(cl) = k
    BY <1>4
  <2>2. \A c \in Range(cl) : table[c] \in Range(cl) => table[c] > c
    BY <1>2, <1>k, <2>1, LinkedAscends
  <2> HIDE DEF table
  <2>3. table = Linked(fat, cl)
    BY DEF table
  <2> QED
    BY <1>k, <1>f, <2>1, <2>2, <2>3, LinkedType
<1>10. fat[INDEX] + 1 \in Nat
  <2>1. INDEX \in Clusters
    BY Numbers
  <2>2. fat[INDEX] \in Nat
    BY <1>f, <2>1
  <2> QED
    BY <2>2
<1> HIDE DEF table
<1>11. /\ counted \in [Clusters -> Nat]
       /\ \A c \in Data : c \notin Range(cl) => counted[c] = fat[c]
       /\ \A c \in Range(cl) : counted[c] \in Range(cl) \cup {EOF}
       /\ \A c \in Range(cl) : counted[c] \in Range(cl) => counted[c] > c
  <2>1. /\ counted \in [Clusters -> Nat]
        /\ \A c \in Data : counted[c] = table[c]
    BY <1>9, <1>10, CountedType
  <2>2. \A c \in Range(cl) : c \in Data
    BY <1>4 DEF Range
  <2> HIDE DEF counted
  <2> QED
    BY <1>9, <2>1, <2>2
<1> HIDE DEF counted
<1>12. /\ IsSeq(data) /\ DOMAIN data = 1 .. k /\ Len(data) = k
       /\ \A i \in 1 .. k : data[i].at = cl[i] /\ OfPayload(data[i], cl, parent, buf)
  <2>1. DOMAIN data = 1 .. k /\ data = [i \in 1 .. k |-> data[i]]
        /\ \A i \in 1 .. k : data[i] = ToCluster(cl[i], content[i])
    BY <1>4
  <2> HIDE DEF data
  <2>2. IsSeq(data) /\ Len(data) = k
    BY <1>k, <2>1, SeqOfAny
  <2>3. ASSUME NEW i \in 1 .. k
        PROVE  data[i].at = cl[i] /\ OfPayload(data[i], cl, parent, buf)
    <3>1. cl[i] \in Range(cl) /\ content[i] \in Good /\ Fits(content[i], parent, buf)
      BY <1>4, <1>8 DEF Range
    <3>2. /\ data[i].to = "disk" /\ data[i].at = cl[i] /\ data[i].value = content[i]
      BY <2>1 DEF ToCluster
    <3> QED
      BY <3>1, <3>2 DEF OfPayload, OfCluster
  <2> QED
    BY <2>1, <2>2, <2>3
<1>13. IsSeq(EntryWrites(parent, v))
       /\ \A w \in Range(EntryWrites(parent, v)) :
            OfNew(w, parent, s, NewEntry(name, buf, cl[1]))
  <2> DEFINE u == [disk[parent] EXCEPT !.notempty = v.notempty]
  <2>1. /\ u \in Good /\ u.dir = disk[parent].dir /\ u.up = disk[parent].up
        /\ u.data = disk[parent].data /\ u.slot = disk[parent].slot
    BY <1>7, <1>f, GoodHeader
  <2>2. /\ IsSeq(EntryWrites(parent, v))
        /\ Range(EntryWrites(parent, v)) = {ToCluster(parent, u), ToCluster(parent, v)}
    BY EntryWritesShape
  <2> HIDE DEF u
  <2>3. OfNew(ToCluster(parent, u), parent, s, NewEntry(name, buf, cl[1]))
    BY <2>1 DEF OfNew, OfEntry, ToCluster
  <2>4. OfNew(ToCluster(parent, v), parent, s, NewEntry(name, buf, cl[1]))
    BY <1>7 DEF OfNew, OfEntry, ToCluster
  <2> QED
    BY <2>2, <2>3, <2>4
<1>14. /\ IsSeq(FatWrites(table)) /\ IsSeq(FatWrites(counted))
       /\ \A w \in Range(FatWrites(table)) : OfLinks(w, cl)
       /\ \A w \in Range(FatWrites(counted)) : OfLinks(w, cl)
  BY <1>9, <1>11, FatWritesShape DEF OfFAT, OfLinks
<1>15. IsSeq(record) /\ \A w \in Range(record) : w.to = "index"
  BY SeqOne DEF ToRecord
<1> HIDE DEF data, record
<1>d. \A w \in Range(data) : OfPayload(w, cl, parent, buf)
  BY <1>12 DEF Range
<1>16. /\ IsSeq(pending')
       /\ Range(pending') = Range(data) \cup Range(EntryWrites(parent, v))
             \cup Range(FatWrites(table)) \cup Range(record) \cup Range(FatWrites(counted))
       /\ \A i \in 1 .. k : i \in DOMAIN pending' /\ pending'[i] = data[i]
  <2>1. pending' = ((data \o EntryWrites(parent, v)) \o FatWrites(table))
                     \o (record \o FatWrites(counted))
    BY <1>2 DEF WriteOrder
  <2>2. /\ IsSeq(data \o EntryWrites(parent, v))
        /\ Range(data \o EntryWrites(parent, v))
             = Range(data) \cup Range(EntryWrites(parent, v))
        /\ \A i \in DOMAIN data : /\ i \in DOMAIN (data \o EntryWrites(parent, v))
                                  /\ (data \o EntryWrites(parent, v))[i] = data[i]
    BY <1>12, <1>13, SeqJoin
  <2>3. /\ IsSeq((data \o EntryWrites(parent, v)) \o FatWrites(table))
        /\ Range((data \o EntryWrites(parent, v)) \o FatWrites(table))
             = Range(data) \cup Range(EntryWrites(parent, v)) \cup Range(FatWrites(table))
        /\ \A i \in DOMAIN (data \o EntryWrites(parent, v)) :
             /\ i \in DOMAIN ((data \o EntryWrites(parent, v)) \o FatWrites(table))
             /\ ((data \o EntryWrites(parent, v)) \o FatWrites(table))[i]
                  = (data \o EntryWrites(parent, v))[i]
    BY <1>14, <2>2, SeqJoin
  <2>4. /\ IsSeq(record \o FatWrites(counted))
        /\ Range(record \o FatWrites(counted)) = Range(record) \cup Range(FatWrites(counted))
    BY <1>14, <1>15, SeqJoin
  <2>5. /\ IsSeq(((data \o EntryWrites(parent, v)) \o FatWrites(table))
                     \o (record \o FatWrites(counted)))
        /\ Range(((data \o EntryWrites(parent, v)) \o FatWrites(table))
                     \o (record \o FatWrites(counted)))
             = Range((data \o EntryWrites(parent, v)) \o FatWrites(table))
                 \cup Range(record \o FatWrites(counted))
        /\ \A i \in DOMAIN ((data \o EntryWrites(parent, v)) \o FatWrites(table)) :
             /\ i \in DOMAIN pending'
             /\ pending'[i] = ((data \o EntryWrites(parent, v)) \o FatWrites(table))[i]
    BY <2>1, <2>3, <2>4, SeqJoin
  <2>6. \A i \in 1 .. k : i \in DOMAIN pending' /\ pending'[i] = data[i]
    BY <1>12, <2>2, <2>3, <2>5
  <2> QED
    BY <2>1, <2>3, <2>4, <2>5, <2>6
<1>17. \A w \in Range(pending') :
         \/ OfPayload(w, cl, parent, buf)
         \/ OfNew(w, parent, s, NewEntry(name, buf, cl[1]))
         \/ OfLinks(w, cl)
         \/ w.to = "index"
  BY <1>d, <1>13, <1>14, <1>15, <1>16
<1>18. \A i \in 1 .. Len(cl) : /\ i \in DOMAIN pending'
                                /\ pending'[i].at = cl[i]
                                /\ OfPayload(pending'[i], cl, parent, buf)
  BY <1>4, <1>12, <1>16
<1>19. WriteMeans(parent, name, buf, s, cl)
  BY <1>2, <1>3, <1>4, <1>5, <1>16, <1>17, <1>18, <1>k DEF WriteMeans
<1> QED
  BY <1>19

----------------------------------------------------------------------------
(* The walk of a delete. *)

StepFrom(x) == IF x \in Clusters /\ fat[x] # EOF THEN fat[x] ELSE EOF

IsWalk(g, n, first) ==
    g = [i \in 1 .. n |-> IF i = 1 THEN first ELSE StepFrom(g[i - 1])]

\* There is such a walk of every length.
LEMMA WalkExists ==
    ASSUME NEW first, NEW n \in Nat
    PROVE  \E g : IsWalk(g, n, first)
<1> DEFINE T == {k \in Nat : ~\E g : IsWalk(g, k, first)}
<1>1. SUFFICES ASSUME T # {}
               PROVE  FALSE
  OBVIOUS
<1>2. PICK k \in T : \A m \in T : k <= m
  BY <1>1, LeastNumber
<1>3. k \in Nat /\ ~\E g : IsWalk(g, k, first)
  OBVIOUS
<1>4. CASE k = 0
  <2>1. 1 .. k = {}
    BY <1>4
  <2>2. IsWalk([i \in 1 .. k |-> first], k, first)
    BY <2>1 DEF IsWalk
  <2> QED
    BY <1>3, <2>2
<1>5. CASE k # 0
  <2>1. k - 1 \in Nat /\ ~(k <= k - 1)
    BY <1>3, <1>5
  <2>2. PICK g : IsWalk(g, k - 1, first)
    BY <1>2, <2>1
  <2> DEFINE h == [i \in 1 .. k |-> IF i < k THEN g[i]
                                    ELSE IF i = 1 THEN first ELSE StepFrom(g[i - 1])]
  <2>3. ASSUME NEW i \in 1 .. k
        PROVE  h[i] = IF i = 1 THEN first ELSE StepFrom(h[i - 1])
    <3>1. CASE i < k
      <4>1. i \in 1 .. k - 1
        BY <1>3, <3>1
      <4>2. h[i] = g[i]
        BY <3>1
      <4>3. g[i] = IF i = 1 THEN first ELSE StepFrom(g[i - 1])
        BY <2>2, <4>1 DEF IsWalk
      <4>4. CASE i = 1
        BY <4>2, <4>3, <4>4
      <4>5. CASE i # 1
        <5>1. i - 1 \in 1 .. k /\ i - 1 < k
          BY <1>3, <3>1, <4>5
        <5>2. h[i - 1] = g[i - 1]
          BY <5>1
        <5> HIDE DEF h
        <5> QED
          BY <4>2, <4>3, <4>5, <5>2
      <4> QED
        BY <4>4, <4>5
    <3>2. CASE ~(i < k)
      <4>1. i = k
        BY <1>3, <3>2
      <4>2. h[i] = IF i = 1 THEN first ELSE StepFrom(g[i - 1])
        BY <3>2
      <4>3. CASE i = 1
        BY <4>2, <4>3
      <4>4. CASE i # 1
        <5>1. i - 1 \in 1 .. k /\ i - 1 < k
          BY <1>3, <4>1, <4>4
        <5>2. h[i - 1] = g[i - 1]
          BY <5>1
        <5> HIDE DEF h
        <5> QED
          BY <4>2, <4>4, <5>2
      <4> QED
        BY <4>3, <4>4
    <3> QED
      BY <3>1, <3>2
  <2>4. h = [i \in 1 .. k |-> h[i]]
    OBVIOUS
  <2> HIDE DEF h
  <2>5. h = [i \in 1 .. k |-> IF i = 1 THEN first ELSE StepFrom(h[i - 1])]
    BY ONLY <2>3, <2>4
  <2>6. IsWalk(h, k, first)
    BY <2>5 DEF IsWalk
  <2> QED
    BY <1>3, <2>6
<1> QED
  BY <1>4, <1>5

LEMMA StepsWalk ==
    ASSUME NEW first
    PROVE  /\ DOMAIN Steps(first) = 1 .. N
           /\ \A i \in 1 .. N :
                Steps(first)[i] = IF i = 1 THEN first ELSE StepFrom(Steps(first)[i - 1])
<1>1. N \in Nat
  BY SizesAssumption
<1>2. PICK g : IsWalk(g, N, first)
  BY <1>1, WalkExists
<1>3. IsWalk(Steps(first), N, first)
  BY <1>2 DEF IsWalk, Steps, StepFrom
<1> QED
  BY <1>3 DEF IsWalk

LEMMA WithinShape ==
    ASSUME NEW way, IsSeq(way), NEW S
    PROVE  IsSeq(WithinOf(way, S)) /\ Range(WithinOf(way, S)) \subseteq Range(way)
<1> DEFINE I == {i \in DOMAIN way : way[i] \in S}
           n == Cardinality(I)
           R == Range(way)
<1>1. Len(way) \in Nat /\ DOMAIN way = 1 .. Len(way) /\ way \in Seq(R)
  BY SeqShape DEF IsSeq
<1>2. n \in Nat /\ n <= Len(way)
  <2>1. IsFiniteSet(1 .. Len(way)) /\ Cardinality(1 .. Len(way)) = Len(way)
    BY <1>1, FS_Interval
  <2>2. I \subseteq 1 .. Len(way)
    BY <1>1
  <2>3. IsFiniteSet(I) /\ Cardinality(I) <= Cardinality(1 .. Len(way))
    BY <2>1, <2>2, FS_Subset
  <2> QED
    BY <2>1, <2>3, FS_CardinalityType
<1>3. WithinOf(way, S) = SubSeq(way, 1, n)
  BY DEF WithinOf
<1> HIDE DEF n, R
<1>4. SubSeq(way, 1, n) \in Seq(R)
  BY <1>1, <1>2, SubSeqProperties
<1>5. IsSeq(SubSeq(way, 1, n)) /\ Range(SubSeq(way, 1, n)) \subseteq R
  BY <1>4, SeqTyped
<1> QED
  BY <1>3, <1>5 DEF R

LEMMA VisitsShape ==
    ASSUME NEW entry
    PROVE  IsSeq(Visits(entry)) /\ Range(Visits(entry)) \subseteq Range(Steps(entry.cl))
<1> DEFINE way == Steps(entry.cl)
<1>1. DOMAIN way = 1 .. N
  BY StepsWalk
<1>2. way = [i \in 1 .. N |-> way[i]]
  <2>1. N \in Nat
    BY SizesAssumption
  <2>2. PICK g : IsWalk(g, N, entry.cl)
    BY <2>1, WalkExists
  <2>3. IsWalk(way, N, entry.cl)
    BY <2>2 DEF IsWalk, Steps, StepFrom
  <2> QED
    BY <2>3 DEF IsWalk
<1>3. Visits(entry) = WithinOf(way, Range(way) \ {EOF})
  BY DEF Visits
<1> HIDE DEF way
<1>4. IsSeq(way)
  BY <1>2, SizesAssumption, SeqOfAny
<1> QED
  BY <1>3, <1>4, WithinShape DEF way

\* A walk from the first cluster of a chain lists it, and then end marks.
LEMMA WalkAlong ==
    ASSUME NEW max \in Nat, NEW ch \in SeqUpTo(Data, max), IsChain(fat, ch)
    PROVE  \A i \in 1 .. N :
             IF i <= Len(ch) THEN Steps(ch[1])[i] = ch[i] ELSE Steps(ch[1])[i] = EOF
<1> DEFINE way == Steps(ch[1])
           T   == {i \in 1 .. N : ~(IF i <= Len(ch) THEN way[i] = ch[i] ELSE way[i] = EOF)}
<1>1. ChainShape(fat, ch)
  BY ChainFacts
<1>2. /\ DOMAIN way = 1 .. N /\ N \in Nat
      /\ \A i \in 1 .. N :
            way[i] = IF i = 1 THEN ch[1] ELSE StepFrom(way[i - 1])
  BY StepsWalk, SizesAssumption
<1> HIDE DEF way
<1>l. Len(ch) \in Nat \ {0} /\ DOMAIN ch = 1 .. Len(ch)
  BY <1>1 DEF ChainShape
<1>3. T = {}
  <2>1. SUFFICES ASSUME T # {}
                 PROVE  FALSE
    OBVIOUS
  <2>2. T \in SUBSET Nat
    BY <1>2
  <2>3. PICK i \in T : \A m \in T : i <= m
    BY <2>1, <2>2, LeastNumber
  <2>4. i \in 1 .. N /\ i \in Nat
    BY <2>2
  <2>5. CASE i = 1
    BY <1>2, <1>l, <2>4, <2>5
  <2>6. CASE i # 1
    <3>1. i - 1 \in 1 .. N /\ ~(i <= i - 1)
      BY <1>2, <2>4, <2>6
    <3>2. i - 1 \notin T
      BY <2>3, <3>1
    <3>3. way[i] = StepFrom(way[i - 1])
      BY <1>2, <2>4, <2>6
    <3>4. CASE i <= Len(ch)
      <4>1. i - 1 \in 1 .. Len(ch) /\ i \in 1 .. Len(ch) /\ i - 1 < Len(ch)
        BY <1>l, <2>4, <2>6, <3>4
      <4>2. way[i - 1] = ch[i - 1]
        BY <3>1, <3>2, <4>1
      <4>3. ch[i - 1] \in Data /\ ch[i] \in Data
        BY <1>1, <4>1 DEF ChainShape
      <4>5. fat[ch[i - 1]] = ch[i]
        <5>1. i > 1
          BY <2>4, <2>6
        <5> QED
          BY <1>1, <4>1, <5>1 DEF ChainShape
      <4>4. way[i] = ch[i]
        BY <3>3, <4>2, <4>3, <4>5, Numbers DEF StepFrom
      <4> QED
        BY <2>4, <3>4, <4>4
    <3>5. CASE i = Len(ch) + 1
      <4>1. i - 1 \in 1 .. Len(ch) /\ i - 1 = Len(ch)
        BY <1>l, <3>5
      <4>2. way[i - 1] = ch[i - 1]
        BY <3>1, <3>2, <4>1
      <4>3. fat[ch[i - 1]] = EOF
        BY <1>1, <4>1 DEF ChainShape
      <4>4. way[i] = EOF
        BY <3>3, <4>2, <4>3 DEF StepFrom
      <4> QED
        BY <1>l, <2>4, <3>5, <4>4
    <3>6. CASE i > Len(ch) + 1
      <4>1. ~(i - 1 <= Len(ch)) /\ ~(i <= Len(ch))
        BY <1>l, <2>4, <3>6
      <4>2. way[i - 1] = EOF
        BY <3>1, <3>2, <4>1
      <4>3. EOF \notin Clusters
        BY SizesAssumption DEF Clusters, EOF, CLUSTER_0
      <4>4. way[i] = EOF
        BY <3>3, <4>2, <4>3 DEF StepFrom
      <4> QED
        BY <2>4, <4>1, <4>4
    <3> QED
      BY <1>l, <2>4, <3>4, <3>5, <3>6
  <2> QED
    BY <2>5, <2>6
<1> QED
  BY <1>3 DEF way

\* It stays in the chain.
LEMMA WalkInChain ==
    ASSUME NEW max \in Nat, NEW ch \in SeqUpTo(Data, max), IsChain(fat, ch)
    PROVE  Range(Steps(ch[1])) \subseteq Range(ch) \cup {EOF}
<1> DEFINE way == Steps(ch[1])
<1>1. DOMAIN way = 1 .. N
  BY StepsWalk
<1>2. DOMAIN ch = 1 .. Len(ch) /\ Len(ch) \in Nat
  BY ChainFacts DEF ChainShape
<1>3. \A i \in 1 .. N : IF i <= Len(ch) THEN way[i] = ch[i] ELSE way[i] = EOF
  BY WalkAlong
<1> HIDE DEF way
<1>4. ASSUME NEW i \in 1 .. N
      PROVE  way[i] \in Range(ch) \cup {EOF}
  <2>1. CASE i <= Len(ch)
    <3>1. way[i] = ch[i] /\ i \in DOMAIN ch
      BY <1>2, <1>3, <2>1
    <3> QED
      BY <3>1 DEF Range
  <2>2. CASE ~(i <= Len(ch))
    BY <1>3, <2>2
  <2> QED
    BY <2>1, <2>2
<1>5. Range(way) \subseteq Range(ch) \cup {EOF}
  BY <1>1, <1>4 DEF Range
<1> QED
  BY <1>5 DEF way

----------------------------------------------------------------------------
(* Deleting. *)

LEMMA ClusterWrite ==
    ASSUME NEW S, NEW c \in S, NEW v \in Good
    PROVE  OfCluster(ToCluster(c, v), S)
BY DEF OfCluster, ToCluster

\* The clusters that a delete erases.
GoneBy(entry) == Range(IF entry.dir THEN <<entry.cl>> ELSE Visits(entry))

\* A write of the FAT that makes no link.
Unlinks(w) == \A c \in Data : w.value[c] \in {fat[c], EMPTY}

DeleteMeans(parent, name, s) ==
    /\ disk[parent].dir /\ s \in Slots /\ disk[parent].slot[s].name = name
    /\ IsSeq(pending')
    /\ call' = [op |-> "delete", parent |-> parent, name |-> name]
    /\ saved' = Image
    /\ UNCHANGED <<vars, resets>>
    /\ \A w \in Range(pending') :
         \/ OfCluster(w, GoneBy(disk[parent].slot[s]))
         \/ OfEntry(w, parent, s)
         \/ OfFAT(w, GoneBy(disk[parent].slot[s])) /\ Unlinks(w)
         \/ w.to = "index"
         \/ w.to = "boot" /\ w.value = FALSE /\ 0 \in GoneBy(disk[parent].slot[s])
         \/ w.to = "nowhere"

LEMMA FreedType ==
    ASSUME NEW f \in [Clusters -> Nat], NEW gone
    PROVE  /\ Freed(f, gone) \in [Clusters -> Nat]
           /\ \A c \in Data : c \notin gone => Freed(f, gone)[c] = f[c]
           /\ \A c \in Data : Freed(f, gone)[c] \in {f[c], EMPTY}
BY Numbers DEF Freed, EMPTY

LEMMA DeleteCall ==
    ASSUME Typed, NEW parent \in Parents, NEW name \in Names,
           StartDelete(parent, name)
    PROVE  \E s : DeleteMeans(parent, name, s)
<1>f. /\ fat \in [Clusters -> Nat] /\ disk[parent] \in Good /\ parent \in Clusters
      /\ fat[INDEX] \in Nat
  BY Numbers DEF Typed, DiskTyped
<1>1. PICK s \in FirstNamed(disk[parent], name) :
         LET entry == disk[parent].slot[s]
             table == Loaded(NoRecord)
             found == FirstRecord(table, <<name, parent>>)
             count == IF found = {} THEN fat[INDEX] ELSE fat[INDEX] - 1
             at    == IF found = {} THEN fat[INDEX] ELSE CHOOSE i \in found : TRUE
             gone  == IF entry.dir THEN <<entry.cl>> ELSE Visits(entry)
             inside == WithinOf(gone, Clusters)
             zeros == [i \in DOMAIN inside |-> ZeroWrite(inside[i])]
         IN  /\ ~RefusesDelete(entry)
             /\ Begin("delete", parent, name, DeleteOrder(
                  ShiftWrites(at),
                  IF found = {} THEN <<>>
                                ELSE FatWrites([fat EXCEPT ![INDEX] = count]),
                  zeros \o
                  IF inside # gone THEN <<Lost>>
                  ELSE EntryWrites(parent, [disk[parent] EXCEPT !.slot[s] = Reset(@)])
                       \o FatWrites([Freed(fat, Range(gone)) EXCEPT ![INDEX] = count])))
  BY DEF StartDelete
<1> DEFINE entry == disk[parent].slot[s]
           table == Loaded(NoRecord)
           found == FirstRecord(table, <<name, parent>>)
           count == IF found = {} THEN fat[INDEX] ELSE fat[INDEX] - 1
           at    == IF found = {} THEN fat[INDEX] ELSE CHOOSE i \in found : TRUE
           gone  == IF entry.dir THEN <<entry.cl>> ELSE Visits(entry)
           inside == WithinOf(gone, Clusters)
           zeros == [i \in DOMAIN inside |-> ZeroWrite(inside[i])]
           v     == ResetTable(disk[parent], s)
           counted == IF found = {} THEN <<>> ELSE FatWrites([fat EXCEPT ![INDEX] = count])
           freed == [Freed(fat, Range(gone)) EXCEPT ![INDEX] = count]
           rest  == IF inside # gone THEN <<Lost>>
                    ELSE EntryWrites(parent, v) \o FatWrites(freed)
<1>2. /\ pending' = DeleteOrder(ShiftWrites(at), counted, zeros \o rest)
      /\ call' = [op |-> "delete", parent |-> parent, name |-> name]
      /\ saved' = Image
      /\ UNCHANGED <<vars, resets>>
  BY <1>1 DEF Begin, ResetTable
<1>3. s \in Slots /\ disk[parent].slot[s].name = name /\ disk[parent].dir
  BY <1>1 DEF FirstNamed, StartDelete
<1>4. count \in Nat /\ at \in Nat
  <2>1. CASE found = {}
    BY <1>f, <2>1
  <2>2. CASE found # {}
    <3>1. at \in found
      BY <2>2
    <3>2. at \in DOMAIN table
      BY <3>1 DEF FirstRecord
    <3>3. DOMAIN table = 1 .. fat[INDEX]
      BY DEF Loaded
    <3>4. at \in 1 .. fat[INDEX]
      BY <3>2, <3>3
    <3> HIDE DEF at, found
    <3> QED
      BY <1>f, <2>2, <3>4
  <2> QED
    BY <2>1, <2>2
<1>5. IsSeq(gone)
  BY SeqOne, VisitsShape
<1>g. GoneBy(entry) = Range(gone)
  BY DEF GoneBy
<1> HIDE DEF gone
<1>6. IsSeq(inside) /\ Range(inside) \subseteq Range(gone)
  BY <1>5, WithinShape
<1> HIDE DEF inside, at, found, count
<1>7. IsSeq(zeros) /\ \A w \in Range(zeros) :
        \/ OfCluster(w, Range(gone))
        \/ w.to = "boot" /\ w.value = FALSE /\ 0 \in Range(gone)
  <2>1. /\ Len(inside) \in Nat /\ DOMAIN inside = 1 .. Len(inside)
    BY <1>6, SeqShape
  <2>2. /\ DOMAIN zeros = 1 .. Len(inside) /\ zeros = [i \in 1 .. Len(inside) |-> zeros[i]]
        /\ \A i \in 1 .. Len(inside) : zeros[i] = ZeroWrite(inside[i])
    BY <2>1
  <2> HIDE DEF zeros
  <2>3. IsSeq(zeros)
    BY <2>1, <2>2, SeqOfAny
  <2>4. ASSUME NEW i \in 1 .. Len(inside)
        PROVE  \/ OfCluster(zeros[i], Range(gone))
               \/ /\ zeros[i].to = "boot" /\ zeros[i].value = FALSE
                  /\ 0 \in Range(gone)
    <3>1. inside[i] \in Range(gone)
      BY <1>6, <2>1 DEF Range
    <3>2. CASE inside[i] = 0
      <4>1. zeros[i] = ToBoot(FALSE)
        BY <2>2, <3>2 DEF ZeroWrite
      <4>2. ToBoot(FALSE).to = "boot" /\ ToBoot(FALSE).value = FALSE
        BY DEF ToBoot
      <4> QED
        BY <3>1, <3>2, <4>1, <4>2
    <3>3. CASE inside[i] # 0
      <4>1. zeros[i] = ToCluster(inside[i], Blank)
        BY <2>2, <3>3 DEF ZeroWrite
      <4>2. OfCluster(ToCluster(inside[i], Blank), Range(gone))
        BY <3>1, GoodBlank, ClusterWrite
      <4> QED
        BY <4>1, <4>2
    <3> QED
      BY <3>2, <3>3
  <2> QED
    BY <2>2, <2>3, <2>4 DEF Range
<1> HIDE DEF zeros
<1>8. IsSeq(counted) /\ \A w \in Range(counted) : OfFAT(w, Range(gone)) /\ Unlinks(w)
  <2>1. CASE found = {}
    BY <2>1, SeqNone
  <2>2. CASE found # {}
    <3>1. /\ [fat EXCEPT ![INDEX] = count] \in [Clusters -> Nat]
          /\ \A c \in Data : [fat EXCEPT ![INDEX] = count][c] = fat[c]
      BY <1>4, <1>f, CountedType
    <3> DEFINE t == [fat EXCEPT ![INDEX] = count]
    <3>2. counted = FatWrites(t)
      BY <2>2
    <3>3. t \in [Clusters -> Nat] /\ \A c \in Data : t[c] = fat[c]
      BY <3>1
    <3> HIDE DEF t, counted
    <3> QED
      BY <3>2, <3>3, FatWritesShape DEF OfFAT, Unlinks
  <2> QED
    BY <2>1, <2>2
<1> HIDE DEF counted
<1>9. /\ v \in Good /\ v.notempty \in BOOLEAN
      /\ v.dir = disk[parent].dir /\ v.up = disk[parent].up
      /\ v.data = disk[parent].data
      /\ \A t \in Slots : t # s => v.slot[t] = disk[parent].slot[t]
  BY <1>3, <1>f, GoodReset
<1> HIDE DEF v
<1>10. IsSeq(EntryWrites(parent, v))
       /\ \A w \in Range(EntryWrites(parent, v)) : OfEntry(w, parent, s)
  <2> DEFINE u == [disk[parent] EXCEPT !.notempty = v.notempty]
  <2>1. /\ u \in Good /\ u.dir = disk[parent].dir /\ u.up = disk[parent].up
        /\ u.data = disk[parent].data /\ u.slot = disk[parent].slot
    BY <1>9, <1>f, GoodHeader
  <2>2. /\ IsSeq(EntryWrites(parent, v))
        /\ Range(EntryWrites(parent, v)) = {ToCluster(parent, u), ToCluster(parent, v)}
    BY EntryWritesShape
  <2> HIDE DEF u
  <2>3. OfEntry(ToCluster(parent, u), parent, s)
    BY <2>1 DEF OfEntry, ToCluster
  <2>4. OfEntry(ToCluster(parent, v), parent, s)
    BY <1>9 DEF OfEntry, ToCluster
  <2> QED
    BY <2>2, <2>3, <2>4
<1>11. /\ freed \in [Clusters -> Nat]
       /\ \A c \in Data : c \notin Range(gone) => freed[c] = fat[c]
       /\ \A c \in Data : freed[c] \in {fat[c], EMPTY}
  <2> DEFINE t == Freed(fat, Range(gone))
  <2>1. /\ t \in [Clusters -> Nat]
        /\ \A c \in Data : c \notin Range(gone) => t[c] = fat[c]
        /\ \A c \in Data : t[c] \in {fat[c], EMPTY}
    BY <1>f, FreedType
  <2> HIDE DEF t
  <2>2. /\ [t EXCEPT ![INDEX] = count] \in [Clusters -> Nat]
        /\ \A c \in Data : [t EXCEPT ![INDEX] = count][c] = t[c]
    BY <1>4, <2>1, CountedType
  <2> QED
    BY <2>1, <2>2 DEF t
<1> HIDE DEF freed
<1>12. IsSeq(FatWrites(freed))
       /\ \A w \in Range(FatWrites(freed)) : OfFAT(w, Range(gone)) /\ Unlinks(w)
  BY <1>11, FatWritesShape DEF OfFAT, Unlinks
<1>13. IsSeq(rest) /\ \A w \in Range(rest) :
         \/ OfEntry(w, parent, s) \/ (OfFAT(w, Range(gone)) /\ Unlinks(w))
         \/ w.to = "nowhere"
  <2>1. CASE inside # gone
    BY <2>1, SeqOne DEF Lost
  <2>2. CASE inside = gone
    <3>1. rest = EntryWrites(parent, v) \o FatWrites(freed)
      BY <2>2
    <3> HIDE DEF rest
    <3>2. /\ IsSeq(rest)
          /\ Range(rest) = Range(EntryWrites(parent, v)) \cup Range(FatWrites(freed))
      BY <1>10, <1>12, <3>1, SeqJoin
    <3> DEFINE X == EntryWrites(parent, v)
               Y == FatWrites(freed)
    <3> HIDE DEF X, Y
    <3>3. /\ \A w \in Range(X) : OfEntry(w, parent, s)
          /\ \A w \in Range(Y) : OfFAT(w, Range(gone)) /\ Unlinks(w)
      BY <1>10, <1>12 DEF X, Y
    <3>4. Range(rest) = Range(X) \cup Range(Y)
      BY <3>2 DEF X, Y
    <3> QED
      BY ONLY <3>2, <3>3, <3>4
  <2> QED
    BY <2>1, <2>2
<1> HIDE DEF rest
<1>14. IsSeq(ShiftWrites(at)) /\ \A w \in Range(ShiftWrites(at)) : w.to = "index"
  BY <1>4, <1>f, ShiftWritesShape
<1>15. /\ IsSeq(pending')
       /\ Range(pending') = Range(ShiftWrites(at)) \cup Range(counted)
             \cup Range(zeros) \cup Range(rest)
  <2>1. pending' = (ShiftWrites(at) \o counted) \o (zeros \o rest)
    BY <1>2 DEF DeleteOrder
  <2>2. /\ IsSeq(ShiftWrites(at) \o counted)
        /\ Range(ShiftWrites(at) \o counted) = Range(ShiftWrites(at)) \cup Range(counted)
    BY <1>8, <1>14, SeqJoin
  <2>3. IsSeq(zeros \o rest) /\ Range(zeros \o rest) = Range(zeros) \cup Range(rest)
    BY <1>7, <1>13, SeqJoin
  <2>4. /\ IsSeq((ShiftWrites(at) \o counted) \o (zeros \o rest))
        /\ Range((ShiftWrites(at) \o counted) \o (zeros \o rest))
             = Range(ShiftWrites(at) \o counted) \cup Range(zeros \o rest)
    BY <2>2, <2>3, SeqJoin
  <2> QED
    BY <2>1, <2>2, <2>3, <2>4
<1>16. \A w \in Range(pending') :
         \/ OfCluster(w, Range(gone))
         \/ OfEntry(w, parent, s)
         \/ OfFAT(w, Range(gone)) /\ Unlinks(w)
         \/ w.to = "index"
         \/ w.to = "boot" /\ w.value = FALSE /\ 0 \in Range(gone)
         \/ w.to = "nowhere"
  BY <1>7, <1>8, <1>13, <1>14, <1>15
<1>17. DeleteMeans(parent, name, s)
  BY <1>2, <1>3, <1>15, <1>16, <1>g DEF DeleteMeans
<1> QED
  BY <1>17

----------------------------------------------------------------------------
(* The types are kept. *)

LEMMA AppliedFacts ==
    ASSUME fat \in [Clusters -> Nat], disk \in [Clusters -> Good],
           NEW w, WellMade(w), Applied(w)
    PROVE  /\ fat' \in [Clusters -> Nat] /\ disk' \in [Clusters -> Good]
           /\ \A c \in Clusters : fat'[c] = fat[c]
                 \/ (w.to = "fat" /\ c \div BlockCells = w.at /\ fat'[c] = w.value[c])
           /\ \A c \in Clusters : disk'[c] = disk[c]
                 \/ (w.to = "disk" /\ w.at = c /\ disk'[c] = w.value)
<1>1. fat' = [c \in Clusters |->
                 IF w.to = "fat" /\ c \div BlockCells = w.at THEN w.value[c] ELSE fat[c]]
  BY DEF Applied
<1>2. disk' = IF w.to = "disk" THEN [disk EXCEPT ![w.at] = w.value] ELSE disk
  BY DEF Applied
<1>3. /\ fat' \in [Clusters -> Nat]
      /\ \A c \in Clusters : fat'[c] = fat[c]
           \/ (w.to = "fat" /\ c \div BlockCells = w.at /\ fat'[c] = w.value[c])
  <2>1. CASE w.to = "fat"
    <3>1. w.value \in [Clusters -> Nat]
      BY <2>1 DEF WellMade
    <3> QED
      BY <1>1, <2>1, <3>1
  <2>2. CASE w.to # "fat"
    <3>1. fat' = [c \in Clusters |-> fat[c]]
      BY <1>1, <2>2
    <3> QED
      BY <3>1
  <2> QED
    BY <2>1, <2>2
<1>4. /\ disk' \in [Clusters -> Good]
      /\ \A c \in Clusters : disk'[c] = disk[c]
           \/ (w.to = "disk" /\ w.at = c /\ disk'[c] = w.value)
  <2>1. CASE w.to = "disk"
    <3>1. w.value \in Good
      BY <2>1 DEF WellMade
    <3> QED
      BY <1>2, <2>1, <3>1
  <2>2. CASE w.to # "disk"
    BY <1>2, <2>2
  <2> QED
    BY <2>1, <2>2
<1> QED
  BY <1>3, <1>4

LEMMA TypedInit == InitWrites => Typed
<1> SUFFICES ASSUME InitWrites
             PROVE  Typed
  OBVIOUS
<1>1. DiskTyped(fat, disk)
  BY GoodBlank DEF InitWrites, Init, ZeroTable, DiskTyped, EMPTY
<1>2. saved = Image
  BY DEF InitWrites
<1>3. /\ saved = [signature |-> saved.signature, fat |-> saved.fat,
                  disk |-> saved.disk, index |-> saved.index]
      /\ saved.fat = fat /\ saved.disk = disk
  BY <1>2 DEF Image
<1>4. IsSeq(pending) /\ Range(pending) = {}
  BY SeqNone DEF InitWrites
<1> QED
  BY <1>1, <1>3, <1>4 DEF Typed, InitWrites, Init, DiskTyped

\* A call that starts leaves the disk as it is.
LEMMA TypedStart ==
    ASSUME Typed, UNCHANGED <<vars, resets>>, saved' = Image,
           IsSeq(pending'), \A w \in Range(pending') : WellMade(w)
    PROVE  Typed'
<1>1. /\ signature' = signature /\ fat' = fat /\ disk' = disk /\ mounted' = mounted
      /\ exhausted' = exhausted
  BY DEF vars
<1>2. /\ saved' = [signature |-> saved'.signature, fat |-> saved'.fat,
                   disk |-> saved'.disk, index |-> saved'.index]
      /\ saved'.fat = fat /\ saved'.disk = disk
  BY DEF Image
<1>3. DiskTyped(fat, disk)'
  BY <1>1 DEF Typed, DiskTyped
<1>4. DiskTyped(saved.fat, saved.disk)'
  BY <1>2 DEF Typed, DiskTyped
<1> QED
  BY <1>1, <1>2, <1>3, <1>4 DEF Typed

LEMMA MeansWellMade ==
    ASSUME NEW w, NEW S, NEW parent, NEW s,
           \/ OfCluster(w, S) \/ OfEntry(w, parent, s) \/ OfFAT(w, S)
           \/ w.to = "index" \/ w.to = "nowhere"
           \/ w.to = "boot" /\ w.value \in BOOLEAN
    PROVE  WellMade(w)
BY DEF OfCluster, OfEntry, OfFAT, WellMade

LEMMA TypedWrite ==
    ASSUME Typed, NEW parent \in Parents, NEW name \in Names, NEW buf \in Buffers,
           StartWrite(parent, name, buf)
    PROVE  Typed'
<1>1. PICK s, cl : WriteMeans(parent, name, buf, s, cl)
  BY WriteCall
<1>2. \A w \in Range(pending') : WellMade(w)
  BY <1>1, WriteKinds, MeansWellMade
<1> QED
  BY <1>1, <1>2, TypedStart DEF WriteMeans

LEMMA TypedDelete ==
    ASSUME Typed, NEW parent \in Parents, NEW name \in Names,
           StartDelete(parent, name)
    PROVE  Typed'
<1>1. PICK s : DeleteMeans(parent, name, s)
  BY DeleteCall
<1>2. \A w \in Range(pending') : WellMade(w)
  BY <1>1, MeansWellMade DEF DeleteMeans
<1> QED
  BY <1>1, <1>2, TypedStart DEF DeleteMeans

LEMMA TypedFormat == ASSUME Typed, StartFormat PROVE Typed'
<1> DEFINE first == [c \in Clusters |-> IF c \in {4, 5} THEN EMPTY ELSE FormattedTable[c]]
           root  == DirTable(NoName, ROOT)
           two   == <<ToBoot(TRUE), ToCluster(ROOT, root)>>
<1>1. /\ pending' = FatWrites(first) \o two \o FatWrites(FormattedTable)
      /\ saved' = Image /\ UNCHANGED <<vars, resets>>
  BY DEF StartFormat, Begin
<1>2. FormattedTable \in [Clusters -> Nat] /\ first \in [Clusters -> Nat]
  BY DEF FormattedTable, EMPTY, EOF, CLUSTER_0
<1>3. root \in Good
  <2>1. ROOT \in Clusters
    BY Numbers
  <2> QED
    BY <2>1, GoodTable
<1> HIDE DEF first, root
<1>4. WellMade(ToBoot(TRUE)) /\ WellMade(ToCluster(ROOT, root))
  <2>1. WellMade(ToBoot(TRUE))
    BY DEF WellMade, ToBoot
  <2>2. OfCluster(ToCluster(ROOT, root), {ROOT})
    BY <1>3, ClusterWrite
  <2> QED
    BY <2>1, <2>2 DEF OfCluster, WellMade
<1>5. IsSeq(two) /\ \A w \in Range(two) : WellMade(w)
  <2>1. IsSeq(two) /\ Range(two) = {ToBoot(TRUE), ToCluster(ROOT, root)}
    BY SeqTwo
  <2> HIDE DEF two
  <2> QED
    BY <1>4, <2>1
<1>6. /\ IsSeq(FatWrites(first)) /\ IsSeq(FatWrites(FormattedTable))
      /\ \A w \in Range(FatWrites(first)) : WellMade(w)
      /\ \A w \in Range(FatWrites(FormattedTable)) : WellMade(w)
  BY <1>2, FatWritesShape DEF WellMade
<1> HIDE DEF two
<1>7. /\ IsSeq(FatWrites(first) \o two)
      /\ Range(FatWrites(first) \o two) = Range(FatWrites(first)) \cup Range(two)
  BY <1>5, <1>6, SeqJoin
<1>8. /\ IsSeq(FatWrites(first) \o two \o FatWrites(FormattedTable))
      /\ Range(FatWrites(first) \o two \o FatWrites(FormattedTable))
           = Range(FatWrites(first) \o two) \cup Range(FatWrites(FormattedTable))
  BY <1>6, <1>7, SeqJoin
<1>9. IsSeq(pending') /\ \A w \in Range(pending') : WellMade(w)
  BY <1>1, <1>5, <1>6, <1>7, <1>8
<1> QED
  BY <1>1, <1>9, TypedStart

\* What one write changes, and what is left to be written.
LEMMA NextWriteFacts ==
    ASSUME Typed, WriteNext
    PROVE  \E w \in Range(pending) :
             /\ WellMade(w) /\ Applied(w)
             /\ fat' \in [Clusters -> Nat] /\ disk' \in [Clusters -> Good]
             /\ IsSeq(pending') /\ Range(pending') \subseteq Range(pending)
             /\ exhausted' = exhausted
             /\ \/ saved' = Image' /\ call' = NoCall /\ pending' = <<>> /\ mounted' = TRUE
                \/ saved' = saved /\ call' = call /\ mounted' = mounted
<1>1. /\ Head(pending) \in Range(pending)
      /\ IsSeq(Tail(pending)) /\ Range(Tail(pending)) \subseteq Range(pending)
      /\ Len(pending) = 1 => Tail(pending) = <<>>
  BY SeqRest DEF Typed, WriteNext
<1>2. /\ Applied(Head(pending)) /\ pending' = Tail(pending) /\ exhausted' = exhausted
      /\ \/ Len(pending) = 1 /\ Return
         \/ Len(pending) # 1 /\ saved' = saved /\ call' = call /\ mounted' = mounted
  BY DEF WriteNext
<1>3. WellMade(Head(pending))
  BY <1>1 DEF Typed
<1>4. fat' \in [Clusters -> Nat] /\ disk' \in [Clusters -> Good]
  BY <1>2, <1>3, AppliedFacts DEF Typed, DiskTyped
<1>5. Return => saved' = Image' /\ call' = NoCall /\ mounted' = TRUE
  BY DEF Return
<1> QED
  BY <1>1, <1>2, <1>3, <1>4, <1>5

LEMMA TypedStep ==
    ASSUME Typed, WriteNext \/ LoadAgain \/ Stop \/ UNCHANGED allVars
    PROVE  Typed'
<1>1. CASE WriteNext
  <2>1. PICK w \in Range(pending) :
             /\ WellMade(w) /\ Applied(w)
             /\ fat' \in [Clusters -> Nat] /\ disk' \in [Clusters -> Good]
             /\ IsSeq(pending') /\ Range(pending') \subseteq Range(pending)
             /\ exhausted' = exhausted
             /\ \/ saved' = Image' /\ call' = NoCall /\ pending' = <<>> /\ mounted' = TRUE
                \/ saved' = saved /\ call' = call /\ mounted' = mounted
    BY <1>1, NextWriteFacts
  <2>2. signature' \in BOOLEAN
    <3>1. CASE w.to = "boot"
      BY <2>1, <3>1 DEF WellMade, Applied
    <3>2. CASE w.to # "boot"
      BY <2>1, <3>2 DEF Applied, Typed
    <3> QED
      BY <3>1, <3>2
  <2>3. \A x \in Range(pending') : WellMade(x)
    BY <2>1 DEF Typed
  <2>4. mounted' \in BOOLEAN
    BY <2>1 DEF Typed
  <2>5. /\ saved' = [signature |-> saved'.signature, fat |-> saved'.fat,
                     disk |-> saved'.disk, index |-> saved'.index]
        /\ DiskTyped(saved'.fat, saved'.disk)
    <3>1. CASE saved' = Image'
      <4>1. /\ saved'.fat = fat' /\ saved'.disk = disk'
            /\ saved' = [signature |-> saved'.signature, fat |-> saved'.fat,
                         disk |-> saved'.disk, index |-> saved'.index]
        BY <3>1 DEF Image
      <4> QED
        BY <2>1, <4>1 DEF DiskTyped
    <3>2. CASE saved' = saved
      BY <3>2 DEF Typed
    <3> QED
      BY <2>1, <3>1, <3>2
  <2> QED
    BY <2>1, <2>2, <2>3, <2>4, <2>5 DEF Typed, DiskTyped
<1>2. CASE LoadAgain
  <2>1. /\ pending' = <<>> /\ saved' = Image /\ signature' = signature /\ fat' = fat
        /\ disk' = disk /\ exhausted' = exhausted /\ mounted' = TRUE
    BY <1>2 DEF LoadAgain, Load
  <2>2. /\ saved' = [signature |-> saved'.signature, fat |-> saved'.fat,
                     disk |-> saved'.disk, index |-> saved'.index]
        /\ saved'.fat = fat /\ saved'.disk = disk
    BY <2>1 DEF Image
  <2>3. IsSeq(pending') /\ Range(pending') = {}
    BY <2>1, SeqNone
  <2> QED
    BY <2>1, <2>2, <2>3 DEF Typed, DiskTyped
<1>3. CASE Stop
  <2>1. /\ pending' = <<>> /\ saved' = saved /\ signature' = signature /\ fat' = fat
        /\ disk' = disk /\ exhausted' = exhausted /\ mounted' = FALSE
    BY <1>3 DEF Stop
  <2>2. IsSeq(pending') /\ Range(pending') = {}
    BY <2>1, SeqNone
  <2> QED
    BY <2>1, <2>2 DEF Typed, DiskTyped
<1>4. CASE UNCHANGED allVars
  BY <1>4 DEF allVars, vars, Typed, DiskTyped
<1> QED
  BY <1>1, <1>2, <1>3, <1>4

LEMMA NextTyped == Typed /\ [NextWrites]_allVars => Typed'
<1> SUFFICES ASSUME Typed, [NextWrites]_allVars
             PROVE  Typed'
  OBVIOUS
<1>1. \/ StartFormat \/ LoadAgain \/ Stop \/ WriteNext \/ UNCHANGED allVars
      \/ \E parent \in Parents, name \in Names :
           \/ \E buf \in Buffers : StartWrite(parent, name, buf)
           \/ StartDelete(parent, name)
  BY DEF NextWrites
<1> QED
  BY <1>1, TypedFormat, TypedStep, TypedWrite, TypedDelete

LEMMA AlwaysTyped == SpecWrites => []Typed
<1> QED
  BY TypedInit, NextTyped, PTL DEF SpecWrites

----------------------------------------------------------------------------
(* A call that starts finds the disk that Saved stands for. *)

Sound == NoCrossLink /\ EntriesLead /\ FreeIsBlank

LEMMA SavedNow ==
    ASSUME saved' = Image, exhausted' = exhausted
    PROVE  /\ Saved!Live' = Live
           /\ \A e : Saved!EntryAt(e)' = EntryAt(e) /\ Saved!HeadOf(e)' = HeadOf(e)
           /\ saved'.fat = fat /\ saved'.disk = disk
           /\ \A f, ch : Saved!IsChain(f, ch) = IsChain(f, ch)
           /\ SavedSound' = Sound
<1>1. saved'.fat = fat /\ saved'.disk = disk
  BY DEF Image
<1>2. /\ Saved!EOF = EOF /\ Saved!EMPTY = EMPTY
      /\ Saved!Data = Data /\ Saved!Slots = Slots /\ Saved!Parents = Parents
  <2>1. Saved!EOF = EOF
    BY SMT DEF Saved!EOF, EOF
  <2>2. Saved!EMPTY = EMPTY
    BY SMT DEF Saved!EMPTY, EMPTY
  <2>3. Saved!Data = Data
    BY SMT DEF Saved!Data, Data, Saved!FIRST_DATA, FIRST_DATA
  <2>4. Saved!Slots = Slots
    BY SMT DEF Saved!Slots, Slots
  <2>5. Saved!Parents = Parents
    BY <2>3, SMT DEF Saved!Parents, Parents, Saved!ROOT, ROOT,
       Saved!SUGAR_PARENT, SUGAR_PARENT
  <2> QED
    BY <2>1, <2>2, <2>3, <2>4, <2>5
<1>3. Saved!Live' = Live
  BY <1>1, <1>2, SMT DEF Saved!Live, Live
<1>4. \A e : Saved!EntryAt(e)' = EntryAt(e) /\ Saved!HeadOf(e)' = HeadOf(e)
  BY <1>1, SMT DEF Saved!EntryAt, EntryAt, Saved!HeadOf, HeadOf
<1>5. \A f, ch : Saved!IsChain(f, ch) = IsChain(f, ch)
  BY <1>2, SMT DEF Saved!IsChain, IsChain
<1>6. Saved!NoCrossLink' = NoCrossLink
  BY <1>1, <1>2, <1>3, <1>4, SMT DEF Saved!NoCrossLink, NoCrossLink
<1>7. Saved!FreeIsBlank' = FreeIsBlank
  <2>1. Saved!FreeEntry = FreeEntry
    BY SMT DEF Saved!FreeEntry, FreeEntry
  <2>2. Saved!Blank = Blank
    BY <1>2, <2>1, SMT DEF Saved!Blank, Blank
  <2> QED
    BY <1>1, <1>2, <2>2, SMT DEF Saved!FreeIsBlank, FreeIsBlank
<1>8. Saved!EntriesLead' = EntriesLead
  <2>1. Saved!SeqUpTo(Data, MaxFragments) = SeqUpTo(Data, MaxFragments)
    BY SMT DEF Saved!SeqUpTo, SeqUpTo
  <2> QED
    BY <1>1, <1>2, <1>3, <1>4, <1>5, <2>1, SMT DEF Saved!EntriesLead, EntriesLead
<1> QED
  BY <1>1, <1>3, <1>4, <1>5, <1>6, <1>7, <1>8, SMT DEF SavedSound, Sound

----------------------------------------------------------------------------
(* Who the bystanders are, when a call starts. *)

LEMMA BystandersNow ==
    ASSUME saved' = Image, exhausted' = exhausted, NEW e \in Bystanders'
    PROVE  /\ e \in Live
           /\ ~(e[1] = call'.parent /\ EntryAt(e).name = call'.name)
           /\ \A t \in Live : t[1] = call'.parent /\ EntryAt(t).name = call'.name
                               => HeadOf(t) # e[1]
BY SavedNow DEF Bystanders, Concerned, Target

LEMMA OwnedNow ==
    ASSUME saved' = Image, exhausted' = exhausted, NEW c \in Owned'
    PROVE  /\ c \in Data
           /\ \E e \in Bystanders' :
                IF EntryAt(e).dir THEN c = HeadOf(e)
                ELSE \E ch \in SeqUpTo(Data, MaxFragments) :
                       IsChain(fat, ch) /\ ch[1] = HeadOf(e) /\ c \in Range(ch)
<1>1. /\ c \in Data
      /\ \E e \in Bystanders' :
           IF Saved!EntryAt(e)'.dir THEN c = Saved!HeadOf(e)'
           ELSE \E ch \in SeqUpTo(Data, MaxFragments) \ {<<>>} :
                   /\ Saved!IsChain(saved'.fat, ch)
                   /\ ch[1] = Saved!HeadOf(e)'
                   /\ c \in Range(ch)
  BY DEF Owned
<1>2. PICK e \in Bystanders' :
        IF Saved!EntryAt(e)'.dir THEN c = Saved!HeadOf(e)'
        ELSE \E ch \in SeqUpTo(Data, MaxFragments) \ {<<>>} :
                /\ Saved!IsChain(saved'.fat, ch)
                /\ ch[1] = Saved!HeadOf(e)'
                /\ c \in Range(ch)
  BY <1>1
<1>3. /\ Saved!EntryAt(e)' = EntryAt(e) /\ Saved!HeadOf(e)' = HeadOf(e)
      /\ saved'.fat = fat
      /\ \A f, ch : Saved!IsChain(f, ch) = IsChain(f, ch)
  BY SavedNow
<1>4. IF EntryAt(e).dir THEN c = HeadOf(e)
      ELSE \E ch \in SeqUpTo(Data, MaxFragments) :
             IsChain(fat, ch) /\ ch[1] = HeadOf(e) /\ c \in Range(ch)
  BY <1>2, <1>3
<1> QED
  BY <1>1, <1>4

\* A cluster that a bystander has is in use.
LEMMA OwnedUsed ==
    ASSUME saved' = Image, exhausted' = exhausted, exhausted = FALSE, Sound,
           NEW c \in Owned'
    PROVE  fat[c] # EMPTY
<1>1. PICK e \in Bystanders' :
        IF EntryAt(e).dir THEN c = HeadOf(e)
        ELSE \E ch \in SeqUpTo(Data, MaxFragments) :
               IsChain(fat, ch) /\ ch[1] = HeadOf(e) /\ c \in Range(ch)
  BY OwnedNow
<1>2. e \in Live
  BY BystandersNow
<1>3. CASE EntryAt(e).dir
  <2>1. c = HeadOf(e) /\ fat[HeadOf(e)] = EOF
    BY <1>1, <1>2, <1>3 DEF Sound, EntriesLead
  <2> QED
    BY <2>1, Numbers
<1>4. CASE ~EntryAt(e).dir
  <2>1. PICK ch \in SeqUpTo(Data, MaxFragments) : IsChain(fat, ch) /\ c \in Range(ch)
    BY <1>1, <1>4
  <2>2. MaxFragments \in Nat
    BY SizesAssumption
  <2>3. ChainShape(fat, ch)
    BY <2>1, <2>2, ChainFacts
  <2>4. PICK i \in DOMAIN ch : ch[i] = c
    BY <2>1 DEF Range
  <2> QED
    BY <2>3, <2>4 DEF ChainShape
<1> QED
  BY <1>3, <1>4

\* A call that stays away from the bystanders when it works out its writes.
LEMMA SparedStart ==
    ASSUME Typed, saved' = Image, UNCHANGED vars,
           NEW parent, NEW s, NEW S, disk[parent].dir,
           \A c \in Owned' : c \notin S,
           \A e \in Bystanders' : e[1] \notin S /\ e # <<parent, s>>,
           \A w \in Range(pending') :
              \/ OfCluster(w, S) \/ OfEntry(w, parent, s) \/ OfFAT(w, S)
              \/ w.to \in {"index", "boot", "nowhere"}
    PROVE  Protected'
<1>1. /\ fat' = fat /\ disk' = disk /\ exhausted' = exhausted
      /\ saved'.fat = fat /\ saved'.disk = disk
  BY SavedNow DEF vars
<1>2. ASSUME NEW e \in Bystanders'
      PROVE  /\ e \in Live /\ disk[e[1]].dir /\ e[2] \in Slots /\ e = <<e[1], e[2]>>
             /\ e[1] = parent => e[2] # s
  <2>1. e \in Live
    BY <1>1, BystandersNow
  <2>2. disk[e[1]].dir /\ e[2] \in Slots /\ e = <<e[1], e[2]>>
    BY <2>1 DEF Live
  <2>3. e # <<parent, s>>
    OBVIOUS
  <2> QED
    BY <2>1, <2>2, <2>3
<1>3. ASSUME NEW c \in Clusters
      PROVE  Keeps(c, disk[c])'
  BY <1>1, <1>2 DEF Keeps
<1>4. ASSUME NEW w \in Range(pending')
      PROVE  Harmless(w)'
  <2>1. \/ OfCluster(w, S) \/ OfEntry(w, parent, s) \/ OfFAT(w, S)
        \/ w.to \in {"index", "boot", "nowhere"}
    OBVIOUS
  <2>2. CASE OfCluster(w, S)
    <3>1. w.to = "disk" /\ w.at \in S
      BY <2>2 DEF OfCluster
    <3>2. w.at \notin Owned' /\ \A e \in Bystanders' : e[1] # w.at
      BY <3>1
    <3> QED
      BY <3>1, <3>2 DEF Harmless, Keeps
  <2>3. CASE OfEntry(w, parent, s)
    <3>1. /\ w.to = "disk" /\ w.at = parent
          /\ w.value.dir = disk[parent].dir /\ w.value.up = disk[parent].up
          /\ w.value.data = disk[parent].data
          /\ \A t \in Slots : t # s => w.value.slot[t] = disk[parent].slot[t]
      BY <2>3 DEF OfEntry
    <3>2. \A e \in Bystanders' :
            e[1] = parent => w.value.slot[e[2]] = disk[parent].slot[e[2]]
      BY <1>2, <3>1
    <3>3. Keeps(w.at, w.value)'
      <4>1. /\ w.value.dir = saved'.disk[parent].dir
            /\ w.value.up = saved'.disk[parent].up
            /\ w.value.data = saved'.disk[parent].data
        BY <1>1, <3>1
      <4>2. \A e \in Bystanders' : e[1] = parent =>
              w.value.dir /\ w.value.slot[e[2]] = saved'.disk[parent].slot[e[2]]
        BY <1>1, <3>1, <3>2
      <4> QED
        BY <3>1, <4>1, <4>2, Zenon DEF Keeps
    <3> QED
      BY <3>1, <3>3 DEF Harmless
  <2>4. CASE OfFAT(w, S)
    <3>1. w.to = "fat" /\ \A c \in Data : c \notin S => w.value[c] = fat[c]
      BY <2>4 DEF OfFAT
    <3>2. \A c \in Owned' : w.value[c] = saved'.fat[c]
      BY <1>1, <3>1 DEF Owned
    <3> QED
      BY <3>1, <3>2 DEF Harmless
  <2>5. CASE w.to \in {"index", "boot", "nowhere"}
    BY <2>5 DEF Harmless
  <2> QED
    BY <2>1, <2>2, <2>3, <2>4, <2>5
<1>5. \A c \in Owned' : fat'[c] = saved'.fat[c]
  BY <1>1
<1> QED
  BY <1>3, <1>4, <1>5 DEF Protected

LEMMA SparedWrite ==
    ASSUME Typed, NEW parent \in Parents, NEW name \in Names, NEW buf \in Buffers,
           StartWrite(parent, name, buf)
    PROVE  Spared'
<1>1. PICK s, cl : WriteMeans(parent, name, buf, s, cl)
  BY WriteCall
<1>2. /\ saved' = Image /\ UNCHANGED vars /\ exhausted' = exhausted /\ exhausted = FALSE
      /\ disk[parent].dir /\ ~disk[parent].slot[s].undelete
      /\ \A w \in Range(pending') :
            \/ OfCluster(w, Range(cl)) \/ OfEntry(w, parent, s) \/ OfFAT(w, Range(cl))
            \/ w.to = "index"
  <2>1. /\ saved' = Image /\ UNCHANGED vars /\ exhausted' = exhausted
        /\ disk[parent].dir /\ ~disk[parent].slot[s].undelete
    BY <1>1 DEF WriteMeans, vars
  <2>2. exhausted = FALSE
    BY DEF Typed
  <2> QED
    BY <1>1, <2>1, <2>2, WriteKinds
<1>3. \A c \in Range(cl) : c \in Data /\ fat[c] = EMPTY
  <2>1. DOMAIN cl = 1 .. Len(cl) /\ \A i \in 1 .. Len(cl) : cl[i] \in Data /\ fat[cl[i]] = EMPTY
    BY <1>1 DEF WriteMeans
  <2> QED
    BY <2>1 DEF Range
<1>4. SUFFICES ASSUME Sound
               PROVE  Protected'
  BY <1>2, SavedNow DEF Spared
<1>5. \A c \in Owned' : c \notin Range(cl)
  BY <1>2, <1>3, <1>4, OwnedUsed
<1>6. ASSUME NEW e \in Bystanders'
      PROVE  e[1] \notin Range(cl) /\ e # <<parent, s>>
  <2>1. e \in Live
    BY <1>2, BystandersNow
  <2>2. disk[e[1]].dir /\ disk[e[1]].slot[e[2]].undelete
    BY <2>1 DEF Live
  <2>3. ASSUME e[1] \in Range(cl)
        PROVE  FALSE
    <3>1. disk[e[1]] = Blank
      BY <1>3, <1>4, <2>3 DEF Sound, FreeIsBlank
    <3> QED
      BY <2>2, <3>1, BlankType
  <2> QED
    BY <1>2, <2>2, <2>3
<1> QED
  BY <1>2, <1>5, <1>6, SparedStart

\* The clusters of an entry: its table, or the chain of its payloads.
LEMMA EntryChain ==
    ASSUME exhausted = FALSE, Sound, NEW e \in Live
    PROVE  \E ch \in SeqUpTo(Data, MaxFragments) :
             /\ IsChain(fat, ch) /\ ch[1] = HeadOf(e)
             /\ EntryAt(e).dir => ch = <<HeadOf(e)>>
             /\ ~EntryAt(e).dir => \A i \in DOMAIN ch : disk[ch[i]].data \in Blocks
<1>1. CASE EntryAt(e).dir
  <2>1. HeadOf(e) \in Data /\ fat[HeadOf(e)] = EOF
    BY <1>1 DEF Sound, EntriesLead
  <2> DEFINE ch == <<HeadOf(e)>>
  <2>2. ch \in [1 .. 1 -> Data] /\ Len(ch) = 1 /\ DOMAIN ch = 1 .. 1
        /\ ch[1] = HeadOf(e) /\ ch # <<>>
    BY <2>1
  <2>3. 1 \in 0 .. MaxFragments
    BY SizesAssumption
  <2> HIDE DEF ch
  <2>4. ch \in SeqUpTo(Data, MaxFragments)
    BY <2>2, <2>3 DEF SeqUpTo
  <2>5. IsChain(fat, ch)
    BY <2>1, <2>2 DEF IsChain
  <2> QED
    BY <1>1, <2>2, <2>4, <2>5 DEF ch
<1>2. CASE ~EntryAt(e).dir
  BY <1>2 DEF Sound, EntriesLead
<1> QED
  BY <1>1, <1>2

\* Chains of two entries have no cluster in common.
LEMMA EntriesApart ==
    ASSUME exhausted = FALSE, Sound, NEW e \in Live, NEW t \in Live, e # t,
           NEW ch1 \in SeqUpTo(Data, MaxFragments), IsChain(fat, ch1),
           ch1[1] = HeadOf(e),
           NEW ch2 \in SeqUpTo(Data, MaxFragments), IsChain(fat, ch2),
           ch2[1] = HeadOf(t)
    PROVE  Range(ch1) \cap Range(ch2) = {}
<1>1. HeadOf(e) # HeadOf(t)
  BY DEF Sound, NoCrossLink
<1>2. Injective(fat) /\ NoLinkTo(fat, HeadOf(e)) /\ NoLinkTo(fat, HeadOf(t))
  BY DEF Sound, NoCrossLink, Injective, NoLinkTo
<1>3. MaxFragments \in Nat
  BY SizesAssumption
<1> QED
  BY <1>1, <1>2, <1>3, ChainsDisjoint

\* What a delete erases is the chain of its target.
LEMMA GoneInChain ==
    ASSUME exhausted = FALSE, Sound, NEW t \in Live,
           NEW ch \in SeqUpTo(Data, MaxFragments), IsChain(fat, ch),
           ch[1] = HeadOf(t), EntryAt(t).dir => ch = <<HeadOf(t)>>
    PROVE  GoneBy(EntryAt(t)) \subseteq Range(ch) \cup {EOF}
<1>1. CASE EntryAt(t).dir
  <2>1. GoneBy(EntryAt(t)) = Range(<<EntryAt(t).cl>>)
    BY <1>1 DEF GoneBy
  <2> QED
    BY <1>1, <2>1 DEF HeadOf
<1>2. CASE ~EntryAt(t).dir
  <2>1. GoneBy(EntryAt(t)) \subseteq Range(Steps(EntryAt(t).cl))
    BY <1>2, VisitsShape DEF GoneBy
  <2>2. MaxFragments \in Nat
    BY SizesAssumption
  <2> QED
    BY <2>1, <2>2, WalkInChain DEF HeadOf
<1> QED
  BY <1>1, <1>2

LEMMA SparedDelete ==
    ASSUME Typed, NEW parent \in Parents, NEW name \in Names,
           StartDelete(parent, name)
    PROVE  Spared'
<1>1. PICK s : DeleteMeans(parent, name, s)
  BY DeleteCall
<1> DEFINE t == <<parent, s>>
           S == GoneBy(EntryAt(t))
<1>2. /\ saved' = Image /\ UNCHANGED vars /\ exhausted' = exhausted /\ exhausted = FALSE
      /\ disk[parent].dir /\ s \in Slots /\ disk[parent].slot[s].name = name
      /\ call' = [op |-> "delete", parent |-> parent, name |-> name]
  BY <1>1 DEF DeleteMeans, vars, Typed
<1>3. \A w \in Range(pending') :
         \/ OfCluster(w, S) \/ OfEntry(w, parent, s) \/ OfFAT(w, S)
         \/ w.to \in {"index", "boot", "nowhere"}
  <2>1. EntryAt(t) = disk[parent].slot[s]
    BY DEF EntryAt
  <2> QED
    BY <1>1, <2>1 DEF DeleteMeans
<1>4. \A c \in Clusters : disk[c] \in Good
  BY DEF Typed, DiskTyped
<1>5. t \in Live /\ t[1] = parent /\ EntryAt(t).name = name
  <2>1. disk[parent] \in Good
    BY <1>4, Numbers
  <2>2. name # NoName
    BY NamesAssumption
  <2>3. disk[parent].slot[s].undelete
    BY <1>2, <2>1, <2>2 DEF Good
  <2> QED
    BY <1>2, <2>3 DEF Live, EntryAt
<1>6. SUFFICES ASSUME Sound
               PROVE  Protected'
  BY <1>2, SavedNow DEF Spared
<1> HIDE DEF t
<1>7. PICK ch \in SeqUpTo(Data, MaxFragments) :
             /\ IsChain(fat, ch) /\ ch[1] = HeadOf(t)
             /\ EntryAt(t).dir => ch = <<HeadOf(t)>>
             /\ ~EntryAt(t).dir => \A i \in DOMAIN ch : disk[ch[i]].data \in Blocks
  BY <1>2, <1>5, <1>6, EntryChain
<1>8. S \subseteq Range(ch) \cup {EOF}
  BY <1>2, <1>5, <1>6, <1>7, GoneInChain
<1>9. EOF \notin Clusters
  BY SizesAssumption DEF Clusters, EOF, CLUSTER_0
<1> HIDE DEF S
<1>10. ASSUME NEW e \in Bystanders'
       PROVE  e \in Live /\ e # t /\ e[1] \notin S
  <2>1. /\ e \in Live
        /\ ~(e[1] = parent /\ EntryAt(e).name = name)
        /\ HeadOf(t) # e[1]
    BY <1>2, <1>5, BystandersNow
  <2>2. e # t
    BY <1>5, <2>1
  <2>3. e[1] \in Clusters /\ disk[e[1]].dir
    BY <2>1, Numbers DEF Live
  <2>4. ASSUME e[1] \in S
        PROVE  FALSE
    <3>1. PICK i \in DOMAIN ch : ch[i] = e[1]
      BY <1>8, <1>9, <2>3, <2>4 DEF Range
    <3>2. CASE EntryAt(t).dir
      <4>1. ch = <<HeadOf(t)>>
        BY <1>7, <3>2
      <4> QED
        BY <2>1, <3>1, <4>1
    <3>3. CASE ~EntryAt(t).dir
      <4>1. disk[e[1]].data \in Blocks
        BY <1>7, <3>1, <3>3
      <4>2. disk[e[1]].data = NoBlock
        BY <1>4, <2>3 DEF Good
      <4> QED
        BY <4>1, <4>2, NamesAssumption
    <3> QED
      BY <3>2, <3>3
  <2> QED
    BY <2>1, <2>2, <2>4
<1>11. ASSUME NEW c \in Owned', c \in S
       PROVE  FALSE
  <2>1. PICK e \in Bystanders' :
          IF EntryAt(e).dir THEN c = HeadOf(e)
          ELSE \E x \in SeqUpTo(Data, MaxFragments) :
                 IsChain(fat, x) /\ x[1] = HeadOf(e) /\ c \in Range(x)
    BY <1>2, OwnedNow
  <2>2. e \in Live /\ e # t
    BY <1>10
  <2>3. PICK x \in SeqUpTo(Data, MaxFragments) :
          IsChain(fat, x) /\ x[1] = HeadOf(e) /\ c \in Range(x)
    <3>1. CASE EntryAt(e).dir
      <4>1. PICK x \in SeqUpTo(Data, MaxFragments) :
              IsChain(fat, x) /\ x[1] = HeadOf(e) /\ x = <<HeadOf(e)>>
        BY <1>2, <1>6, <2>2, <3>1, EntryChain
      <4>2. c = HeadOf(e)
        BY <2>1, <3>1
      <4>3. c \in Range(x)
        BY <4>1, <4>2, SeqOne
      <4> QED
        BY <4>1, <4>3
    <3>2. CASE ~EntryAt(e).dir
      BY <2>1, <3>2
    <3> QED
      BY <3>1, <3>2
  <2>4. Range(x) \cap Range(ch) = {}
    BY <1>2, <1>5, <1>6, <1>7, <2>2, <2>3, EntriesApart
  <2>5. c \in Clusters
    BY <1>2, OwnedNow, Numbers
  <2> QED
    BY <1>8, <1>9, <1>11, <2>3, <2>4, <2>5
<1>12. \A e \in Bystanders' : e[1] \notin S /\ e # <<parent, s>>
  BY <1>10 DEF t
<1> QED
  BY <1>2, <1>3, <1>11, <1>12, SparedStart DEF S

----------------------------------------------------------------------------
(* A call under way. *)

LEMMA SavedKept ==
    ASSUME saved' = saved, call' = call, exhausted' = exhausted
    PROVE  /\ SavedSound' = SavedSound
           /\ Saved!Live' = Saved!Live /\ Bystanders' = Bystanders /\ Owned' = Owned
           /\ \A e : Saved!EntryAt(e)' = Saved!EntryAt(e)
           /\ \A c, v : Keeps(c, v)' = Keeps(c, v)
           /\ \A w : Harmless(w)' = Harmless(w)
<1>1. Saved!Live' = Saved!Live
  BY SMT DEF Saved!Live
<1>2. \A e : Saved!EntryAt(e)' = Saved!EntryAt(e) /\ Saved!HeadOf(e)' = Saved!HeadOf(e)
  BY SMT DEF Saved!EntryAt, Saved!HeadOf
<1>3. Concerned' = Concerned
  BY <1>1, <1>2, SMT DEF Concerned, Target
<1>4. Bystanders' = Bystanders
  BY <1>1, <1>3, SMT DEF Bystanders
<1>5. Owned' = Owned
  BY <1>2, <1>4, SMT DEF Owned
<1>6. \A c, v : Keeps(c, v)' = Keeps(c, v)
  BY <1>4, <1>5, SMT DEF Keeps
<1>7. \A w : Harmless(w)' = Harmless(w)
  BY <1>5, <1>6, SMT DEF Harmless
<1>8. SavedSound' = SavedSound
  <2>1. Saved!NoCrossLink' = Saved!NoCrossLink
    BY <1>1, <1>2, SMT DEF Saved!NoCrossLink
  <2>2. Saved!EntriesLead' = Saved!EntriesLead
    BY <1>1, <1>2, SMT DEF Saved!EntriesLead
  <2>3. Saved!FreeIsBlank' = Saved!FreeIsBlank
    BY SMT DEF Saved!FreeIsBlank
  <2> QED
    BY <2>1, <2>2, <2>3, SMT DEF SavedSound
<1> QED
  BY <1>1, <1>2, <1>4, <1>5, <1>6, <1>7, <1>8

\* Between two calls the disk is the saved one.
LEMMA SparedBetween ==
    ASSUME saved' = Image', pending' = <<>>
    PROVE  Protected'
<1>1. fat' = saved'.fat /\ disk' = saved'.disk
  BY DEF Image
<1>2. \A e \in Bystanders' : saved'.disk[e[1]].dir
  BY DEF Bystanders, Saved!Live
<1>3. \A c \in Clusters : Keeps(c, disk[c])'
  BY <1>1, <1>2 DEF Keeps
<1>4. Range(pending') = {}
  BY SeqNone
<1> QED
  BY <1>1, <1>3, <1>4 DEF Protected

LEMMA SparedStep ==
    ASSUME Typed, Spared, WriteNext \/ LoadAgain \/ Stop \/ UNCHANGED allVars
    PROVE  Spared'
<1>1. CASE WriteNext
  <2>1. PICK w \in Range(pending) :
             /\ WellMade(w) /\ Applied(w)
             /\ fat' \in [Clusters -> Nat] /\ disk' \in [Clusters -> Good]
             /\ IsSeq(pending') /\ Range(pending') \subseteq Range(pending)
             /\ exhausted' = exhausted
             /\ \/ saved' = Image' /\ call' = NoCall /\ pending' = <<>> /\ mounted' = TRUE
                \/ saved' = saved /\ call' = call /\ mounted' = mounted
    BY <1>1, NextWriteFacts
  <2>2. CASE saved' = Image' /\ pending' = <<>>
    BY <2>2, SparedBetween DEF Spared
  <2>3. CASE saved' = saved /\ call' = call
    <3>1. SUFFICES ASSUME call.op # "mount", SavedSound
                   PROVE  Protected'
      BY <2>1, <2>3, SavedKept DEF Spared
    <3>2. Protected
      BY <3>1 DEF Spared
    <3>3. /\ Owned' = Owned /\ Bystanders' = Bystanders
          /\ \A c, v : Keeps(c, v)' = Keeps(c, v)
          /\ \A x : Harmless(x)' = Harmless(x)
      BY <2>1, <2>3, SavedKept
    <3>4. Harmless(w)
      BY <3>2 DEF Protected
    <3>5. /\ \A c \in Clusters : fat'[c] = fat[c]
               \/ (w.to = "fat" /\ c \div BlockCells = w.at /\ fat'[c] = w.value[c])
          /\ \A c \in Clusters : disk'[c] = disk[c]
               \/ (w.to = "disk" /\ w.at = c /\ disk'[c] = w.value)
      BY <2>1, AppliedFacts DEF Typed, DiskTyped
    <3>6. ASSUME NEW c \in Owned'
          PROVE  fat'[c] = saved'.fat[c]
      <4>1. c \in Owned /\ c \in Clusters /\ fat[c] = saved.fat[c]
        BY <3>2, <3>3, Numbers DEF Protected, Owned
      <4>2. CASE fat'[c] = fat[c]
        BY <2>3, <4>1, <4>2
      <4>3. CASE w.to = "fat" /\ c \div BlockCells = w.at /\ fat'[c] = w.value[c]
        BY <2>3, <3>4, <4>1, <4>3 DEF Harmless
      <4> QED
        BY <3>5, <4>1, <4>2, <4>3
    <3>7. ASSUME NEW c \in Clusters
          PROVE  Keeps(c, disk'[c])
      <4>1. Keeps(c, disk[c])
        BY <3>2 DEF Protected
      <4>2. CASE disk'[c] = disk[c]
        BY <4>1, <4>2
      <4>3. CASE w.to = "disk" /\ w.at = c /\ disk'[c] = w.value
        BY <3>4, <4>3 DEF Harmless
      <4> QED
        BY <3>5, <4>2, <4>3
    <3>8. \A c \in Clusters : Keeps(c, disk[c])'
      BY <3>3, <3>7, <2>3, SMT DEF Keeps
    <3>9. \A x \in Range(pending') : Harmless(x)'
      BY <2>1, <3>2, <3>3 DEF Protected
    <3> QED
      BY <3>6, <3>8, <3>9 DEF Protected
  <2> QED
    BY <2>1, <2>2, <2>3
<1>2. CASE LoadAgain
  <2>1. saved' = Image' /\ pending' = <<>>
    BY <1>2 DEF LoadAgain, Load, Image
  <2> QED
    BY <2>1, SparedBetween DEF Spared
<1>3. CASE Stop \/ UNCHANGED allVars
  <2>1. /\ saved' = saved /\ call' = call /\ exhausted' = exhausted
        /\ fat' = fat /\ disk' = disk
        /\ pending' = <<>> \/ pending' = pending
    BY <1>3 DEF Stop, allVars, vars
  <2>2. Range(pending') \subseteq Range(pending)
    BY <2>1, SeqNone
  <2>3. SUFFICES ASSUME call.op # "mount", SavedSound
                 PROVE  Protected'
    BY <2>1, SavedKept DEF Spared
  <2>4. Protected
    BY <2>3 DEF Spared
  <2>5. /\ Owned' = Owned /\ Bystanders' = Bystanders
        /\ \A c, v : Keeps(c, v)' = Keeps(c, v)
        /\ \A x : Harmless(x)' = Harmless(x)
    BY <2>1, SavedKept
  <2>6. \A c \in Clusters : Keeps(c, disk[c])'
    BY <2>1, <2>4, <2>5, SMT DEF Protected, Keeps
  <2>7. \A c \in Owned' : fat'[c] = saved'.fat[c]
    BY <2>1, <2>4, <2>5 DEF Protected
  <2> QED
    BY <2>2, <2>4, <2>5, <2>6, <2>7 DEF Protected
<1> QED
  BY <1>1, <1>2, <1>3

LEMMA SparedInit == InitWrites => Spared
<1> SUFFICES ASSUME InitWrites
             PROVE  Protected
  BY DEF Spared
<1>1. fat = saved.fat /\ disk = saved.disk /\ pending = <<>>
  BY DEF InitWrites, Image
<1>2. \A e \in Bystanders : saved.disk[e[1]].dir
  BY DEF Bystanders, Saved!Live
<1>3. \A c \in Clusters : Keeps(c, disk[c])
  BY <1>1, <1>2 DEF Keeps
<1> QED
  BY <1>1, <1>3, SeqNone DEF Protected

LEMMA NextSpared == Typed /\ Spared /\ [NextWrites]_allVars => Spared'
<1> SUFFICES ASSUME Typed, Spared, [NextWrites]_allVars
             PROVE  Spared'
  OBVIOUS
<1>1. \/ StartFormat
      \/ LoadAgain \/ Stop \/ WriteNext \/ UNCHANGED allVars
      \/ \E parent \in Parents, name \in Names :
           \/ \E buf \in Buffers : StartWrite(parent, name, buf)
           \/ StartDelete(parent, name)
  BY DEF NextWrites
<1>2. CASE StartFormat
  <2>1. call'.op = "mount"
    BY <1>2 DEF StartFormat, Begin
  <2> QED
    BY <2>1 DEF Spared
<1> QED
  BY <1>1, <1>2, SparedStep, SparedWrite, SparedDelete

----------------------------------------------------------------------------
(* The entries that a call is not about. *)

LEMMA SparedSurvive == Typed /\ Spared => OthersSurvive
<1> SUFFICES ASSUME Typed, Spared, call.op # "mount", SavedSound, NEW e \in Bystanders
             PROVE  /\ e \in Live /\ EntryAt(e) = Saved!EntryAt(e)
                    /\ EntryAt(e).dir =>
                         LET c == HeadOf(e)
                         IN  /\ disk[c].dir /\ disk[c].up = e[1]
                             /\ fat[c] = EOF
                    /\ ~EntryAt(e).dir =>
                         \A ch \in SeqUpTo(Data, MaxFragments) \ {<<>>} :
                            Saved!IsChain(saved.fat, ch) /\ ch[1] = HeadOf(e) =>
                                /\ IsChain(fat, ch)
                                /\ Payload(ch) = Saved!Payload(ch)
  BY DEF OthersSurvive
<1>1. Protected /\ exhausted = FALSE
  BY DEF Spared, Typed
<1>2. /\ Saved!EOF = EOF /\ Saved!Data = Data /\ Saved!Parents = Parents
      /\ Saved!Slots = Slots
  <2>1. Saved!EOF = EOF
    BY SMT DEF Saved!EOF, EOF
  <2>2. Saved!Data = Data
    BY SMT DEF Saved!Data, Data, Saved!FIRST_DATA, FIRST_DATA
  <2>3. Saved!Parents = Parents
    BY <2>2, SMT DEF Saved!Parents, Parents, Saved!ROOT, ROOT,
       Saved!SUGAR_PARENT, SUGAR_PARENT
  <2>4. Saved!Slots = Slots
    BY SMT DEF Saved!Slots, Slots
  <2> QED
    BY <2>1, <2>2, <2>3, <2>4
<1>3. /\ e \in Saved!Live /\ e \in Parents \X Slots
      /\ saved.disk[e[1]].dir /\ saved.disk[e[1]].slot[e[2]].undelete
      /\ e[1] \in Clusters
  <2>1. e \in Saved!Live
    BY DEF Bystanders
  <2>2. /\ e \in Parents \X Slots
        /\ saved.disk[e[1]].dir /\ saved.disk[e[1]].slot[e[2]].undelete
    BY <1>2, <2>1 DEF Saved!Live
  <2> QED
    BY <2>1, <2>2, Numbers
<1>4. disk[e[1]].dir /\ disk[e[1]].slot[e[2]] = saved.disk[e[1]].slot[e[2]]
  BY <1>1, <1>3 DEF Protected, Keeps
<1>5. e \in Live
  BY <1>3, <1>4 DEF Live
<1>6. EntryAt(e) = Saved!EntryAt(e) /\ HeadOf(e) = Saved!HeadOf(e)
  BY <1>4 DEF EntryAt, HeadOf, Saved!EntryAt, Saved!HeadOf
<1>7. ASSUME NEW c \in Owned
      PROVE  /\ c \in Data /\ fat[c] = saved.fat[c]
             /\ disk[c].dir = saved.disk[c].dir
             /\ disk[c].up = saved.disk[c].up
             /\ disk[c].data = saved.disk[c].data
  <2>1. c \in Data /\ c \in Clusters
    BY Numbers DEF Owned
  <2> QED
    BY <1>1, <2>1 DEF Protected, Keeps
<1>8. ASSUME EntryAt(e).dir
      PROVE  disk[HeadOf(e)].dir /\ disk[HeadOf(e)].up = e[1] /\ fat[HeadOf(e)] = EOF
  <2>1. /\ HeadOf(e) \in Data /\ saved.fat[HeadOf(e)] = EOF
        /\ saved.disk[HeadOf(e)].dir /\ saved.disk[HeadOf(e)].up = e[1]
    BY <1>1, <1>2, <1>3, <1>6, <1>8 DEF SavedSound, Saved!EntriesLead
  <2>2. HeadOf(e) \in Owned
    BY <1>6, <1>8, <2>1 DEF Owned
  <2> QED
    BY <1>7, <2>1, <2>2
<1>9. ASSUME ~EntryAt(e).dir, NEW ch \in SeqUpTo(Data, MaxFragments) \ {<<>>},
             Saved!IsChain(saved.fat, ch), ch[1] = HeadOf(e)
      PROVE  IsChain(fat, ch) /\ Payload(ch) = Saved!Payload(ch)
  <2>1. \A i \in DOMAIN ch : ch[i] \in Owned
    <3> SUFFICES ASSUME NEW i \in DOMAIN ch
                 PROVE  ch[i] \in Owned
      OBVIOUS
    <3>1. ch[i] \in Range(ch)
      BY DEF Range
    <3>2. ch[i] \in Data
      <4>1. PICK k \in 0 .. MaxFragments : ch \in [1 .. k -> Data]
        BY DEF SeqUpTo
      <4> QED
        BY <4>1
    <3> QED
      BY <1>6, <1>9, <3>1, <3>2 DEF Owned
  <2>2. IsChain(fat, ch)
    <3>1. /\ ch # <<>>
          /\ \A i \in DOMAIN ch : saved.fat[ch[i]] = IF i < Len(ch) THEN ch[i + 1] ELSE EOF
      BY <1>2, <1>9, SMT DEF Saved!IsChain
    <3> QED
      BY <1>7, <2>1, <3>1, SMT DEF IsChain
  <2>3. Payload(ch) = Saved!Payload(ch)
    BY <1>7, <2>1 DEF Payload, Saved!Payload
  <2> QED
    BY <2>2, <2>3
<1> QED
  BY <1>5, <1>6, <1>8, <1>9

\* At every moment of every call, and after a stop at any of its writes, the
\* entries that the call is not about are there with their chains and contents,
\* as long as the disk it began with was undamaged; with any number of stops.
THEOREM OthersAreSpared == SpecWrites => []OthersSurvive
<1>1. Typed /\ Spared => OthersSurvive
  BY SparedSurvive
<1> QED
  BY <1>1, TypedInit, SparedInit, NextTyped, NextSpared, PTL DEF SpecWrites

----------------------------------------------------------------------------
(* The name that a write enters in a table. *)

\* The writes of the call, for a new entry s of the parent with the clusters cl.
Entering(w, s, entry) ==
    /\ w.to = "disk" /\ w.at = call.parent
    /\ w.value.slot[s] \in {saved.disk[call.parent].slot[s], entry}
    /\ \A t \in Slots : t # s => w.value.slot[t] = saved.disk[call.parent].slot[t]

Storing(w, cl, buf) ==
    w.to = "disk" /\ w.at \in Range(cl) /\ Fits(w.value, call.parent, buf)

Linking(w, cl) ==
    w.to = "fat" /\ \A c \in Range(cl) : w.value[c] \in Range(cl) \cup {EOF}

\* The content of cluster c is still to come, before anything but contents.
Waiting(c, cl, buf) ==
    \E q \in DOMAIN pending :
        pending[q].at = c /\ \A i \in 1 .. q : Storing(pending[i], cl, buf)

\* The call has taken free clusters and a free entry, and the entry is not
\* there before the contents of all its clusters are.
Entered(s, cl, buf) ==
    LET parent == call.parent
        entry  == NewEntry(call.name, buf, cl[1])
    IN  /\ saved.disk[parent].dir /\ ~saved.disk[parent].slot[s].undelete
        /\ parent \in Clusters /\ parent \notin Range(cl)
        /\ Range(cl) \subseteq Data /\ cl[1] \in Range(cl)
        /\ \A c \in Clusters : c # parent /\ c \notin Range(cl) => disk[c] = saved.disk[c]
        /\ \A t \in Slots : t # s => disk[parent].slot[t] = saved.disk[parent].slot[t]
        /\ \A c \in Range(cl) : /\ disk[c].slot = Blank.slot
                                /\ fat[c] \in Range(cl) \cup {EMPTY, EOF}
        /\ \/ disk[parent].slot[s] = saved.disk[parent].slot[s]
           \/ /\ disk[parent].slot[s] = entry
              /\ \A c \in Range(cl) : Fits(disk[c], parent, buf)
        /\ pending # <<>> =>
             \A c \in Range(cl) : Fits(disk[c], parent, buf) \/ Waiting(c, cl, buf)
        /\ \A w \in Range(pending) :
             Storing(w, cl, buf) \/ Entering(w, s, entry) \/ Linking(w, cl) \/ w.to = "index"

Named ==
    call.op = "write" /\ SavedSound =>
        \E s \in Slots, buf \in Buffers, cl \in SeqUpTo(Data, MaxFragments) \ {<<>>} :
            Entered(s, cl, buf)

\* A chain that starts in a set of cells that lead nowhere else stays in it.
LEMMA ChainWithin ==
    ASSUME NEW f, NEW C, C \subseteq Data,
           \A c \in C : f[c] \in C \cup {EMPTY, EOF},
           NEW ch \in SeqUpTo(Data, MaxFragments), IsChain(f, ch), ch[1] \in C
    PROVE  \A i \in DOMAIN ch : ch[i] \in C
<1>1. PICK k \in Nat : ch \in [1 .. k -> Data]
  BY SizesAssumption DEF SeqUpTo
<1>2. DOMAIN ch = 1 .. k /\ Len(ch) = k
  BY <1>1
<1> DEFINE T == {i \in 1 .. k : ch[i] \notin C}
<1>3. SUFFICES ASSUME T # {}
               PROVE  FALSE
  BY <1>2
<1>4. PICK n \in T : \A m \in T : n <= m
  <2>1. T \in SUBSET Nat
    BY <1>1
  <2> QED
    BY <1>3, <2>1, LeastNumber
<1>5. n \in 1 .. k /\ ch[n] \notin C /\ n # 1
  BY <1>4
<1>6. n - 1 \in 1 .. k /\ n - 1 < k /\ ~(n <= n - 1) /\ (n - 1) + 1 = n
  BY <1>1, <1>5
<1>7. ch[n - 1] \in C
  BY <1>4, <1>6
<1>8. f[ch[n - 1]] = ch[n]
  BY <1>2, <1>6 DEF IsChain
<1>9. ch[n] \in Data /\ ch[n] # EMPTY /\ ch[n] # EOF
  BY <1>1, <1>5, Numbers
<1>10. ch[n] \in C \cup {EMPTY, EOF}
  BY <1>7, <1>8
<1> QED
  BY <1>5, <1>9, <1>10

LEMMA NamedMeans == Named => NoNameBeforeData
<1> SUFFICES ASSUME Named, call.op = "write", SavedSound, NEW e \in Live \ Saved!Live
             PROVE  IF EntryAt(e).dir
                    THEN disk[HeadOf(e)].dir /\ disk[HeadOf(e)].up = e[1]
                    ELSE \A ch \in SeqUpTo(Data, MaxFragments) \ {<<>>} :
                            /\ disk[HeadOf(e)].data \in Blocks
                            /\ ch[1] = HeadOf(e) /\ IsChain(fat, ch) =>
                                 \A i \in DOMAIN ch : disk[ch[i]].data \in Blocks
  BY DEF NoNameBeforeData
<1>1. PICK s \in Slots, buf \in Buffers, cl \in SeqUpTo(Data, MaxFragments) \ {<<>>} :
         Entered(s, cl, buf)
  BY DEF Named
<1> DEFINE parent == call.parent
           entry  == NewEntry(call.name, buf, cl[1])
           c      == e[1]
           t      == e[2]
<1>2. /\ saved.disk[parent].dir /\ ~saved.disk[parent].slot[s].undelete
      /\ Range(cl) \subseteq Data /\ cl[1] \in Range(cl)
      /\ \A x \in Clusters : x # parent /\ x \notin Range(cl) => disk[x] = saved.disk[x]
      /\ \A x \in Slots : x # s => disk[parent].slot[x] = saved.disk[parent].slot[x]
      /\ \A x \in Range(cl) : /\ disk[x].slot = Blank.slot
                              /\ fat[x] \in Range(cl) \cup {EMPTY, EOF}
      /\ \/ disk[parent].slot[s] = saved.disk[parent].slot[s]
         \/ /\ disk[parent].slot[s] = entry
            /\ \A x \in Range(cl) : Fits(disk[x], parent, buf)
  BY <1>1 DEF Entered
<1>3. c \in Parents /\ t \in Slots /\ e = <<c, t>> /\ disk[c].dir /\ disk[c].slot[t].undelete
  BY DEF Live
<1>4. c \in Clusters
  BY <1>3, Numbers
<1>5. ~(saved.disk[c].dir /\ saved.disk[c].slot[t].undelete)
  <2>1. Saved!Data = Data
    BY SMT DEF Saved!Data, Data, Saved!FIRST_DATA, FIRST_DATA
  <2>2. Saved!Parents = Parents
    BY <2>1, SMT DEF Saved!Parents, Parents, Saved!ROOT, ROOT,
       Saved!SUGAR_PARENT, SUGAR_PARENT
  <2>3. Saved!Slots = Slots
    BY SMT DEF Saved!Slots, Slots
  <2> QED
    BY <1>3, <2>2, <2>3 DEF Saved!Live
<1> HIDE DEF c, t, entry, parent
<1>6. c \notin Range(cl)
  <2>1. ASSUME c \in Range(cl)
        PROVE  FALSE
    <3>1. disk[c].slot = Blank.slot
      BY <1>2, <2>1
    <3>2. Blank.slot[t].undelete = FALSE
      BY <1>3, BlankType DEF FreeEntry
    <3> QED
      BY <1>3, <3>1, <3>2
  <2> QED
    BY <2>1
<1>7. c = parent
  <2>1. ASSUME c # parent
        PROVE  FALSE
    <3>1. disk[c] = saved.disk[c]
      BY <1>2, <1>4, <1>6, <2>1
    <3> QED
      BY <1>3, <1>5, <3>1
  <2> QED
    BY <2>1
<1>8. t = s
  <2>1. ASSUME t # s
        PROVE  FALSE
    <3>1. disk[c].slot[t] = saved.disk[c].slot[t]
      BY <1>2, <1>3, <1>7, <2>1
    <3> QED
      BY <1>2, <1>3, <1>5, <1>7, <3>1
  <2> QED
    BY <2>1
<1>9. disk[c].slot[t] = entry /\ \A x \in Range(cl) : Fits(disk[x], parent, buf)
  <2>1. disk[c].slot[t] # saved.disk[c].slot[t]
    BY <1>2, <1>3, <1>5, <1>7
  <2> QED
    BY <1>2, <1>7, <1>8, <2>1
<1>10. EntryAt(e) = entry /\ HeadOf(e) = cl[1]
  BY <1>9 DEF EntryAt, HeadOf, entry, NewEntry, c, t
<1>11. entry.dir = (buf = <<>>)
  BY DEF entry, NewEntry
<1>12. Fits(disk[cl[1]], parent, buf)
  BY <1>2, <1>9
<1>13. CASE buf = <<>>
  <2>1. disk[cl[1]].dir /\ disk[cl[1]].up = c
    BY <1>7, <1>12, <1>13 DEF Fits
  <2> QED
    BY <1>10, <1>11, <1>13, <2>1 DEF c
<1>14. CASE buf # <<>>
  <2>1. \A x \in Range(cl) : disk[x].data \in Blocks
    BY <1>9, <1>14 DEF Fits
  <2>2. ASSUME NEW ch \in SeqUpTo(Data, MaxFragments), ch[1] = HeadOf(e), IsChain(fat, ch)
        PROVE  \A i \in DOMAIN ch : disk[ch[i]].data \in Blocks
    <3>1. \A i \in DOMAIN ch : ch[i] \in Range(cl)
      BY <1>2, <1>10, <2>2, ChainWithin
    <3> QED
      BY <2>1, <3>1
  <2> QED
    BY <1>2, <1>10, <1>11, <1>14, <2>1, <2>2
<1> QED
  BY <1>13, <1>14

LEMMA NamedStart ==
    ASSUME Typed, NEW parent \in Parents, NEW name \in Names, NEW buf \in Buffers,
           StartWrite(parent, name, buf)
    PROVE  Named'
<1>1. PICK s, cl : WriteMeans(parent, name, buf, s, cl)
  BY WriteCall
<1>2. /\ saved' = Image /\ UNCHANGED vars /\ fat' = fat /\ disk' = disk
      /\ exhausted' = exhausted
      /\ call' = [op |-> "write", parent |-> parent, name |-> name]
  BY <1>1 DEF WriteMeans, vars
<1>3. saved'.fat = fat /\ saved'.disk = disk /\ call'.parent = parent /\ call'.name = name
  BY <1>2 DEF Image
<1>4. SUFFICES ASSUME Sound
               PROVE  /\ s \in Slots /\ cl \in SeqUpTo(Data, MaxFragments) \ {<<>>}
                      /\ Entered(s, cl, buf)'
  BY <1>2, SavedNow DEF Named
<1> DEFINE k == Len(cl)
           entry == NewEntry(name, buf, cl[1])
<1>5. /\ k \in Nat \ {0} /\ k <= MaxFragments /\ cl \in [1 .. k -> Data]
      /\ \A i \in 1 .. k : fat[cl[i]] = EMPTY
      /\ disk[parent].dir /\ s \in Slots /\ ~disk[parent].slot[s].undelete
  BY <1>1 DEF WriteMeans
<1>6. DOMAIN cl = 1 .. k /\ 1 \in DOMAIN cl
  BY <1>5
<1>7. cl \in SeqUpTo(Data, MaxFragments) \ {<<>>}
  <2>1. k \in 0 .. MaxFragments
    BY <1>5, SizesAssumption
  <2>2. cl # <<>>
    BY <1>5
  <2> QED
    BY <1>5, <2>1, <2>2 DEF SeqUpTo
<1>8. Range(cl) \subseteq Data /\ cl[1] \in Range(cl) /\ \A c \in Range(cl) : fat[c] = EMPTY
  BY <1>5, <1>6 DEF Range
<1>9. \A c \in Range(cl) : disk[c] = Blank
  BY <1>4, <1>8 DEF Sound, FreeIsBlank
<1>10. parent \in Clusters /\ parent \notin Range(cl)
  BY <1>5, <1>9, BlankType, Numbers
<1>11. ASSUME NEW c \in Range(cl)
       PROVE  \E q \in DOMAIN pending' :
                 /\ pending'[q].at = c
                 /\ \A i \in 1 .. q : /\ pending'[i].to = "disk"
                                      /\ pending'[i].at \in Range(cl)
                                      /\ Fits(pending'[i].value, parent, buf)
  <2>1. PICK q \in 1 .. k : cl[q] = c
    BY <1>6 DEF Range
  <2>2. \A i \in 1 .. k : /\ i \in DOMAIN pending' /\ pending'[i].at = cl[i]
                          /\ OfPayload(pending'[i], cl, parent, buf)
    BY <1>1 DEF WriteMeans
  <2>3. \A i \in 1 .. q : i \in 1 .. k
    BY <1>5
  <2> QED
    BY <2>1, <2>2, <2>3 DEF OfPayload, OfCluster
<1>12. ASSUME NEW w \in Range(pending')
       PROVE  \/ w.to = "disk" /\ w.at \in Range(cl) /\ Fits(w.value, parent, buf)
              \/ /\ w.to = "disk" /\ w.at = parent
                 /\ w.value.slot[s] \in {disk[parent].slot[s], entry}
                 /\ \A t \in Slots : t # s => w.value.slot[t] = disk[parent].slot[t]
              \/ w.to = "fat" /\ \A c \in Range(cl) : w.value[c] \in Range(cl) \cup {EOF}
              \/ w.to = "index"
  <2>1. \/ OfPayload(w, cl, parent, buf)
        \/ OfNew(w, parent, s, entry)
        \/ OfLinks(w, cl)
        \/ w.to = "index"
    BY <1>1 DEF WriteMeans
  <2> HIDE DEF entry
  <2> QED
    BY <2>1 DEF OfPayload, OfCluster, OfNew, OfEntry, OfLinks, OfFAT
<1> HIDE DEF k, entry
<1>13. Entered(s, cl, buf)'
  <2>1. \A w \in Range(pending') :
          Storing(w, cl, buf)' \/ Entering(w, s, entry)' \/ Linking(w, cl)' \/ w.to = "index"
    BY <1>3, <1>12 DEF Storing, Entering, Linking
  <2>2. \A c \in Range(cl) : Waiting(c, cl, buf)'
    BY <1>3, <1>11 DEF Waiting, Storing
  <2>3. \A c \in Range(cl) : disk'[c].slot = Blank.slot /\ fat'[c] = EMPTY
    BY <1>2, <1>8, <1>9
  <2> QED
    BY <1>2, <1>3, <1>5, <1>8, <1>10, <2>1, <2>2, <2>3 DEF Entered, entry
<1> QED
  BY <1>5, <1>7, <1>13

LEMMA AppliedAt ==
    ASSUME disk \in [Clusters -> Good], NEW w, Applied(w)
    PROVE  /\ w.to = "disk" /\ w.at \in Clusters => disk'[w.at] = w.value
           /\ w.to = "disk" => \A c \in Clusters : c # w.at => disk'[c] = disk[c]
           /\ w.to # "disk" => disk' = disk
           /\ w.to # "fat" => \A c \in Clusters : fat'[c] = fat[c]
           /\ \A c \in Clusters : fat'[c] = fat[c] \/ fat'[c] = w.value[c]
<1>1. fat' = [c \in Clusters |->
                IF w.to = "fat" /\ c \div BlockCells = w.at THEN w.value[c] ELSE fat[c]]
  BY DEF Applied
<1>2. disk' = IF w.to = "disk" THEN [disk EXCEPT ![w.at] = w.value] ELSE disk
  BY DEF Applied
<1>3. \A c \in Clusters : fat'[c] = fat[c] \/ fat'[c] = w.value[c]
  BY <1>1
<1>4. w.to # "fat" => \A c \in Clusters : fat'[c] = fat[c]
  BY <1>1
<1>5. /\ w.to = "disk" /\ w.at \in Clusters => disk'[w.at] = w.value
      /\ w.to = "disk" => \A c \in Clusters : c # w.at => disk'[c] = disk[c]
      /\ w.to # "disk" => disk' = disk
  BY <1>2
<1> QED
  BY <1>3, <1>4, <1>5

\* What comes first of the writes to come, and what is left of them.
LEMMA SeqHead ==
    ASSUME NEW s, IsSeq(s), s # <<>>
    PROVE  /\ Head(s) = s[1] /\ DOMAIN s = 1 .. Len(s) /\ Len(s) \in Nat \ {0}
           /\ DOMAIN Tail(s) = 1 .. (Len(s) - 1)
           /\ \A i \in 1 .. Len(s) - 1 : Tail(s)[i] = s[i + 1]
<1> DEFINE S == Range(s)
<1>1. s \in Seq(S)
  BY DEF IsSeq
<1> HIDE DEF S
<1>2. /\ Head(s) = s[1] /\ Tail(s) \in Seq(S)
      /\ Len(s) \in Nat \ {0} /\ Len(Tail(s)) = Len(s) - 1
      /\ \A i \in 1 .. Len(Tail(s)) : Tail(s)[i] = s[i + 1]
  BY <1>1, HeadTailProperties, EmptySeq, LenProperties
<1> QED
  BY <1>1, <1>2, LenProperties

LEMMA WaitingOn ==
    ASSUME IsSeq(pending), pending # <<>>, pending' = Tail(pending), call' = call,
           NEW c, NEW cl, NEW buf, Waiting(c, cl, buf)
    PROVE  /\ Storing(Head(pending), cl, buf)
           /\ Head(pending).at = c \/ Waiting(c, cl, buf)'
<1>1. PICK q \in DOMAIN pending :
         pending[q].at = c /\ \A i \in 1 .. q : Storing(pending[i], cl, buf)
  BY DEF Waiting
<1>2. /\ Head(pending) = pending[1] /\ DOMAIN pending = 1 .. Len(pending)
      /\ Len(pending) \in Nat \ {0} /\ DOMAIN pending' = 1 .. (Len(pending) - 1)
      /\ \A i \in 1 .. Len(pending) - 1 : pending'[i] = pending[i + 1]
  BY SeqHead
<1>3. q \in 1 .. Len(pending) /\ 1 \in 1 .. q
  BY <1>1, <1>2
<1>4. Storing(Head(pending), cl, buf)
  BY <1>1, <1>2, <1>3
<1>5. ASSUME q # 1
      PROVE  Waiting(c, cl, buf)'
  <2>1. q - 1 \in DOMAIN pending' /\ (q - 1) + 1 = q
        /\ \A i \in 1 .. q - 1 : i \in 1 .. Len(pending) - 1 /\ i + 1 \in 1 .. q
    BY <1>2, <1>3, <1>5
  <2>2. pending'[q - 1] = pending[q]
    BY <1>2, <2>1
  <2>3. \A i \in 1 .. q - 1 : Storing(pending'[i], cl, buf)
    BY <1>1, <1>2, <2>1
  <2>4. \A i \in 1 .. q - 1 : Storing(pending[i], cl, buf)'
    BY <2>3 DEF Storing
  <2> QED
    BY <1>1, <2>1, <2>2, <2>4 DEF Waiting
<1> QED
  BY <1>1, <1>2, <1>4, <1>5

LEMMA EnteredNext ==
    ASSUME Typed, WriteNext, saved' = saved, call' = call,
           NEW s \in Slots, NEW cl, NEW buf, Entered(s, cl, buf)
    PROVE  Entered(s, cl, buf)'
<1> DEFINE parent == call.parent
           entry  == NewEntry(call.name, buf, cl[1])
           w      == Head(pending)
<1>1. /\ saved.disk[parent].dir /\ ~saved.disk[parent].slot[s].undelete
      /\ parent \in Clusters /\ parent \notin Range(cl)
      /\ Range(cl) \subseteq Data /\ cl[1] \in Range(cl)
      /\ \A c \in Clusters : c # parent /\ c \notin Range(cl) => disk[c] = saved.disk[c]
      /\ \A t \in Slots : t # s => disk[parent].slot[t] = saved.disk[parent].slot[t]
      /\ \A c \in Range(cl) : /\ disk[c].slot = Blank.slot
                              /\ fat[c] \in Range(cl) \cup {EMPTY, EOF}
      /\ \/ disk[parent].slot[s] = saved.disk[parent].slot[s]
         \/ /\ disk[parent].slot[s] = entry
            /\ \A c \in Range(cl) : Fits(disk[c], parent, buf)
      /\ pending # <<>> =>
           \A c \in Range(cl) : Fits(disk[c], parent, buf) \/ Waiting(c, cl, buf)
      /\ \A x \in Range(pending) :
           Storing(x, cl, buf) \/ Entering(x, s, entry) \/ Linking(x, cl) \/ x.to = "index"
  BY DEF Entered
<1>2. /\ pending # <<>> /\ IsSeq(pending) /\ pending' = Tail(pending)
      /\ Applied(w) /\ disk \in [Clusters -> Good]
  BY DEF WriteNext, Typed, DiskTyped
<1>3. w \in Range(pending) /\ Range(pending') \subseteq Range(pending)
  BY <1>2, SeqRest
<1>4. \A c \in Range(cl) : c \in Clusters /\ c # parent
  BY <1>1, Numbers
<1> HIDE DEF parent, entry, w
<1>5. /\ w.to = "disk" /\ w.at \in Clusters => disk'[w.at] = w.value
      /\ w.to = "disk" => \A c \in Clusters : c # w.at => disk'[c] = disk[c]
      /\ w.to # "disk" => disk' = disk
      /\ w.to # "fat" => \A c \in Clusters : fat'[c] = fat[c]
      /\ \A c \in Clusters : fat'[c] = fat[c] \/ fat'[c] = w.value[c]
  BY <1>2, AppliedAt
<1>6. \A c \in Range(cl) : Waiting(c, cl, buf) =>
          Storing(w, cl, buf) /\ (w.at = c \/ Waiting(c, cl, buf)')
  BY <1>2, WaitingOn DEF w
<1>7. \A x : /\ Storing(x, cl, buf)' = Storing(x, cl, buf)
             /\ Entering(x, s, entry)' = Entering(x, s, entry)
             /\ Linking(x, cl)' = Linking(x, cl)
  BY DEF Storing, Entering, Linking, entry
\* What is to be shown of the clusters of the disk, the FAT, and the writes.
<1>8. SUFFICES
        /\ \A c \in Clusters : c # parent /\ c \notin Range(cl) => disk'[c] = disk[c]
        /\ \A t \in Slots : t # s => disk'[parent].slot[t] = saved.disk[parent].slot[t]
        /\ \A c \in Range(cl) : /\ disk'[c].slot = Blank.slot
                                /\ fat'[c] \in Range(cl) \cup {EMPTY, EOF}
        /\ \/ disk'[parent].slot[s] = saved.disk[parent].slot[s]
           \/ /\ disk'[parent].slot[s] = entry
              /\ \A c \in Range(cl) : Fits(disk'[c], parent, buf)
        /\ \A c \in Range(cl) : Fits(disk'[c], parent, buf) \/ Waiting(c, cl, buf)'
  <2>1. /\ saved'.disk[call'.parent] = saved.disk[parent] /\ call'.parent = parent
        /\ call'.name = call.name /\ saved'.disk = saved.disk
    BY DEF parent
  <2>2. \A x \in Range(pending') :
           Storing(x, cl, buf)' \/ Entering(x, s, entry)' \/ Linking(x, cl)' \/ x.to = "index"
    BY <1>1, <1>3, <1>7
  <2> QED
    BY <1>1, <1>8, <2>1, <2>2 DEF Entered, entry
<1>9. CASE Storing(w, cl, buf)
  <2>1. w.to = "disk" /\ w.at \in Range(cl) /\ Fits(w.value, parent, buf)
    BY <1>9 DEF Storing, parent
  <2>2. /\ disk'[w.at] = w.value /\ disk'[parent] = disk[parent]
        /\ \A c \in Clusters : c # w.at => disk'[c] = disk[c]
        /\ \A c \in Clusters : fat'[c] = fat[c]
    BY <1>1, <1>4, <1>5, <2>1
  <2>3. w.value.slot = Blank.slot
    BY <2>1 DEF Fits
  <2>4. \A c \in Range(cl) : Fits(disk[c], parent, buf) => Fits(disk'[c], parent, buf)
    <3> SUFFICES ASSUME NEW c \in Range(cl), Fits(disk[c], parent, buf)
                 PROVE  Fits(disk'[c], parent, buf)
      OBVIOUS
    <3>1. CASE c = w.at
      BY <2>1, <2>2, <3>1
    <3>2. CASE c # w.at
      <4>1. disk'[c] = disk[c]
        BY <1>4, <2>2, <3>2
      <4> QED
        BY <4>1
    <3> QED
      BY <3>1, <3>2
  <2>5. ASSUME NEW c \in Range(cl)
        PROVE  Fits(disk'[c], parent, buf) \/ Waiting(c, cl, buf)'
    <3>1. CASE Fits(disk[c], parent, buf)
      BY <2>4, <3>1
    <3>2. CASE Waiting(c, cl, buf)
      <4>1. CASE w.at = c
        BY <2>1, <2>2, <4>1
      <4> QED
        BY <1>6, <3>2, <4>1
    <3> QED
      BY <1>1, <1>2, <3>1, <3>2
  <2>6. ASSUME NEW c \in Range(cl)
        PROVE  /\ disk'[c].slot = Blank.slot
               /\ fat'[c] \in Range(cl) \cup {EMPTY, EOF}
    <3>1. disk'[c].slot = Blank.slot
      <4>1. CASE c = w.at
        BY <2>2, <2>3, <4>1
      <4>2. CASE c # w.at
        <5>1. disk'[c] = disk[c]
          BY <1>4, <2>2, <4>2
        <5> QED
          BY <1>1, <5>1
      <4> QED
        BY <4>1, <4>2
    <3>2. fat'[c] = fat[c]
      BY <1>4, <2>2
    <3> QED
      BY <1>1, <3>1, <3>2
  <2>7. \A c \in Clusters : c # parent /\ c \notin Range(cl) => disk'[c] = disk[c]
    BY <2>1, <2>2
  <2> QED
    BY <1>1, <2>2, <2>4, <2>5, <2>6, <2>7
<1>10. CASE ~Storing(w, cl, buf)
  <2>1. \A c \in Range(cl) : Fits(disk[c], parent, buf)
    BY <1>1, <1>2, <1>6, <1>10
  <2>2. Entering(w, s, entry) \/ Linking(w, cl) \/ w.to = "index"
    BY <1>1, <1>3, <1>10
  <2>3. CASE Entering(w, s, entry)
    <3>1. /\ w.to = "disk" /\ w.at = parent
          /\ w.value.slot[s] \in {saved.disk[parent].slot[s], entry}
          /\ \A t \in Slots : t # s => w.value.slot[t] = saved.disk[parent].slot[t]
      BY <2>3 DEF Entering, parent
    <3>2. /\ disk'[parent] = w.value
          /\ \A c \in Clusters : c # parent => disk'[c] = disk[c]
          /\ \A c \in Clusters : fat'[c] = fat[c]
      BY <1>1, <1>5, <3>1
    <3>3. \A c \in Range(cl) : disk'[c] = disk[c] /\ fat'[c] = fat[c]
      BY <1>4, <3>2
    <3>4. \A c \in Range(cl) : Fits(disk'[c], parent, buf)
      BY <2>1, <3>3
    <3> QED
      BY <1>1, <3>1, <3>2, <3>3, <3>4
  <2>4. CASE Linking(w, cl)
    <3>1. w.to = "fat" /\ \A c \in Range(cl) : w.value[c] \in Range(cl) \cup {EOF}
      BY <2>4 DEF Linking
    <3>2. disk' = disk
      BY <1>5, <3>1
    <3>3. \A c \in Range(cl) : fat'[c] \in Range(cl) \cup {EMPTY, EOF}
      <4> SUFFICES ASSUME NEW c \in Range(cl)
                   PROVE  fat'[c] \in Range(cl) \cup {EMPTY, EOF}
        OBVIOUS
      <4>1. fat'[c] = fat[c] \/ fat'[c] = w.value[c]
        BY <1>4, <1>5
      <4> QED
        BY <1>1, <3>1, <4>1
    <3> QED
      BY <1>1, <2>1, <3>2, <3>3
  <2>5. CASE w.to = "index"
    <3>1. disk' = disk /\ \A c \in Clusters : fat'[c] = fat[c]
      BY <1>5, <2>5
    <3>2. \A c \in Range(cl) : fat'[c] = fat[c]
      BY <1>4, <3>1
    <3> QED
      BY <1>1, <2>1, <3>1, <3>2
  <2> QED
    BY <2>2, <2>3, <2>4, <2>5
<1> QED
  BY <1>9, <1>10

LEMMA NamedStep ==
    ASSUME Typed, Named, WriteNext \/ LoadAgain \/ Stop \/ UNCHANGED allVars
    PROVE  Named'
<1>1. CASE WriteNext
  <2>1. CASE call' = NoCall
    BY <2>1 DEF NoCall, Named
  <2>2. CASE saved' = saved /\ call' = call
    <3>1. exhausted' = exhausted
      BY <1>1 DEF WriteNext
    <3>2. SUFFICES ASSUME call.op = "write", SavedSound
                   PROVE  \E s \in Slots, buf \in Buffers,
                               cl \in SeqUpTo(Data, MaxFragments) \ {<<>>} :
                            Entered(s, cl, buf)'
      BY <2>2, <3>1, SavedKept DEF Named
    <3>3. PICK s \in Slots, buf \in Buffers, cl \in SeqUpTo(Data, MaxFragments) \ {<<>>} :
             Entered(s, cl, buf)
      BY <3>2 DEF Named
    <3>4. Entered(s, cl, buf)'
      BY <1>1, <2>2, <3>3, EnteredNext
    <3> QED
      BY <3>3, <3>4
  <2>3. \/ call' = NoCall
        \/ saved' = saved /\ call' = call
    BY <1>1, NextWriteFacts
  <2> QED
    BY <2>1, <2>2, <2>3
<1>2. CASE LoadAgain
  <2>1. call' = NoCall
    BY <1>2 DEF LoadAgain
  <2> QED
    BY <2>1 DEF NoCall, Named
<1>3. CASE Stop \/ UNCHANGED allVars
  <2>1. /\ saved' = saved /\ call' = call /\ exhausted' = exhausted
        /\ fat' = fat /\ disk' = disk
        /\ pending' = <<>> \/ pending' = pending
    BY <1>3 DEF Stop, allVars, vars
  <2>2. SUFFICES ASSUME call.op = "write", SavedSound
                 PROVE  \E s \in Slots, buf \in Buffers,
                               cl \in SeqUpTo(Data, MaxFragments) \ {<<>>} :
                          Entered(s, cl, buf)'
    BY <2>1, SavedKept DEF Named
  <2>3. PICK s \in Slots, buf \in Buffers, cl \in SeqUpTo(Data, MaxFragments) \ {<<>>} :
           Entered(s, cl, buf)
    BY <2>2 DEF Named
  <2>4. Range(pending') \subseteq Range(pending)
    BY <2>1, SeqNone
  <2>5. \A w, entry : /\ Storing(w, cl, buf)' = Storing(w, cl, buf)
                      /\ Entering(w, s, entry)' = Entering(w, s, entry)
                      /\ Linking(w, cl)' = Linking(w, cl)
    BY <2>1 DEF Storing, Entering, Linking
  <2>6. \A c : pending' = pending => Waiting(c, cl, buf)' = Waiting(c, cl, buf)
    BY <2>1, <2>5 DEF Waiting
  <2>7. Entered(s, cl, buf)'
    BY <2>1, <2>3, <2>4, <2>5, <2>6 DEF Entered
  <2> QED
    BY <2>3, <2>7
<1> QED
  BY <1>1, <1>2, <1>3

LEMMA NamedInit == InitWrites => Named
BY DEF InitWrites, NoCall, Named

LEMMA NextNamed == Typed /\ Named /\ [NextWrites]_allVars => Named'
<1> SUFFICES ASSUME Typed, Named, [NextWrites]_allVars
             PROVE  Named'
  OBVIOUS
<1>1. \/ StartFormat
      \/ LoadAgain \/ Stop \/ WriteNext \/ UNCHANGED allVars
      \/ \E parent \in Parents, name \in Names :
           \/ \E buf \in Buffers : StartWrite(parent, name, buf)
           \/ StartDelete(parent, name)
  BY DEF NextWrites
<1>2. ASSUME StartFormat \/ \E parent \in Parents, name \in Names : StartDelete(parent, name)
      PROVE  Named'
  <2>1. CASE StartFormat
    <3>1. call'.op = "mount"
      BY <2>1 DEF StartFormat, Begin
    <3> QED
      BY <3>1 DEF Named
  <2>2. CASE \E parent \in Parents, name \in Names : StartDelete(parent, name)
    <3>1. PICK parent \in Parents, name \in Names : StartDelete(parent, name)
      BY <2>2
    <3>2. call' = [op |-> "delete", parent |-> parent, name |-> name]
      BY <3>1, DeleteCall DEF DeleteMeans
    <3> QED
      BY <3>2 DEF Named
  <2> QED
    BY <1>2, <2>1, <2>2
<1> QED
  BY <1>1, <1>2, NamedStep, NamedStart

\* A name that a write has put in a table leads to what was written, at whatever
\* write the machine stops, with any number of stops before it.
THEOREM NamesComeLast == SpecWrites => []NoNameBeforeData
<1>1. Named => NoNameBeforeData
  BY NamedMeans
<1> QED
  BY <1>1, TypedInit, NamedInit, NextTyped, NextNamed, PTL DEF SpecWrites

----------------------------------------------------------------------------
(* The records of the index. *)

Count == saved.fat[INDEX]

\* A count that takes in records which are not stored yet.
Early(w) ==
    /\ w.to = "fat"
    /\ w.value[INDEX] > Len(index) /\ w.value[INDEX] <= IndexCapacity

\* No record, and no count but n.
Plain(w, n) == w.to # "index" /\ (w.to = "fat" => w.value[INDEX] = n)

\* The count never runs ahead of the records that are stored.
Backed ==
    /\ IsSeq(index) /\ fat[INDEX] <= Len(index)
    /\ IsSeq(saved.index) /\ Count <= Len(saved.index)
    /\ \A q \in DOMAIN pending :
         /\ pending[q].to = "index" => pending[q].at \in Nat \ {0}
         /\ Early(pending[q]) => \E p \in 1 .. q - 1 :
              pending[p].to = "index" /\ pending[p].at = pending[q].value[INDEX]

\* A call that adds a record, or leaves the records alone.
Appending ==
    /\ \A i \in 1 .. Count : index[i] = saved.index[i]
    /\ fat[INDEX] >= Count
    /\ \A w \in Range(pending) : /\ w.to = "index" => w.at > Count
                                 /\ w.to = "fat" => w.value[INDEX] >= Count

\* A call that takes the record in place a away and has moved m of the others
\* down by one place.  The count follows when all are moved.
Shifting(a, m) ==
    /\ a \in 1 .. Count /\ m \in 0 .. Count - a
    /\ saved.index[a] = <<call.name, call.parent>>
    /\ \A i \in 1 .. Count :
         index[i] = IF a <= i /\ i < a + m THEN saved.index[i + 1] ELSE saved.index[i]
    /\ fat[INDEX] >= Count \/ (fat[INDEX] = Count - 1 /\ m = Count - a)
    /\ pending # <<>> =>
         \A j \in DOMAIN pending :
            IF j <= Count - a - m
            THEN pending[j] = ToRecord(a + m + j - 1, saved.index[a + m + j])
            ELSE Plain(pending[j], Count - 1)

Recorded ==
    call.op # "mount" =>
        /\ Count <= Len(index)
        /\ Appending \/ \E a \in 1 .. Count, m \in 0 .. Count : Shifting(a, m)

LEMMA SeqParts ==
    ASSUME NEW s, NEW t, IsSeq(s), IsSeq(t)
    PROVE  /\ Len(s) \in Nat /\ Len(t) \in Nat
           /\ DOMAIN s = 1 .. Len(s) /\ DOMAIN t = 1 .. Len(t)
           /\ Len(s \o t) = Len(s) + Len(t)
           /\ DOMAIN (s \o t) = 1 .. (Len(s) + Len(t))
           /\ \A i \in 1 .. Len(s) + Len(t) :
                (s \o t)[i] = IF i <= Len(s) THEN s[i] ELSE t[i - Len(s)]
<1> DEFINE S == Range(s) \cup Range(t)
<1>1. s \in Seq(S) /\ t \in Seq(S)
  BY DEF IsSeq
<1> HIDE DEF S
<1> QED
  BY <1>1, ConcatProperties

LEMMA InRange ==
    ASSUME NEW s, NEW i \in DOMAIN s
    PROVE  s[i] \in Range(s)
BY DEF Range

\* What the fields of the writes are.
LEMMA WriteFields ==
    /\ \A c, v : ToCluster(c, v).to = "disk"
    /\ \A i, r : ToRecord(i, r).to = "index" /\ ToRecord(i, r).at = i
                 /\ ToRecord(i, r).value = r
    /\ \A sign : ToBoot(sign).to = "boot"
    /\ Lost.to = "nowhere"
BY DEF ToCluster, ToRecord, ToBoot, Lost

LEMMA PlainFAT ==
    ASSUME NEW t, NEW w \in Range(FatWrites(t))
    PROVE  Plain(w, t[INDEX])
BY FatWritesShape DEF Plain

LEMMA PlainOther ==
    ASSUME NEW w, NEW n, w.to \in {"disk", "boot", "nowhere"}
    PROVE  Plain(w, n)
BY DEF Plain

LEMMA PlainEntry ==
    ASSUME NEW parent, NEW v, NEW n, NEW w \in Range(EntryWrites(parent, v))
    PROVE  Plain(w, n)
<1>1. \E u : Range(EntryWrites(parent, v)) = {ToCluster(parent, u), ToCluster(parent, v)}
  BY EntryWritesShape
<1>2. w.to = "disk"
  BY <1>1 DEF ToCluster
<1> QED
  BY <1>2 DEF Plain

\* The writes of a write: the old count in the FAT, the record, the new count.
AppendMeans(L) ==
    /\ IsSeq(pending') /\ L \in Nat
    /\ \A q \in DOMAIN pending' :
         /\ q <= L => Plain(pending'[q], fat[INDEX])
         /\ q = L + 1 => pending'[q].to = "index" /\ pending'[q].at = fat[INDEX] + 1
         /\ q > L + 1 => Plain(pending'[q], fat[INDEX] + 1)

LEMMA WriteRecords ==
    ASSUME Typed, NEW parent \in Parents, NEW name \in Names, NEW buf \in Buffers,
           StartWrite(parent, name, buf)
    PROVE  \E L : AppendMeans(L)
<1> DEFINE k == ClustersFor(buf)
<1>k. k \in Nat \ {0}
  BY BufferFacts
<1>f. fat \in [Clusters -> Nat] /\ INDEX \in Clusters /\ INDEX \notin Data
  BY Numbers DEF Typed, DiskTyped
<1>1. PICK s \in FirstFree(disk[parent]), cl \in [1 .. k -> Data] :
         LET table   == Linked(fat, cl)
             content == [i \in DOMAIN cl |-> IF buf = <<>> THEN DirTable(name, parent)
                                                          ELSE FileBlock(buf[i])]
         IN  /\ IsAllocation(fat, cl)
             /\ Begin("write", parent, name, WriteOrder(
                  [i \in DOMAIN cl |-> ToCluster(cl[i], content[i])],
                  EntryWrites(parent,
                     WithEntry(disk[parent], s, name, buf = <<>>, cl[1])),
                  table,
                  <<ToRecord(fat[INDEX] + 1, <<name, parent>>)>>
                     \o FatWrites([table EXCEPT ![INDEX] = fat[INDEX] + 1])))
  BY DEF StartWrite
<1> DEFINE table   == Linked(fat, cl)
           content == [i \in DOMAIN cl |-> IF buf = <<>> THEN DirTable(name, parent)
                                                        ELSE FileBlock(buf[i])]
           v       == WithEntry(disk[parent], s, name, buf = <<>>, cl[1])
           counted == [table EXCEPT ![INDEX] = fat[INDEX] + 1]
           data    == [i \in DOMAIN cl |-> ToCluster(cl[i], content[i])]
           new     == ToRecord(fat[INDEX] + 1, <<name, parent>>)
           A       == (data \o EntryWrites(parent, v)) \o FatWrites(table)
           B       == <<new>> \o FatWrites(counted)
<1>2. pending' = A \o B
  BY <1>1 DEF Begin, WriteOrder
<1>3. table[INDEX] = fat[INDEX]
  <2>1. ~\E i \in DOMAIN cl : cl[i] = INDEX
    BY <1>f
  <2> QED
    BY <1>f, <2>1 DEF Linked
<1>4. counted[INDEX] = fat[INDEX] + 1
  BY <1>f DEF Linked
<1>5. IsSeq(data) /\ \A w \in Range(data) : Plain(w, fat[INDEX])
  <2>1. DOMAIN data = 1 .. k /\ data = [i \in 1 .. k |-> data[i]]
        /\ \A i \in 1 .. k : data[i] = ToCluster(cl[i], content[i])
    OBVIOUS
  <2> HIDE DEF data, content
  <2>2. IsSeq(data)
    BY <1>k, <2>1, SeqOfAny
  <2>3. \A i \in 1 .. k : Plain(data[i], fat[INDEX])
    BY <2>1, WriteFields DEF Plain
  <2> QED
    BY <2>1, <2>2, <2>3 DEF Range
<1> HIDE DEF k, table, content, v, counted, data
<1>6. IsSeq(A) /\ \A w \in Range(A) : Plain(w, fat[INDEX])
  <2>1. IsSeq(EntryWrites(parent, v)) /\ IsSeq(FatWrites(table))
    BY EntryWritesShape, FatWritesShape
  <2>2. /\ IsSeq(data \o EntryWrites(parent, v))
        /\ Range(data \o EntryWrites(parent, v)) = Range(data) \cup Range(EntryWrites(parent, v))
    BY <1>5, <2>1, SeqJoin
  <2>3. IsSeq(A) /\ Range(A) = Range(data) \cup Range(EntryWrites(parent, v))
                                 \cup Range(FatWrites(table))
    BY <2>1, <2>2, SeqJoin
  <2>4. \A w \in Range(EntryWrites(parent, v)) : Plain(w, fat[INDEX])
    BY PlainEntry
  <2>5. \A w \in Range(FatWrites(table)) : Plain(w, fat[INDEX])
    BY <1>3, PlainFAT
  <2> QED
    BY <1>5, <2>3, <2>4, <2>5
<1>7. IsSeq(<<new>>) /\ Len(<<new>>) = 1 /\ IsSeq(FatWrites(counted))
      /\ <<new>>[1] = new
  BY SeqOne, FatWritesShape
<1>8. new.to = "index" /\ new.at = fat[INDEX] + 1
  BY WriteFields
<1> HIDE DEF A, new
<1>9. IsSeq(B)
  BY <1>7, SeqJoin
<1>10. /\ Len(FatWrites(counted)) \in Nat /\ Len(B) = 1 + Len(FatWrites(counted))
       /\ DOMAIN FatWrites(counted) = 1 .. Len(FatWrites(counted))
       /\ \A i \in 1 .. 1 + Len(FatWrites(counted)) :
            B[i] = IF i <= 1 THEN <<new>>[i] ELSE FatWrites(counted)[i - 1]
  BY <1>7, SeqParts
<1>11. \A i \in 1 .. Len(FatWrites(counted)) : Plain(FatWrites(counted)[i], fat[INDEX] + 1)
  BY <1>4, <1>10, InRange, PlainFAT
<1> HIDE DEF B
<1>12. /\ Len(A) \in Nat /\ Len(B) \in Nat /\ DOMAIN A = 1 .. Len(A)
       /\ DOMAIN (A \o B) = 1 .. (Len(A) + Len(B))
       /\ \A i \in 1 .. Len(A) + Len(B) :
            (A \o B)[i] = IF i <= Len(A) THEN A[i] ELSE B[i - Len(A)]
  BY <1>6, <1>9, SeqParts
<1>13. IsSeq(A \o B)
  BY <1>6, <1>9, SeqJoin
<1>14. ASSUME NEW q \in DOMAIN (A \o B)
       PROVE  /\ q <= Len(A) => Plain((A \o B)[q], fat[INDEX])
              /\ q = Len(A) + 1 => (A \o B)[q].to = "index" /\ (A \o B)[q].at = fat[INDEX] + 1
              /\ q > Len(A) + 1 => Plain((A \o B)[q], fat[INDEX] + 1)
  <2>1. CASE q <= Len(A)
    <3>1. q \in DOMAIN A /\ (A \o B)[q] = A[q] /\ ~(q = Len(A) + 1) /\ ~(q > Len(A) + 1)
      BY <1>12, <2>1
    <3> QED
      BY <1>6, <3>1, InRange
  <2>2. CASE q = Len(A) + 1
    <3>1. (A \o B)[q] = B[1] /\ ~(q <= Len(A)) /\ ~(q > Len(A) + 1)
      BY <1>12, <2>2
    <3>2. B[1] = new
      BY <1>7, <1>10
    <3> QED
      BY <1>8, <3>1, <3>2
  <2>3. CASE q > Len(A) + 1
    <3>1. /\ (A \o B)[q] = B[q - Len(A)] /\ ~(q <= Len(A)) /\ ~(q = Len(A) + 1)
          /\ q - Len(A) \in 1 .. Len(B) /\ ~(q - Len(A) <= 1)
      BY <1>12, <2>3
    <3>2. /\ B[q - Len(A)] = FatWrites(counted)[(q - Len(A)) - 1]
          /\ (q - Len(A)) - 1 \in 1 .. Len(FatWrites(counted))
      BY <1>10, <1>12, <3>1
    <3> QED
      BY <1>11, <3>1, <3>2
  <2> QED
    BY <1>12, <2>1, <2>2, <2>3
<1>15. AppendMeans(Len(A))
  BY <1>2, <1>12, <1>13, <1>14 DEF AppendMeans
<1> QED
  BY <1>15

\* The writes of a delete: no record and the old count, or the records from
\* place a on, one place down, and then the new count.
RemoveMeans(a, name, parent) ==
    /\ a \in 1 .. fat[INDEX] /\ index[a] = <<name, parent>>
    /\ \A j \in DOMAIN pending' :
         IF j <= fat[INDEX] - a
         THEN pending'[j] = ToRecord(a + j - 1, index[a + j])
         ELSE Plain(pending'[j], fat[INDEX] - 1)

LEMMA DeleteRecords ==
    ASSUME Typed, Backed, NEW parent \in Parents, NEW name \in Names,
           StartDelete(parent, name)
    PROVE  \/ \A w \in Range(pending') : Plain(w, fat[INDEX])
           \/ \E a : RemoveMeans(a, name, parent)
<1>f. /\ fat \in [Clusters -> Nat] /\ fat[INDEX] \in Nat
      /\ INDEX \in Clusters /\ INDEX \notin Data
  BY Numbers DEF Typed, DiskTyped
<1>1. PICK s \in FirstNamed(disk[parent], name) :
         LET entry == disk[parent].slot[s]
             table == Loaded(NoRecord)
             found == FirstRecord(table, <<name, parent>>)
             count == IF found = {} THEN fat[INDEX] ELSE fat[INDEX] - 1
             at    == IF found = {} THEN fat[INDEX] ELSE CHOOSE i \in found : TRUE
             gone  == IF entry.dir THEN <<entry.cl>> ELSE Visits(entry)
             inside == WithinOf(gone, Clusters)
             zeros == [i \in DOMAIN inside |-> ZeroWrite(inside[i])]
         IN  /\ ~RefusesDelete(entry)
             /\ Begin("delete", parent, name, DeleteOrder(
                  ShiftWrites(at),
                  IF found = {} THEN <<>>
                                ELSE FatWrites([fat EXCEPT ![INDEX] = count]),
                  zeros \o
                  IF inside # gone THEN <<Lost>>
                  ELSE EntryWrites(parent, [disk[parent] EXCEPT !.slot[s] = Reset(@)])
                       \o FatWrites([Freed(fat, Range(gone)) EXCEPT ![INDEX] = count])))
  BY DEF StartDelete
<1> DEFINE entry == disk[parent].slot[s]
           table == Loaded(NoRecord)
           found == FirstRecord(table, <<name, parent>>)
           count == IF found = {} THEN fat[INDEX] ELSE fat[INDEX] - 1
           at    == IF found = {} THEN fat[INDEX] ELSE CHOOSE i \in found : TRUE
           gone  == IF entry.dir THEN <<entry.cl>> ELSE Visits(entry)
           inside == WithinOf(gone, Clusters)
           zeros == [i \in DOMAIN inside |-> ZeroWrite(inside[i])]
           v     == ResetTable(disk[parent], s)
           counted == IF found = {} THEN <<>> ELSE FatWrites([fat EXCEPT ![INDEX] = count])
           freed == [Freed(fat, Range(gone)) EXCEPT ![INDEX] = count]
           rest  == IF inside # gone THEN <<Lost>>
                    ELSE EntryWrites(parent, v) \o FatWrites(freed)
           A     == ShiftWrites(at)
           B     == counted \o (zeros \o rest)
<1>2. pending' = (A \o counted) \o (zeros \o rest)
  BY <1>1 DEF Begin, ResetTable, DeleteOrder
<1>3. IsSeq(gone)
  BY SeqOne, VisitsShape
<1>4. freed[INDEX] = count /\ [fat EXCEPT ![INDEX] = count][INDEX] = count
  BY <1>f DEF Freed
<1> HIDE DEF gone, v
<1>5. IsSeq(inside)
  BY <1>3, WithinShape
<1> HIDE DEF inside, freed
<1>6. IsSeq(zeros) /\ \A w \in Range(zeros) : Plain(w, count)
  <2> HIDE DEF count
  <2>1. Len(inside) \in Nat /\ DOMAIN inside = 1 .. Len(inside)
    BY <1>5, SeqShape
  <2>2. /\ DOMAIN zeros = 1 .. Len(inside) /\ zeros = [i \in 1 .. Len(inside) |-> zeros[i]]
        /\ \A i \in 1 .. Len(inside) : zeros[i] = ZeroWrite(inside[i])
    BY <2>1
  <2> HIDE DEF zeros
  <2>3. IsSeq(zeros)
    BY <2>1, <2>2, SeqOfAny
  <2>4. \A i \in 1 .. Len(inside) : zeros[i].to \in {"disk", "boot"}
    <3>1. \A c : ZeroWrite(c).to \in {"disk", "boot"}
      BY DEF ZeroWrite, ToBoot, ToCluster
    <3> QED
      BY <2>2, <3>1
  <2>5. \A i \in 1 .. Len(inside) : Plain(zeros[i], count)
    BY <2>4, PlainOther
  <2> QED
    BY <2>2, <2>3, <2>5 DEF Range
<1> HIDE DEF zeros
<1>7. IsSeq(counted) /\ \A w \in Range(counted) : Plain(w, count)
  <2>1. CASE found = {}
    BY <2>1, SeqNone
  <2>2. CASE found # {}
    <3> DEFINE t == [fat EXCEPT ![INDEX] = count]
    <3>1. counted = FatWrites(t) /\ t[INDEX] = count
      BY <1>4, <2>2
    <3> HIDE DEF t, counted, count
    <3> QED
      BY <3>1, FatWritesShape, PlainFAT
  <2> QED
    BY <2>1, <2>2
<1>8. IsSeq(rest) /\ \A w \in Range(rest) : Plain(w, count)
  <2> HIDE DEF count
  <2>1. CASE inside # gone
    <3>1. rest = <<Lost>>
      BY <2>1
    <3>2. Plain(Lost, count)
      BY DEF Lost, Plain
    <3> HIDE DEF rest
    <3>3. IsSeq(rest) /\ Range(rest) = {Lost}
      BY <3>1, SeqOne
    <3> QED
      BY <3>2, <3>3
  <2>2. CASE inside = gone
    <3>1. rest = EntryWrites(parent, v) \o FatWrites(freed)
      BY <2>2
    <3>2. IsSeq(EntryWrites(parent, v)) /\ IsSeq(FatWrites(freed))
      BY EntryWritesShape, FatWritesShape
    <3>3. \A w \in Range(EntryWrites(parent, v)) : Plain(w, count)
      BY PlainEntry
    <3>4. \A w \in Range(FatWrites(freed)) : Plain(w, count)
      BY <1>4, PlainFAT
    <3> HIDE DEF rest
    <3>5. /\ IsSeq(rest)
          /\ Range(rest) = Range(EntryWrites(parent, v)) \cup Range(FatWrites(freed))
      BY <3>1, <3>2, SeqJoin
    <3> QED
      BY <3>3, <3>4, <3>5
  <2> QED
    BY <2>1, <2>2
<1>9. at \in Nat
  <2>1. CASE found # {}
    <3>1. at \in found
      BY <2>1
    <3>2. at \in DOMAIN table
      BY <3>1 DEF FirstRecord
    <3> QED
      BY <1>f, <3>2 DEF Loaded
  <2> QED
    BY <1>f, <2>1
<1>10. /\ IsSeq(A)
       /\ A = [j \in 1 .. (fat[INDEX] - at) |-> ToRecord(at + j - 1, index[at + j])]
  <2> HIDE DEF at
  <2> QED
    BY <1>9, <1>f, ShiftWritesShape DEF ShiftWrites
<1> HIDE DEF rest, counted
<1>11. IsSeq(A \o counted) /\ IsSeq(zeros \o rest)
       /\ \A w \in Range(zeros \o rest) : Plain(w, count)
  <2> HIDE DEF A, count
  <2> QED
    BY <1>6, <1>7, <1>8, <1>10, SeqJoin
<1>12. CASE found = {}
  <2>1. count = fat[INDEX] /\ at = fat[INDEX]
    BY <1>12
  <2>2. A = <<>> /\ Range(A) = {}
    <3> HIDE DEF at, A
    <3>1. 1 .. (fat[INDEX] - at) = {}
      BY <1>f, <2>1
    <3>2. DOMAIN A = {} /\ Range(A) = {}
      BY <1>10, <3>1 DEF Range
    <3>3. A = <<>>
      BY <1>10, <3>2, SeqShape
    <3> QED
      BY <3>2, <3>3
  <2> HIDE DEF A, count, at
  <2>3. Range(A \o counted) = Range(A) \cup Range(counted)
    BY <1>7, <1>10, SeqJoin
  <2>4. Range(pending') = Range(A \o counted) \cup Range(zeros \o rest)
    BY <1>2, <1>11, SeqJoin
  <2>5. \A w \in Range(pending') : Plain(w, count)
    BY <1>7, <1>11, <2>2, <2>3, <2>4
  <2> QED
    BY <2>1, <2>5
<1>13. CASE found # {}
  <2>1. count = fat[INDEX] - 1 /\ at \in found
    BY <1>13
  <2>2. /\ at \in 1 .. fat[INDEX] /\ table[at] = <<name, parent>>
    BY <2>1 DEF FirstRecord, Loaded
  <2>3. at <= Len(index)
    <3> HIDE DEF at, found, table
    <3>1. IsSeq(index) /\ fat[INDEX] <= Len(index)
      BY DEF Backed
    <3>2. Len(index) \in Nat
      BY <3>1, SeqShape
    <3> QED
      BY <1>f, <2>2, <3>1, <3>2
  <2>4. index[at] = <<name, parent>>
    BY <2>2, <2>3 DEF Loaded
  <2> DEFINE n == fat[INDEX] - at
  <2>5. n \in Nat /\ DOMAIN A = 1 .. n
        /\ \A j \in 1 .. n : A[j] = ToRecord(at + j - 1, index[at + j])
    <3> HIDE DEF at, A
    <3> QED
      BY <1>f, <1>10, <2>2
  <2> HIDE DEF A, n, count, at, found, table
  <2>6. Len(A) = n
    <3>1. Len(A) \in Nat /\ DOMAIN A = 1 .. Len(A)
      BY <1>10, SeqShape
    <3> QED
      BY <2>5, <3>1
  <2>7. /\ Len(counted) \in Nat /\ DOMAIN counted = 1 .. Len(counted)
        /\ Len(A \o counted) = n + Len(counted)
        /\ DOMAIN (A \o counted) = 1 .. (n + Len(counted))
        /\ \A i \in 1 .. n + Len(counted) :
             (A \o counted)[i] = IF i <= n THEN A[i] ELSE counted[i - n]
    BY <1>7, <1>10, <2>6, SeqParts
  <2> DEFINE L == n + Len(counted)
             C == A \o counted
             D == zeros \o rest
  <2>8. /\ Len(D) \in Nat /\ DOMAIN D = 1 .. Len(D)
        /\ DOMAIN (C \o D) = 1 .. (L + Len(D))
        /\ \A i \in 1 .. L + Len(D) :
             (C \o D)[i] = IF i <= L THEN C[i] ELSE D[i - L]
    <3>1. IsSeq(C) /\ IsSeq(D) /\ Len(C) = L
      BY <1>11, <2>7
    <3> HIDE DEF C, D, L
    <3> QED
      BY <3>1, SeqParts
  <2> HIDE DEF C, D
  <2>9. pending' = C \o D
    BY <1>2 DEF C, D
  <2>10. ASSUME NEW j \in DOMAIN pending'
         PROVE  IF j <= n THEN pending'[j] = ToRecord(at + j - 1, index[at + j])
                          ELSE Plain(pending'[j], count)
    <3>1. j \in 1 .. L + Len(D) /\ L \in Nat
      BY <2>5, <2>7, <2>8, <2>9
    <3>2. CASE j <= n
      <4>1. j \in 1 .. n /\ j <= L
        BY <2>5, <2>7, <3>1, <3>2
      <4>2. pending'[j] = C[j] /\ C[j] = A[j]
        BY <2>7, <2>8, <2>9, <3>1, <4>1 DEF C
      <4> QED
        BY <2>5, <3>2, <4>1, <4>2
    <3>3. CASE ~(j <= n) /\ j <= L
      <4>1. j - n \in DOMAIN counted /\ C[j] = counted[j - n] /\ pending'[j] = C[j]
        BY <2>5, <2>7, <2>8, <2>9, <3>1, <3>3 DEF C
      <4>2. Plain(counted[j - n], count)
        BY <1>7, <4>1, InRange
      <4> QED
        BY <3>3, <4>1, <4>2
    <3>4. CASE ~(j <= n) /\ ~(j <= L)
      <4>1. j - L \in DOMAIN D /\ pending'[j] = D[j - L]
        BY <2>8, <2>9, <3>1, <3>4
      <4>2. Plain(D[j - L], count)
        BY <1>11, <4>1, InRange DEF D
      <4> QED
        BY <3>4, <4>1, <4>2
    <3> QED
      BY <3>2, <3>3, <3>4
  <2>11. RemoveMeans(at, name, parent)
    BY <2>1, <2>2, <2>4, <2>10 DEF RemoveMeans, n
  <2> QED
    BY <2>11
<1> QED
  BY <1>12, <1>13

\* What one write does to the index.
LEMMA AppliedIndex ==
    ASSUME IsSeq(index), NEW w, Applied(w), w.to = "index" => w.at \in Nat \ {0}
    PROVE  /\ IsSeq(index') /\ Len(index') >= Len(index)
           /\ w.to # "index" => index' = index
           /\ w.to = "index" /\ w.at <= IndexCapacity =>
                Len(index') >= w.at /\ index'[w.at] = w.value
           /\ \A i \in 1 .. Len(index) :
                ~(w.to = "index" /\ w.at = i) => index'[i] = index[i]
<1>1. index' = IF w.to # "index" \/ w.at > IndexCapacity THEN index
               ELSE [i \in 1 .. (IF w.at > Len(index) THEN w.at ELSE Len(index))
                       |-> IF i = w.at THEN w.value ELSE index[i]]
  BY DEF Applied
<1>2. Len(index) \in Nat /\ IndexCapacity \in Nat
  BY SeqShape, SizesAssumption
<1>3. CASE w.to # "index" \/ w.at > IndexCapacity
  <2>1. index' = index
    BY <1>1, <1>3
  <2>2. w.to = "index" => ~(w.at <= IndexCapacity)
    BY <1>2, <1>3
  <2> QED
    BY <1>2, <2>1, <2>2
<1>4. CASE w.to = "index" /\ ~(w.at > IndexCapacity)
  <2> DEFINE n == IF w.at > Len(index) THEN w.at ELSE Len(index)
  <2>1. n \in Nat /\ n >= Len(index) /\ n >= w.at /\ w.at \in Nat \ {0}
    BY <1>2, <1>4
  <2>2. index' = [i \in 1 .. n |-> IF i = w.at THEN w.value ELSE index[i]]
    BY <1>1, <1>4
  <2> HIDE DEF n
  <2>3. /\ index' = [i \in 1 .. n |-> index'[i]]
        /\ \A i \in 1 .. n : index'[i] = IF i = w.at THEN w.value ELSE index[i]
    BY <2>2
  <2>4. IsSeq(index') /\ Len(index') = n
    BY <2>1, <2>3, SeqOfAny
  <2>5. w.at \in 1 .. n /\ \A i \in 1 .. Len(index) : i \in 1 .. n
    BY <1>2, <2>1
  <2> QED
    BY <1>4, <2>1, <2>3, <2>4, <2>5
<1> QED
  BY <1>3, <1>4

\* What one write does to the count.
LEMMA AppliedCount ==
    ASSUME Typed, NEW w, WellMade(w), Applied(w)
    PROVE  /\ fat'[INDEX] \in Nat
           /\ fat'[INDEX] = fat[INDEX] \/ (w.to = "fat" /\ fat'[INDEX] = w.value[INDEX])
<1>1. INDEX \in Clusters
  BY Numbers
<1>2. /\ fat' \in [Clusters -> Nat]
      /\ \A c \in Clusters : fat'[c] = fat[c]
             \/ (w.to = "fat" /\ c \div BlockCells = w.at /\ fat'[c] = w.value[c])
  BY AppliedFacts DEF Typed, DiskTyped
<1> QED
  BY <1>1, <1>2

LEMMA CountTypes ==
    ASSUME Typed
    PROVE  fat[INDEX] \in Nat /\ Count \in Nat
BY Numbers DEF Typed, DiskTyped, Count

LEMMA IndexLength ==
    ASSUME Backed
    PROVE  Len(index) \in Nat /\ Len(saved.index) \in Nat
BY SeqShape DEF Backed

\* The writes of a call that starts on a disk whose count is backed.
LEMMA BackedStart ==
    ASSUME Typed, Backed, saved' = Image, UNCHANGED vars, IsSeq(pending'),
           \A q \in DOMAIN pending' :
              /\ pending'[q].to = "index" => pending'[q].at \in Nat \ {0}
              /\ pending'[q].to = "fat" =>
                   /\ pending'[q].value[INDEX] \in Nat
                   /\ \/ pending'[q].value[INDEX] <= fat[INDEX]
                      \/ \E p \in 1 .. q - 1 :
                           /\ pending'[p].to = "index"
                           /\ pending'[p].at = pending'[q].value[INDEX]
    PROVE  Backed'
<1>1. index' = index /\ fat' = fat /\ saved'.index = index /\ saved'.fat = fat
  BY DEF vars, Image
<1>2. /\ IsSeq(index) /\ fat[INDEX] <= Len(index)
      /\ Len(index) \in Nat /\ fat[INDEX] \in Nat
  BY IndexLength, CountTypes DEF Backed
<1>3. ASSUME NEW q \in DOMAIN pending', pending'[q].to = "fat",
             pending'[q].value[INDEX] > Len(index)
      PROVE  \E p \in 1 .. q - 1 : /\ pending'[p].to = "index"
                                   /\ pending'[p].at = pending'[q].value[INDEX]
  <2>1. pending'[q].value[INDEX] \in Nat
    BY <1>3
  <2>2. ~(pending'[q].value[INDEX] <= fat[INDEX])
    BY <1>2, <1>3, <2>1
  <2> QED
    BY <1>3, <2>2
<1>4. \A q \in DOMAIN pending' : pending'[q].to = "index" => pending'[q].at \in Nat \ {0}
  OBVIOUS
<1> QED
  BY <1>1, <1>2, <1>3, <1>4 DEF Backed, Count, Early

LEMMA IndexWrite ==
    ASSUME Typed, Backed, NEW parent \in Parents, NEW name \in Names, NEW buf \in Buffers,
           StartWrite(parent, name, buf)
    PROVE  Backed' /\ Recorded'
<1>1. PICK L : AppendMeans(L)
  BY WriteRecords
<1>2. saved' = Image /\ UNCHANGED vars
  <2>1. PICK s, cl : WriteMeans(parent, name, buf, s, cl)
    BY WriteCall
  <2> QED
    BY <2>1 DEF WriteMeans
<1>3. /\ IsSeq(pending') /\ L \in Nat
      /\ \A q \in DOMAIN pending' :
           /\ q <= L => Plain(pending'[q], fat[INDEX])
           /\ q = L + 1 => pending'[q].to = "index" /\ pending'[q].at = fat[INDEX] + 1
           /\ q > L + 1 => Plain(pending'[q], fat[INDEX] + 1)
  BY <1>1 DEF AppendMeans
<1>4. DOMAIN pending' = 1 .. Len(pending') /\ Len(pending') \in Nat
  BY <1>3, SeqShape
<1>5. fat[INDEX] \in Nat
  BY CountTypes
<1> DEFINE n == fat[INDEX]
<1> HIDE DEF n
<1>6. ASSUME NEW q \in DOMAIN pending'
      PROVE  /\ pending'[q].to = "index" => pending'[q].at = n + 1
             /\ pending'[q].to = "fat" =>
                  \/ pending'[q].value[INDEX] = n
                  \/ /\ pending'[q].value[INDEX] = n + 1
                     /\ \E p \in 1 .. q - 1 : /\ pending'[p].to = "index"
                                              /\ pending'[p].at = n + 1
  <2>0. q \in Nat
    BY <1>4
  <2>1. CASE q <= L
    <3>1. Plain(pending'[q], n)
      BY <1>3, <2>1 DEF n
    <3> QED
      BY <3>1 DEF Plain
  <2>2. CASE q = L + 1
    <3>1. pending'[q].to = "index" /\ pending'[q].at = n + 1
      BY <1>3, <2>2 DEF n
    <3> QED
      BY <3>1
  <2>3. CASE q > L + 1
    <3>1. Plain(pending'[q], n + 1)
      BY <1>3, <2>3 DEF n
    <3>2. L + 1 \in 1 .. q - 1 /\ L + 1 \in DOMAIN pending'
      BY <1>3, <1>4, <2>3
    <3>3. pending'[L + 1].to = "index" /\ pending'[L + 1].at = n + 1
      BY <1>3, <3>2 DEF n
    <3> QED
      BY <3>1, <3>2, <3>3 DEF Plain
  <2> QED
    BY <1>3, <2>0, <2>1, <2>2, <2>3
<1>7. Backed'
  <2>1. n \in Nat /\ n = fat[INDEX]
    BY <1>5 DEF n
  <2>2. ASSUME NEW q \in DOMAIN pending'
        PROVE  /\ pending'[q].to = "index" => pending'[q].at \in Nat \ {0}
               /\ pending'[q].to = "fat" =>
                   /\ pending'[q].value[INDEX] \in Nat
                   /\ \/ pending'[q].value[INDEX] <= fat[INDEX]
                      \/ \E p \in 1 .. q - 1 :
                           /\ pending'[p].to = "index"
                           /\ pending'[p].at = pending'[q].value[INDEX]
    BY <1>6, <2>1
  <2> QED
    BY <1>2, <1>3, <2>2, BackedStart
<1>8. index' = index /\ fat' = fat /\ saved'.index = index /\ Count' = n
  BY <1>2 DEF vars, Image, Count, n
<1>9. n \in Nat /\ n = fat[INDEX] /\ n <= Len(index)
  BY <1>5 DEF n, Backed
<1>10. ASSUME NEW w \in Range(pending')
       PROVE  /\ w.to = "index" => w.at > n
              /\ w.to = "fat" => w.value[INDEX] >= n
  <2>1. PICK q \in DOMAIN pending' : w = pending'[q]
    BY DEF Range
  <2> QED
    BY <1>6, <1>9, <2>1
<1> QED
  BY <1>7, <1>8, <1>9, <1>10 DEF Recorded, Appending

LEMMA IndexDelete ==
    ASSUME Typed, Backed, NEW parent \in Parents, NEW name \in Names,
           StartDelete(parent, name)
    PROVE  Backed' /\ Recorded'
<1>1. PICK s : DeleteMeans(parent, name, s)
  BY DeleteCall
<1>2. /\ saved' = Image /\ UNCHANGED vars /\ IsSeq(pending')
      /\ call' = [op |-> "delete", parent |-> parent, name |-> name]
  BY <1>1 DEF DeleteMeans
<1> DEFINE n == fat[INDEX]
<1>3. index' = index /\ fat' = fat /\ saved'.index = index /\ Count' = n
  BY <1>2 DEF vars, Image, Count
<1>4. n \in Nat /\ n = fat[INDEX] /\ n <= Len(index)
  BY CountTypes DEF Backed
<1>5. DOMAIN pending' = 1 .. Len(pending') /\ Len(pending') \in Nat
  BY <1>2, SeqShape
<1> HIDE DEF n
<1>6. CASE \A w \in Range(pending') : Plain(w, fat[INDEX])
  <2>1. \A q \in DOMAIN pending' : Plain(pending'[q], n)
    BY <1>4, <1>6, InRange
  <2>2. Backed'
    <3>1. \A q \in DOMAIN pending' :
            /\ pending'[q].to = "index" => pending'[q].at \in Nat \ {0}
            /\ pending'[q].to = "fat" =>
                 pending'[q].value[INDEX] \in Nat /\ pending'[q].value[INDEX] <= fat[INDEX]
      BY <1>4, <2>1 DEF Plain
    <3> QED
      BY <1>2, <3>1, BackedStart
  <2>3. \A w \in Range(pending') : /\ w.to = "index" => w.at > n
                                   /\ w.to = "fat" => w.value[INDEX] >= n
    BY <1>4, <1>6 DEF Plain
  <2> QED
    BY <1>3, <1>4, <2>2, <2>3 DEF Recorded, Appending
<1>7. CASE \E a : RemoveMeans(a, name, parent)
  <2>1. PICK a : RemoveMeans(a, name, parent)
    BY <1>7
  <2>2. /\ a \in 1 .. n /\ index[a] = <<name, parent>>
        /\ \A j \in DOMAIN pending' :
             IF j <= n - a THEN pending'[j] = ToRecord(a + j - 1, index[a + j])
                           ELSE Plain(pending'[j], n - 1)
    BY <1>4, <2>1 DEF RemoveMeans
  <2>3. Backed'
    <3>1. ASSUME NEW q \in DOMAIN pending'
          PROVE  /\ pending'[q].to = "index" => pending'[q].at \in Nat \ {0}
                 /\ pending'[q].to = "fat" =>
                      /\ pending'[q].value[INDEX] \in Nat
                      /\ pending'[q].value[INDEX] <= fat[INDEX]
      <4>0. q \in Nat \ {0} /\ a \in Nat \ {0}
        BY <1>4, <1>5, <2>2
      <4>1. CASE q <= n - a
        <5>1. pending'[q] = ToRecord(a + q - 1, index[a + q])
          BY <2>2, <4>1
        <5>2. pending'[q].to = "index" /\ pending'[q].at = a + q - 1
          BY <5>1 DEF ToRecord
        <5>3. a + q - 1 \in Nat \ {0}
          BY <4>0
        <5> QED
          BY <5>2, <5>3
      <4>2. CASE ~(q <= n - a)
        <5>1. Plain(pending'[q], n - 1)
          BY <2>2, <4>2
        <5>2. n - 1 \in Nat /\ n - 1 <= fat[INDEX]
          BY <1>4, <2>2
        <5> QED
          BY <5>1, <5>2 DEF Plain
      <4> QED
        BY <4>1, <4>2
    <3> QED
      BY <1>2, <3>1, BackedStart
  <2>4. call'.name = name /\ call'.parent = parent
    BY <1>2
  <2>5. Shifting(a, 0)'
    <3>1. 0 \in 0 .. n - a
      BY <1>4, <2>2
    <3>2. \A i \in 1 .. n : ~(a <= i /\ i < a + 0)
      BY <1>4, <2>2
    <3>3. \A j \in DOMAIN pending' :
            IF j <= n - a - 0
            THEN pending'[j] = ToRecord(a + 0 + j - 1, saved'.index[a + 0 + j])
            ELSE Plain(pending'[j], n - 1)
      BY <1>3, <1>4, <2>2
    <3> QED
      BY <1>3, <1>4, <2>2, <2>4, <3>1, <3>2, <3>3 DEF Shifting
  <2>6. a \in 1 .. n /\ 0 \in 0 .. n
    BY <1>4, <2>2
  <2> QED
    BY <1>3, <1>4, <2>3, <2>5, <2>6 DEF Recorded
<1> QED
  BY <1>6, <1>7, DeleteRecords

\* Formatting stores no record, and no count but 0.
LEMMA FormatPlain ==
    ASSUME StartFormat
    PROVE  IsSeq(pending') /\ \A q \in DOMAIN pending' : Plain(pending'[q], 0)
<1> DEFINE first == [c \in Clusters |-> IF c \in {4, 5} THEN EMPTY ELSE FormattedTable[c]]
           root  == DirTable(NoName, ROOT)
           boot  == ToBoot(TRUE)
           two   == <<boot, ToCluster(ROOT, root)>>
<1>1. pending' = FatWrites(first) \o two \o FatWrites(FormattedTable)
  BY DEF StartFormat, Begin
<1>2. first[INDEX] = 0 /\ FormattedTable[INDEX] = 0
  <2>1. INDEX \in Clusters
    BY Numbers
  <2> QED
    BY <2>1 DEF FormattedTable, EMPTY, INDEX, ROOT
<1>3. IsSeq(two) /\ \A w \in Range(two) : Plain(w, 0)
  <2>1. IsSeq(two) /\ Range(two) = {boot, ToCluster(ROOT, root)}
    BY SeqTwo
  <2>2. boot.to = "boot" /\ ToCluster(ROOT, root).to = "disk"
    BY DEF ToBoot, ToCluster
  <2> HIDE DEF two, root, boot
  <2>3. Plain(boot, 0)
    BY <2>2, PlainOther
  <2>4. Plain(ToCluster(ROOT, root), 0)
    BY <2>2, PlainOther
  <2> QED
    BY <2>1, <2>3, <2>4
<1> HIDE DEF first, two
<1>4. /\ IsSeq(FatWrites(first)) /\ IsSeq(FatWrites(FormattedTable))
      /\ \A w \in Range(FatWrites(first)) : Plain(w, 0)
      /\ \A w \in Range(FatWrites(FormattedTable)) : Plain(w, 0)
  BY <1>2, FatWritesShape, PlainFAT
<1>5. /\ IsSeq(FatWrites(first) \o two)
      /\ Range(FatWrites(first) \o two) = Range(FatWrites(first)) \cup Range(two)
  BY <1>3, <1>4, SeqJoin
<1>6. /\ IsSeq(pending')
      /\ Range(pending') = Range(FatWrites(first)) \cup Range(two)
                             \cup Range(FatWrites(FormattedTable))
  BY <1>1, <1>4, <1>5, SeqJoin
<1>7. \A q \in DOMAIN pending' : Plain(pending'[q], 0)
  BY <1>3, <1>4, <1>6, InRange
<1> QED
  BY <1>6, <1>7

LEMMA IndexFormat == ASSUME Typed, Backed, StartFormat PROVE Backed' /\ Recorded'
<1>1. saved' = Image /\ UNCHANGED vars /\ call'.op = "mount"
  BY DEF StartFormat, Begin
<1>2. IsSeq(pending') /\ \A q \in DOMAIN pending' : Plain(pending'[q], 0)
  BY FormatPlain
<1>3. \A q \in DOMAIN pending' :
        /\ pending'[q].to = "index" => pending'[q].at \in Nat \ {0}
        /\ pending'[q].to = "fat" =>
             pending'[q].value[INDEX] \in Nat /\ pending'[q].value[INDEX] <= fat[INDEX]
  BY <1>2, CountTypes DEF Plain
<1> QED
  BY <1>1, <1>2, <1>3, BackedStart DEF Recorded

\* The write that comes next, and what it leaves to come.
LEMMA NextHead ==
    ASSUME Typed, WriteNext
    PROVE  /\ WellMade(pending[1]) /\ Applied(pending[1])
           /\ Len(pending) \in Nat \ {0} /\ DOMAIN pending = 1 .. Len(pending)
           /\ DOMAIN pending' = 1 .. (Len(pending) - 1)
           /\ \A i \in 1 .. Len(pending) - 1 : pending'[i] = pending[i + 1]
           /\ \/ saved' = Image' /\ call' = NoCall /\ pending' = <<>>
              \/ saved' = saved /\ call' = call
<1>1. /\ IsSeq(pending) /\ pending # <<>> /\ Applied(Head(pending))
      /\ pending' = Tail(pending)
  BY DEF Typed, WriteNext
<1>2. /\ Head(pending) = pending[1] /\ Len(pending) \in Nat \ {0}
      /\ DOMAIN pending = 1 .. Len(pending) /\ DOMAIN pending' = 1 .. (Len(pending) - 1)
      /\ \A i \in 1 .. Len(pending) - 1 : pending'[i] = pending[i + 1]
  BY <1>1, SeqHead
<1>3. WellMade(pending[1])
  <2>1. 1 \in DOMAIN pending
    BY <1>2
  <2> QED
    BY <2>1, InRange DEF Typed
<1> QED
  BY <1>1, <1>2, <1>3, NextWriteFacts

LEMMA BackedNext ==
    ASSUME Typed, Backed, IndexRoom', WriteNext
    PROVE  Backed'
<1> DEFINE w == pending[1]
<1>1. /\ WellMade(w) /\ Applied(w)
      /\ Len(pending) \in Nat \ {0} /\ DOMAIN pending = 1 .. Len(pending)
      /\ DOMAIN pending' = 1 .. (Len(pending) - 1)
      /\ \A i \in 1 .. Len(pending) - 1 : pending'[i] = pending[i + 1]
      /\ \/ saved' = Image' /\ call' = NoCall /\ pending' = <<>>
         \/ saved' = saved /\ call' = call
  BY NextHead
<1> HIDE DEF w
<1>2. 1 \in DOMAIN pending
  BY <1>1
<1>3. w.to = "index" => w.at \in Nat \ {0}
  BY <1>2 DEF w, Backed
<1>4. /\ IsSeq(index') /\ Len(index') >= Len(index)
      /\ w.to = "index" /\ w.at <= IndexCapacity => Len(index') >= w.at
  BY <1>1, <1>3, AppliedIndex DEF Backed
<1>5. Len(index) \in Nat /\ Len(index') \in Nat /\ IndexCapacity \in Nat
  BY <1>4, IndexLength, SeqShape, SizesAssumption
<1>6. /\ fat'[INDEX] \in Nat /\ fat[INDEX] \in Nat
      /\ fat'[INDEX] = fat[INDEX] \/ (w.to = "fat" /\ fat'[INDEX] = w.value[INDEX])
  BY <1>1, AppliedCount, CountTypes
<1>7. ~Early(w)
  <2>1. 1 .. 1 - 1 = {}
    OBVIOUS
  <2> QED
    BY <1>2, <2>1 DEF w, Backed
<1>8. fat'[INDEX] <= Len(index')
  <2>1. fat[INDEX] <= Len(index) /\ fat'[INDEX] <= IndexCapacity
    BY DEF Backed, IndexRoom
  <2>2. w.to = "fat" /\ fat'[INDEX] = w.value[INDEX] => fat'[INDEX] <= Len(index)
    BY <1>5, <1>6, <1>7, <2>1 DEF Early
  <2> QED
    BY <1>4, <1>5, <1>6, <2>1, <2>2
<1>9. ASSUME NEW q \in DOMAIN pending'
      PROVE  q + 1 \in DOMAIN pending /\ pending'[q] = pending[q + 1] /\ q \in Nat \ {0}
  BY <1>1
<1>10. ASSUME NEW q \in DOMAIN pending', pending'[q].to = "fat",
              pending'[q].value[INDEX] > Len(index'),
              pending'[q].value[INDEX] <= IndexCapacity
       PROVE  \E p \in 1 .. q - 1 :
                 /\ pending'[p].to = "index"
                 /\ pending'[p].at = pending'[q].value[INDEX]
  <2> DEFINE v == pending[q + 1]
  <2>1. v.to = "fat" /\ v.value[INDEX] > Len(index') /\ v.value[INDEX] <= IndexCapacity
    BY <1>9, <1>10
  <2>2. v.value[INDEX] \in Nat
    <3>1. WellMade(v)
      BY <1>9, InRange DEF Typed
    <3> QED
      BY <2>1, <3>1, Numbers DEF WellMade
  <2> HIDE DEF v
  <2>3. Early(v)
    BY <1>4, <1>5, <2>1, <2>2 DEF Early
  <2>4. PICK p \in 1 .. q : pending[p].to = "index" /\ pending[p].at = v.value[INDEX]
    <3>1. q + 1 - 1 = q
      BY <1>9
    <3> QED
      BY <1>9, <2>3, <3>1 DEF v, Backed
  <2>5. p # 1
    <3> SUFFICES ASSUME p = 1
                 PROVE  FALSE
      OBVIOUS
    <3>1. w.to = "index" /\ w.at = v.value[INDEX]
      BY <2>4 DEF w
    <3>2. Len(index') >= v.value[INDEX]
      BY <1>4, <2>1, <3>1
    <3> QED
      BY <1>5, <2>1, <2>2, <3>2
  <2>6. p - 1 \in 1 .. q - 1 /\ p - 1 \in 1 .. Len(pending) - 1 /\ (p - 1) + 1 = p
    BY <1>1, <1>9, <2>5
  <2>7. pending'[p - 1] = pending[p]
    BY <1>1, <2>6
  <2> QED
    BY <1>9, <2>4, <2>6, <2>7 DEF v
<1>11. \A q \in DOMAIN pending' : pending'[q].to = "index" => pending'[q].at \in Nat \ {0}
  BY <1>9 DEF Backed
<1>12. IsSeq(saved'.index) /\ Count' <= Len(saved'.index)
  <2>1. CASE saved' = Image'
    <3>1. saved'.index = index' /\ saved'.fat = fat'
      BY <2>1 DEF Image
    <3> QED
      BY <1>4, <1>8, <3>1 DEF Count
  <2>2. CASE saved' = saved
    BY <2>2 DEF Backed, Count
  <2> QED
    BY <1>1, <2>1, <2>2
<1> QED
  BY <1>4, <1>8, <1>10, <1>11, <1>12 DEF Backed, Early

\* The writes of an insertion touch no record that the count takes in.
LEMMA AppendingNext ==
    ASSUME Typed, Backed, Count <= Len(index), Appending, WriteNext, saved' = saved
    PROVE  Appending'
<1> DEFINE w == pending[1]
<1>1. /\ WellMade(w) /\ Applied(w) /\ 1 \in DOMAIN pending
      /\ \A q \in DOMAIN pending' : q + 1 \in DOMAIN pending /\ pending'[q] = pending[q + 1]
  BY NextHead
<1>2. w \in Range(pending)
  BY <1>1, InRange
<1> HIDE DEF w
<1>3. /\ w.to = "index" => w.at > Count
      /\ w.to = "fat" => w.value[INDEX] >= Count
  BY <1>2 DEF Appending
<1>4. w.to = "index" => w.at \in Nat \ {0}
  BY <1>1 DEF w, Backed
<1>5. \A i \in 1 .. Len(index) : ~(w.to = "index" /\ w.at = i) => index'[i] = index[i]
  BY <1>1, <1>4, AppliedIndex DEF Backed
<1>6. Count \in Nat /\ Len(index) \in Nat /\ Count' = Count
  BY CountTypes, IndexLength DEF Count
<1>7. ASSUME NEW i \in 1 .. Count
      PROVE  index'[i] = saved'.index[i]
  <2>1. i \in 1 .. Len(index) /\ ~(w.to = "index" /\ w.at = i)
    BY <1>3, <1>4, <1>6
  <2>2. index'[i] = index[i]
    BY <1>5, <2>1
  <2> QED
    BY <2>2 DEF Appending
<1>8. fat'[INDEX] >= Count
  <2>1. fat'[INDEX] = fat[INDEX] \/ (w.to = "fat" /\ fat'[INDEX] = w.value[INDEX])
    BY <1>1, AppliedCount
  <2>2. fat[INDEX] >= Count
    BY DEF Appending
  <2> QED
    BY <1>3, <2>1, <2>2
<1>9. ASSUME NEW x \in Range(pending')
      PROVE  x \in Range(pending)
  <2>1. PICK q \in DOMAIN pending' : x = pending'[q]
    BY DEF Range
  <2> QED
    BY <1>1, <2>1, InRange
<1>10. \A x \in Range(pending') : /\ x.to = "index" => x.at > Count
                                  /\ x.to = "fat" => x.value[INDEX] >= Count
  BY <1>9 DEF Appending
<1> QED
  BY <1>6, <1>7, <1>8, <1>10 DEF Appending

\* The writes of a deletion: the records first, then the count.
LEMMA ShiftingNext ==
    ASSUME Typed, Backed, IndexRoom, Count <= Len(index), WriteNext,
           saved' = saved, call' = call,
           NEW a, NEW m, Shifting(a, m)
    PROVE  Shifting(a, m)' \/ (m + 1 \in 0 .. Count /\ Shifting(a, m + 1)')
<1> DEFINE w == pending[1]
           n == Count
           old == saved.index
<1>1. /\ WellMade(w) /\ Applied(w) /\ 1 \in DOMAIN pending
      /\ \A q \in DOMAIN pending' :
           q + 1 \in DOMAIN pending /\ pending'[q] = pending[q + 1] /\ q \in Nat \ {0}
  BY NextHead
<1>2. pending # <<>>
  BY DEF WriteNext
<1>3. /\ a \in 1 .. n /\ m \in 0 .. n - a /\ old[a] = <<call.name, call.parent>>
      /\ \A i \in 1 .. n :
           index[i] = IF a <= i /\ i < a + m THEN old[i + 1] ELSE old[i]
      /\ fat[INDEX] >= n \/ (fat[INDEX] = n - 1 /\ m = n - a)
      /\ \A j \in DOMAIN pending :
           IF j <= n - a - m THEN pending[j] = ToRecord(a + m + j - 1, old[a + m + j])
           ELSE Plain(pending[j], n - 1)
  BY <1>2 DEF Shifting
<1>4. /\ n \in Nat /\ fat[INDEX] \in Nat /\ Len(index) \in Nat /\ n <= Len(index)
      /\ IndexCapacity \in Nat /\ fat[INDEX] <= IndexCapacity
  BY CountTypes, IndexLength, SizesAssumption DEF IndexRoom
<1>5. Count' = n /\ saved'.index = old
  BY DEF Count
<1>6. w.to = "index" => w.at \in Nat \ {0}
  BY <1>1 DEF Backed
<1>7. /\ w.to # "index" => index' = index
      /\ w.to = "index" /\ w.at <= IndexCapacity => index'[w.at] = w.value
      /\ \A i \in 1 .. Len(index) : ~(w.to = "index" /\ w.at = i) => index'[i] = index[i]
  BY <1>1, <1>6, AppliedIndex DEF Backed
<1>8. /\ fat'[INDEX] = fat[INDEX] \/ (w.to = "fat" /\ fat'[INDEX] = w.value[INDEX])
  BY <1>1, AppliedCount
<1>9. IF 1 <= n - a - m THEN w = ToRecord(a + m + 1 - 1, old[a + m + 1])
      ELSE Plain(w, n - 1)
  BY <1>1, <1>3
<1>10. call'.name = call.name /\ call'.parent = call.parent
  OBVIOUS
<1> HIDE DEF w, n, old
<1>11. CASE 1 <= n - a - m
  <2>1. a + m + 1 - 1 = a + m /\ a + m \in Nat \ {0} /\ a + m < n
    BY <1>3, <1>4, <1>11
  <2>2. w.to = "index" /\ w.at = a + m /\ w.value = old[a + m + 1]
    BY <1>9, <1>11, <2>1, WriteFields
  <2>3. fat[INDEX] >= n
    <3>1. m # n - a
      BY <1>3, <1>4, <1>11
    <3> QED
      BY <1>3, <3>1
  <2>4. index'[a + m] = old[a + m + 1]
    <3>1. a + m <= IndexCapacity
      BY <1>4, <2>1, <2>3
    <3> QED
      BY <1>7, <2>2, <3>1
  <2>5. ASSUME NEW i \in 1 .. n
        PROVE  index'[i] = IF a <= i /\ i < a + (m + 1) THEN old[i + 1] ELSE old[i]
    <3>1. CASE i = a + m
      <4>1. a <= i /\ i < a + (m + 1)
        BY <1>3, <1>4, <3>1
      <4>2. index'[i] = old[i + 1]
        BY <2>4, <3>1
      <4> QED
        BY <4>1, <4>2
    <3>2. CASE i # a + m
      <4>1. index'[i] = index[i]
        <5>1. i \in 1 .. Len(index) /\ w.at # i
          BY <1>4, <2>2, <3>2
        <5> QED
          BY <1>7, <5>1
      <4>2. (a <= i /\ i < a + (m + 1)) <=> (a <= i /\ i < a + m)
        BY <1>3, <1>4, <3>2
      <4>3. index[i] = IF a <= i /\ i < a + m THEN old[i + 1] ELSE old[i]
        BY <1>3
      <4> QED
        BY ONLY <4>1, <4>2, <4>3
    <3> QED
      BY <3>1, <3>2
  <2>6. fat'[INDEX] >= n
    BY <1>8, <2>2, <2>3
  <2>7. ASSUME NEW j \in DOMAIN pending'
        PROVE  IF j <= n - a - (m + 1)
               THEN pending'[j] = ToRecord(a + (m + 1) + j - 1, old[a + (m + 1) + j])
               ELSE Plain(pending'[j], n - 1)
    <3>1. j + 1 \in DOMAIN pending /\ pending'[j] = pending[j + 1] /\ j \in Nat \ {0}
      BY <1>1
    <3>2. a \in Int /\ m \in Int /\ n \in Int /\ j \in Int
      BY <1>3, <1>4, <3>1
    <3>3. /\ a + (m + 1) + j = a + m + (j + 1)
          /\ a + (m + 1) + j - 1 = a + m + (j + 1) - 1
      BY ONLY <3>2
    <3>4. (j <= n - a - (m + 1)) <=> (j + 1 <= n - a - m)
      BY ONLY <3>2
    <3>5. IF j + 1 <= n - a - m
          THEN pending[j + 1] = ToRecord(a + m + (j + 1) - 1, old[a + m + (j + 1)])
          ELSE Plain(pending[j + 1], n - 1)
      BY <1>3, <3>1
    <3>6. CASE j <= n - a - (m + 1)
      <4>1. pending[j + 1] = ToRecord(a + m + (j + 1) - 1, old[a + m + (j + 1)])
        BY <3>4, <3>5, <3>6
      <4>2. pending'[j] = ToRecord(a + (m + 1) + j - 1, old[a + (m + 1) + j])
        BY ONLY <3>1, <3>3, <4>1
      <4> QED
        BY <3>6, <4>2
    <3>7. CASE ~(j <= n - a - (m + 1))
      BY <3>1, <3>4, <3>5, <3>7
    <3> QED
      BY <3>6, <3>7
  <2>8. m + 1 \in 0 .. n - a /\ m + 1 \in 0 .. n
    BY <1>3, <1>4, <1>11
  <2>9. Shifting(a, m + 1)'
    BY <1>3, <1>5, <1>10, <2>5, <2>6, <2>7, <2>8 DEF Shifting
  <2> QED
    BY <2>8, <2>9 DEF n
<1>12. CASE ~(1 <= n - a - m)
  <2>1. m = n - a
    BY <1>3, <1>4, <1>12
  <2>2. Plain(w, n - 1)
    BY <1>9, <1>12
  <2>3. index' = index
    BY <1>7, <2>2 DEF Plain
  <2>4. fat'[INDEX] >= n \/ fat'[INDEX] = n - 1
    BY <1>3, <1>8, <2>2 DEF Plain
  <2>5. ASSUME NEW j \in DOMAIN pending'
        PROVE  ~(j <= n - a - m) /\ Plain(pending'[j], n - 1)
    <3>1. j + 1 \in DOMAIN pending /\ pending'[j] = pending[j + 1] /\ j \in Nat \ {0}
      BY <1>1
    <3>2. ~(j <= n - a - m) /\ ~(j + 1 <= n - a - m)
      BY <1>3, <1>4, <1>12, <3>1
    <3>3. Plain(pending[j + 1], n - 1)
      BY <1>3, <3>1, <3>2
    <3> QED
      BY <3>1, <3>2, <3>3
  <2>6. Shifting(a, m)'
    BY <1>3, <1>5, <1>10, <2>1, <2>3, <2>4, <2>5 DEF Shifting
  <2> QED
    BY <2>6
<1> QED
  BY <1>11, <1>12

\* Between two calls the records are the ones that the last call has left.
LEMMA RecordedBetween ==
    ASSUME Typed, Backed, saved' = Image, pending' = <<>>, UNCHANGED <<fat, index>>
    PROVE  Backed' /\ Recorded'
<1>1. /\ saved'.index = index /\ saved'.fat = fat /\ Count' = fat[INDEX]
      /\ index' = index /\ fat' = fat
  BY DEF Image, Count
<1>2. DOMAIN pending' = {} /\ Range(pending') = {}
  BY SeqNone, SeqShape
<1>3. Backed'
  BY <1>1, <1>2 DEF Backed
<1>4. Appending'
  <2>1. fat[INDEX] >= fat[INDEX]
    BY CountTypes
  <2> QED
    BY <1>1, <1>2, <2>1 DEF Appending
<1>5. Count' <= Len(index')
  BY <1>1 DEF Backed
<1> QED
  BY <1>3, <1>4, <1>5 DEF Recorded

LEMMA RecordedNext ==
    ASSUME Typed, Backed, Recorded, IndexRoom, IndexRoom', WriteNext
    PROVE  Backed' /\ Recorded'
<1>1. Backed'
  BY BackedNext
<1>2. CASE saved' = Image' /\ pending' = <<>>
  <2>1. /\ saved'.index = index' /\ saved'.fat = fat' /\ Count' = fat'[INDEX]
    BY <1>2 DEF Image, Count
  <2>2. Range(pending') = {}
    BY <1>2, SeqNone
  <2>3. Count' <= Len(index') /\ fat'[INDEX] >= Count'
    <3>1. fat'[INDEX] \in Nat
      BY NextHead, AppliedCount
    <3>2. fat'[INDEX] >= fat'[INDEX]
      BY <3>1
    <3> QED
      BY <1>1, <2>1, <3>2 DEF Backed
  <2>4. Appending'
    BY <2>1, <2>2, <2>3 DEF Appending
  <2> QED
    BY <1>1, <2>3, <2>4 DEF Recorded
<1>3. CASE saved' = saved /\ call' = call
  <2>1. SUFFICES ASSUME call.op # "mount"
                 PROVE  Recorded'
    BY <1>1, <1>3 DEF Recorded
  <2>2. Count <= Len(index)
    BY <2>1 DEF Recorded
  <2>3. Count' = Count /\ Count' <= Len(index')
    <3>1. /\ Applied(pending[1]) /\ 1 \in DOMAIN pending
      BY NextHead
    <3>2. pending[1].to = "index" => pending[1].at \in Nat \ {0}
      BY <3>1 DEF Backed
    <3>3. Len(index') >= Len(index) /\ IsSeq(index')
      BY <3>1, <3>2, AppliedIndex DEF Backed
    <3>4. Len(index') \in Nat /\ Len(index) \in Nat /\ Count \in Nat
      BY <3>3, SeqShape, IndexLength, CountTypes
    <3>5. Count' = Count
      BY <1>3 DEF Count
    <3> QED
      BY <2>2, <3>3, <3>4, <3>5
  <2>4. CASE Appending
    <3>1. Appending'
      BY <1>3, <2>2, <2>4, AppendingNext
    <3> QED
      BY <2>3, <3>1 DEF Recorded
  <2>5. CASE \E a \in 1 .. Count, m \in 0 .. Count : Shifting(a, m)
    <3>1. PICK a \in 1 .. Count, m \in 0 .. Count : Shifting(a, m)
      BY <2>5
    <3>2. Shifting(a, m)' \/ (m + 1 \in 0 .. Count /\ Shifting(a, m + 1)')
      BY <1>3, <2>2, <3>1, ShiftingNext
    <3> QED
      BY <2>3, <3>1, <3>2 DEF Recorded
  <2> QED
    BY <2>1, <2>4, <2>5 DEF Recorded
<1> QED
  BY <1>1, <1>2, <1>3, NextHead

LEMMA RecordedIdle ==
    ASSUME Backed, Recorded, Stop \/ UNCHANGED allVars
    PROVE  Backed' /\ Recorded'
<1>1. /\ saved' = saved /\ call' = call /\ fat' = fat /\ index' = index
      /\ pending' = <<>> \/ pending' = pending
  BY DEF Stop, allVars, vars
<1>2. Count' = Count
  BY <1>1 DEF Count
<1>3. CASE pending' = pending
  <2>1. \A w : Early(w)' = Early(w)
    BY <1>1 DEF Early
  <2>2. \A a, m : Shifting(a, m)' = Shifting(a, m)
    BY <1>1, <1>2, <1>3 DEF Shifting
  <2> QED
    BY <1>1, <1>2, <1>3, <2>1, <2>2 DEF Backed, Recorded, Appending
<1>4. CASE pending' = <<>>
  <2>1. DOMAIN pending' = {} /\ Range(pending') = {}
    BY <1>4, SeqNone, SeqShape
  <2>2. Backed'
    BY <1>1, <1>2, <2>1 DEF Backed
  <2>3. \A a, m : Shifting(a, m) => Shifting(a, m)'
    BY <1>1, <1>2, <1>4 DEF Shifting
  <2>4. Appending => Appending'
    BY <1>1, <1>2, <2>1 DEF Appending
  <2> QED
    BY <1>1, <1>2, <2>2, <2>3, <2>4 DEF Recorded
<1> QED
  BY <1>1, <1>3, <1>4

LEMMA RecordedInit == InitWrites => Backed /\ Recorded
<1> SUFFICES ASSUME InitWrites
             PROVE  Backed /\ Recorded
  OBVIOUS
<1>1. /\ index = <<>> /\ fat = ZeroTable /\ pending = <<>>
      /\ saved.index = <<>> /\ saved.fat = ZeroTable
  BY DEF InitWrites, Init, Image
<1>2. fat[INDEX] = 0 /\ Count = 0
  BY <1>1, Numbers DEF ZeroTable, EMPTY, Count
<1>3. IsSeq(<<>>) /\ Range(<<>>) = {} /\ Len(<<>>) = 0 /\ DOMAIN <<>> = {}
  BY SeqNone, SeqShape
<1>4. 0 >= 0 /\ 0 <= 0 /\ 1 .. 0 = {}
  OBVIOUS
<1> QED
  BY <1>1, <1>2, <1>3, <1>4 DEF Backed, Recorded, Appending

LEMMA NextRecorded ==
    /\ Typed /\ Backed /\ Recorded /\ IndexRoom /\ IndexRoom' /\ [NextWrites]_allVars
    => Backed' /\ Recorded'
<1> SUFFICES ASSUME Typed, Backed, Recorded, IndexRoom, IndexRoom', [NextWrites]_allVars
             PROVE  Backed' /\ Recorded'
  OBVIOUS
<1>1. \/ StartFormat \/ LoadAgain \/ Stop \/ WriteNext \/ UNCHANGED allVars
      \/ \E parent \in Parents, name \in Names :
           \/ \E buf \in Buffers : StartWrite(parent, name, buf)
           \/ StartDelete(parent, name)
  BY DEF NextWrites
<1>2. LoadAgain => saved' = Image /\ pending' = <<>> /\ UNCHANGED <<fat, index>>
  BY DEF LoadAgain, Load
<1> QED
  BY <1>1, <1>2, IndexFormat, IndexWrite, IndexDelete, RecordedNext, RecordedIdle,
     RecordedBetween

LEMMA FirstPart ==
    ASSUME NEW s, IsSeq(s), NEW n \in Nat, n <= Len(s)
    PROVE  DOMAIN SubSeq(s, 1, n) = 1 .. n /\ \A i \in 1 .. n : SubSeq(s, 1, n)[i] = s[i]
<1>1. Len(s) \in Nat
  BY SeqShape
<1> QED
  BY <1>1 DEF IsSeq

LEMMA RecordedMeans == Typed /\ Backed /\ Recorded => OthersListed
<1> SUFFICES ASSUME Typed, Backed, Recorded, call.op # "mount", SavedSound,
                    Saved!IndexRoom, Saved!IndexComplete,
                    NEW e \in Bystanders
             PROVE  \E i \in 1 .. fat[INDEX] :
                       index[i] = <<Saved!EntryAt(e).name, e[1]>>
  BY DEF OthersListed
<1> DEFINE r == <<Saved!EntryAt(e).name, e[1]>>
           n == Count
           c == fat[INDEX]
           old == saved.index
<1>1. n \in Nat /\ c \in Nat
  BY CountTypes
<1>2. /\ DOMAIN SubSeq(old, 1, n) = 1 .. n
      /\ \A i \in 1 .. n : SubSeq(old, 1, n)[i] = old[i]
  BY <1>1, FirstPart DEF Backed
<1>3. e \in Saved!Live /\ ~Target(e)
  BY DEF Bystanders, Concerned
<1>4. \E i \in DOMAIN SubSeq(old, 1, n) : SubSeq(old, 1, n)[i] = r
  <2>1. exhausted = FALSE
    BY DEF Typed
  <2>2. \E i \in DOMAIN SubSeq(old, 1, saved.fat[INDEX]) :
           SubSeq(old, 1, saved.fat[INDEX])[i] = r
    BY <1>3, <2>1 DEF Saved!IndexComplete, Saved!INDEX, INDEX
  <2> QED
    BY <2>2 DEF Count
<1>5. PICK i \in 1 .. n : old[i] = r
  BY <1>2, <1>4
<1>6. ASSUME NEW a, old[a] = <<call.name, call.parent>>
      PROVE  i # a
  <2>1. r # <<call.name, call.parent>>
    BY <1>3 DEF Target
  <2> QED
    BY <1>5, <1>6, <2>1
<1> SUFFICES \E k \in 1 .. c : index[k] = r
  OBVIOUS
<1>7. CASE Appending
  <2>1. index[i] = old[i] /\ c >= n
    BY <1>7 DEF Appending
  <2>2. i \in 1 .. c
    BY <1>1, <2>1
  <2> QED
    BY <1>5, <2>1, <2>2
<1>8. CASE \E a \in 1 .. Count, m \in 0 .. Count : Shifting(a, m)
  <2>1. PICK a, m : Shifting(a, m)
    BY <1>8
  <2>2. /\ a \in 1 .. n /\ m \in 0 .. n - a /\ i # a
        /\ \A k \in 1 .. n :
             index[k] = IF a <= k /\ k < a + m THEN old[k + 1] ELSE old[k]
        /\ c >= n \/ (c = n - 1 /\ m = n - a)
    BY <1>6, <2>1 DEF Shifting
  <2> HIDE DEF n, c, old, r
  <2>3. CASE a <= i - 1 /\ i - 1 < a + m
    <3>1. i - 1 \in 1 .. n /\ i - 1 \in 1 .. c /\ (i - 1) + 1 = i
      BY <1>1, <2>2, <2>3
    <3>2. index[i - 1] = old[i]
      BY <2>2, <2>3, <3>1
    <3> QED
      BY <1>5, <3>1, <3>2
  <2>4. CASE ~(a <= i - 1 /\ i - 1 < a + m)
    <3>1. ~(a <= i /\ i < a + m) /\ i \in 1 .. c
      BY <1>1, <2>2, <2>4
    <3>2. index[i] = old[i]
      BY <2>2, <3>1
    <3> QED
      BY <1>5, <3>1, <3>2
  <2> QED
    BY <2>3, <2>4
<1> QED
  BY <1>7, <1>8 DEF Recorded

\* As long as the count stays within the clusters of the index, every record
\* that a call is not about is found at whatever write the machine stops: a
\* deletion overwrites no record before it has stored it one place lower, and no
\* count is stored before the records that it takes in.
THEOREM OthersStayListed == SpecWrites /\ []IndexRoom => []OthersListed
<1>1. Typed /\ Backed /\ Recorded => OthersListed
  BY RecordedMeans
<1> QED
  BY <1>1, TypedInit, RecordedInit, NextTyped, NextRecorded, PTL DEF SpecWrites

----------------------------------------------------------------------------
(* The writes of a call add up to a step of Fat32. *)

\* Write w is about cell c of the FAT, cluster c, or record c, and puts a value.
Touches(w, to, c) ==
    /\ w.to = to
    /\ to = "fat" => w.at = c \div BlockCells
    /\ to # "fat" => w.at = c

Puts(w, to, c) == IF to = "fat" THEN w.value[c] ELSE w.value

Holds(to, c, v) ==
    /\ to = "fat" => fat[c] = v
    /\ to = "disk" => disk[c] = v
    /\ to = "index" /\ c <= IndexCapacity => c <= Len(index) /\ index[c] = v

\* The last of the writes s about c puts v there.
Lasts(s, to, c, v) ==
    \E q \in DOMAIN s :
        /\ Touches(s[q], to, c) /\ Puts(s[q], to, c) = v
        /\ \A p \in DOMAIN s : p > q /\ Touches(s[p], to, c) => Puts(s[p], to, c) = v

\* None of the writes s puts anything but v there.
Leaves(s, to, c, v) ==
    \A p \in DOMAIN s : Touches(s[p], to, c) => Puts(s[p], to, c) = v

\* When all writes are made, v will be there.
Due(to, c, v) ==
    \/ Lasts(pending, to, c, v)
    \/ Holds(to, c, v) /\ Leaves(pending, to, c, v)

LEMMA LeavesRest ==
    ASSUME NEW s, NEW t, NEW to, NEW c, NEW v,
           \A i \in DOMAIN t : i + 1 \in DOMAIN s /\ t[i] = s[i + 1],
           Leaves(s, to, c, v)
    PROVE  Leaves(t, to, c, v)
BY DEF Leaves

LEMMA LastsRest ==
    ASSUME NEW s, NEW t, NEW to, NEW c, NEW v, NEW n \in Nat \ {0},
           DOMAIN s = 1 .. n, DOMAIN t = 1 .. n - 1,
           \A i \in 1 .. n - 1 : t[i] = s[i + 1],
           Lasts(s, to, c, v)
    PROVE  \/ Touches(s[1], to, c) /\ Puts(s[1], to, c) = v /\ Leaves(t, to, c, v)
           \/ Lasts(t, to, c, v)
<1>1. PICK q \in 1 .. n :
        /\ Touches(s[q], to, c) /\ Puts(s[q], to, c) = v
        /\ \A p \in 1 .. n : p > q /\ Touches(s[p], to, c) => Puts(s[p], to, c) = v
  BY DEF Lasts
<1>2. ASSUME NEW p \in 1 .. n - 1, p + 1 > q, Touches(t[p], to, c)
      PROVE  Puts(t[p], to, c) = v
  <2>1. p + 1 \in 1 .. n /\ t[p] = s[p + 1]
    OBVIOUS
  <2>2. Touches(s[p + 1], to, c)
    BY <1>2, <2>1
  <2>3. Puts(s[p + 1], to, c) = v
    BY <1>1, <1>2, <2>1, <2>2
  <2> QED
    BY <2>1, <2>3
<1>3. CASE q = 1
  <2>1. \A p \in 1 .. n - 1 : p + 1 > q
    BY <1>3
  <2>2. Leaves(t, to, c, v)
    BY <1>2, <2>1 DEF Leaves
  <2> QED
    BY <1>1, <1>3, <2>2
<1>4. CASE q # 1
  <2>1. q - 1 \in 1 .. n - 1 /\ t[q - 1] = s[q]
    <3>1. q - 1 \in 1 .. n - 1 /\ (q - 1) + 1 = q
      BY <1>4
    <3>2. t[q - 1] = s[(q - 1) + 1]
      BY <3>1
    <3> QED
      BY <3>1, <3>2
  <2>2. \A p \in 1 .. n - 1 : p > q - 1 => p + 1 > q
    OBVIOUS
  <2> QED
    BY <1>1, <1>2, <2>1, <2>2 DEF Lasts
<1> QED
  BY <1>3, <1>4

\* One write does what it says, and nothing else.
LEMMA AppliedHolds ==
    ASSUME Typed, IsSeq(index), NEW w, Applied(w),
           w.to = "index" => w.at \in Nat \ {0},
           NEW to \in {"fat", "disk", "index"}, NEW c \in Nat, NEW v,
           to # "index" => c \in Clusters,
           to = "index" => c # 0,
           \/ Touches(w, to, c) /\ Puts(w, to, c) = v
           \/ ~Touches(w, to, c) /\ Holds(to, c, v)
    PROVE  Holds(to, c, v)'
<1>1. CASE to = "fat"
  <2>1. fat' = [x \in Clusters |->
                  IF w.to = "fat" /\ x \div BlockCells = w.at THEN w.value[x] ELSE fat[x]]
    BY DEF Applied
  <2>2. c \in Clusters
    BY <1>1
  <2>3. fat'[c] = IF w.to = "fat" /\ c \div BlockCells = w.at THEN w.value[c] ELSE fat[c]
    BY <2>1, <2>2
  <2>4. fat'[c] = v
    BY <1>1, <2>3 DEF Touches, Puts, Holds
  <2> QED
    BY <1>1, <2>4 DEF Holds
<1>2. CASE to = "disk"
  <2>1. disk' = IF w.to = "disk" THEN [disk EXCEPT ![w.at] = w.value] ELSE disk
    BY DEF Applied
  <2>2. c \in Clusters /\ DOMAIN disk = Clusters
    BY <1>2 DEF Typed, DiskTyped
  <2>3. disk'[c] = IF w.to = "disk" /\ w.at = c THEN w.value ELSE disk[c]
    BY <2>1, <2>2
  <2>4. disk'[c] = v
    BY <1>2, <2>3 DEF Touches, Puts, Holds
  <2> QED
    BY <1>2, <2>4 DEF Holds
<1>3. CASE to = "index"
  <2>1. SUFFICES ASSUME c <= IndexCapacity
                 PROVE  c <= Len(index') /\ index'[c] = v
    BY <1>3 DEF Holds
  <2>2. /\ IsSeq(index') /\ Len(index') >= Len(index)
        /\ w.to = "index" /\ w.at <= IndexCapacity =>
             Len(index') >= w.at /\ index'[w.at] = w.value
        /\ \A i \in 1 .. Len(index) : ~(w.to = "index" /\ w.at = i) => index'[i] = index[i]
    BY AppliedIndex
  <2>3. CASE Touches(w, to, c) /\ Puts(w, to, c) = v
    <3>1. w.to = "index" /\ w.at = c /\ w.value = v
      BY <1>3, <2>3 DEF Touches, Puts
    <3> QED
      BY <2>1, <2>2, <3>1
  <2>4. CASE ~Touches(w, to, c) /\ Holds(to, c, v)
    <3>1. c <= Len(index) /\ index[c] = v
      BY <1>3, <2>1, <2>4 DEF Holds
    <3>2. ~(w.to = "index" /\ w.at = c)
      BY <1>3, <2>4 DEF Touches
    <3>3. Len(index) \in Nat /\ Len(index') \in Nat
      BY <2>2, SeqShape
    <3>4. c \in 1 .. Len(index)
      BY <1>3, <3>1, <3>3
    <3> QED
      BY <2>2, <3>1, <3>2, <3>3, <3>4
  <2> QED
    BY <2>3, <2>4
<1> QED
  BY <1>1, <1>2, <1>3

LEMMA DueNext ==
    ASSUME Typed, Backed, WriteNext,
           NEW to \in {"fat", "disk", "index"}, NEW c \in Nat, NEW v,
           to # "index" => c \in Clusters,
           to = "index" => c # 0,
           Due(to, c, v)
    PROVE  Due(to, c, v)'
<1> DEFINE w == pending[1]
           n == Len(pending)
<1>1. /\ Applied(w) /\ n \in Nat \ {0} /\ DOMAIN pending = 1 .. n
      /\ DOMAIN pending' = 1 .. n - 1
      /\ \A i \in 1 .. n - 1 : pending'[i] = pending[i + 1]
  BY NextHead
<1>2. w.to = "index" => w.at \in Nat \ {0}
  BY <1>1 DEF Backed
<1>3. IsSeq(index)
  BY DEF Backed
<1> HIDE DEF w, n
<1>4. CASE Lasts(pending, to, c, v)
  <2>1. \/ Touches(w, to, c) /\ Puts(w, to, c) = v /\ Leaves(pending', to, c, v)
        \/ Lasts(pending', to, c, v)
    BY <1>1, <1>4, LastsRest DEF w
  <2>2. CASE Touches(w, to, c) /\ Puts(w, to, c) = v /\ Leaves(pending', to, c, v)
    <3>1. Holds(to, c, v)'
      BY <1>1, <1>2, <1>3, <2>2, AppliedHolds
    <3> QED
      BY <2>2, <3>1 DEF Due
  <2> QED
    BY <2>1, <2>2 DEF Due
<1>5. CASE Holds(to, c, v) /\ Leaves(pending, to, c, v)
  <2>1. Touches(w, to, c) => Puts(w, to, c) = v
    BY <1>1, <1>5 DEF Leaves, w
  <2>2. Holds(to, c, v)'
    BY <1>1, <1>2, <1>3, <1>5, <2>1, AppliedHolds
  <2>3. Leaves(pending', to, c, v)
    <3>1. \A i \in DOMAIN pending' : i + 1 \in DOMAIN pending /\ pending'[i] = pending[i + 1]
      BY <1>1
    <3> QED
      BY <1>5, <3>1, LeavesRest
  <2> QED
    BY <2>2, <2>3 DEF Due
<1> QED
  BY <1>4, <1>5 DEF Due

LEMMA JoinedWrites ==
    ASSUME NEW s, NEW t, IsSeq(s), IsSeq(t), NEW to, NEW c, NEW v
    PROVE  /\ Lasts(t, to, c, v) => Lasts(s \o t, to, c, v)
           /\ Lasts(s, to, c, v) /\ Leaves(t, to, c, v) => Lasts(s \o t, to, c, v)
           /\ Leaves(s, to, c, v) /\ Leaves(t, to, c, v) => Leaves(s \o t, to, c, v)
<1> DEFINE m == Len(s)
           n == Len(t)
           st == s \o t
<1>1. /\ m \in Nat /\ n \in Nat /\ DOMAIN s = 1 .. m /\ DOMAIN t = 1 .. n
      /\ DOMAIN st = 1 .. (m + n)
      /\ \A i \in 1 .. m + n : st[i] = IF i <= m THEN s[i] ELSE t[i - m]
  BY SeqParts
<1> HIDE DEF m, n, st
<1>2. \A i \in 1 .. m : i \in 1 .. m + n /\ st[i] = s[i]
  BY <1>1
<1>3. \A i \in 1 .. n : i + m \in 1 .. m + n /\ st[i + m] = t[i]
  <2> SUFFICES ASSUME NEW i \in 1 .. n
               PROVE  i + m \in 1 .. m + n /\ st[i + m] = t[i]
    OBVIOUS
  <2>1. i + m \in 1 .. m + n /\ ~(i + m <= m) /\ (i + m) - m = i
    BY <1>1
  <2> QED
    BY <1>1, <2>1
<1>4. ASSUME NEW p \in 1 .. m + n
      PROVE  \/ p \in 1 .. m /\ st[p] = s[p]
             \/ p - m \in 1 .. n /\ st[p] = t[p - m] /\ p > m
  BY <1>1
<1>5. ASSUME Lasts(t, to, c, v)
      PROVE  Lasts(st, to, c, v)
  <2>1. PICK q \in 1 .. n :
          /\ Touches(t[q], to, c) /\ Puts(t[q], to, c) = v
          /\ \A p \in 1 .. n : p > q /\ Touches(t[p], to, c) => Puts(t[p], to, c) = v
    BY <1>1, <1>5 DEF Lasts
  <2>2. q + m \in 1 .. m + n /\ st[q + m] = t[q]
    BY <1>3
  <2>3. ASSUME NEW p \in 1 .. m + n, p > q + m, Touches(st[p], to, c)
        PROVE  Puts(st[p], to, c) = v
    <3>1. p - m \in 1 .. n /\ st[p] = t[p - m] /\ p - m > q
      BY <1>1, <1>4, <2>3
    <3> QED
      BY <2>1, <2>3, <3>1
  <2> QED
    BY <1>1, <2>1, <2>2, <2>3 DEF Lasts
<1>6. ASSUME Lasts(s, to, c, v), Leaves(t, to, c, v)
      PROVE  Lasts(st, to, c, v)
  <2>1. PICK q \in 1 .. m :
          /\ Touches(s[q], to, c) /\ Puts(s[q], to, c) = v
          /\ \A p \in 1 .. m : p > q /\ Touches(s[p], to, c) => Puts(s[p], to, c) = v
    BY <1>1, <1>6 DEF Lasts
  <2>2. q \in 1 .. m + n /\ st[q] = s[q]
    BY <1>2
  <2>3. ASSUME NEW p \in 1 .. m + n, p > q, Touches(st[p], to, c)
        PROVE  Puts(st[p], to, c) = v
    <3>1. CASE p \in 1 .. m /\ st[p] = s[p]
      BY <2>1, <2>3, <3>1
    <3>2. CASE p - m \in 1 .. n /\ st[p] = t[p - m]
      BY <1>1, <1>6, <2>3, <3>2 DEF Leaves
    <3> QED
      BY <1>4, <3>1, <3>2
  <2> QED
    BY <1>1, <2>1, <2>2, <2>3 DEF Lasts
<1>7. ASSUME Leaves(s, to, c, v), Leaves(t, to, c, v)
      PROVE  Leaves(st, to, c, v)
  <2>1. ASSUME NEW p \in 1 .. m + n, Touches(st[p], to, c)
        PROVE  Puts(st[p], to, c) = v
    <3>1. CASE p \in 1 .. m /\ st[p] = s[p]
      BY <1>1, <1>7, <2>1, <3>1 DEF Leaves
    <3>2. CASE p - m \in 1 .. n /\ st[p] = t[p - m]
      BY <1>1, <1>7, <2>1, <3>2 DEF Leaves
    <3> QED
      BY <1>4, <3>1, <3>2
  <2> QED
    BY <1>1, <2>1 DEF Leaves
<1> QED
  BY <1>5, <1>6, <1>7 DEF st

LEMMA LeavesOther ==
    ASSUME NEW s, NEW to, NEW c, NEW v, \A w \in Range(s) : ~Touches(w, to, c)
    PROVE  Leaves(s, to, c, v)
BY InRange DEF Leaves

LEMMA BlockOf ==
    ASSUME NEW n \in Nat \ {0}, NEW b \in Nat \ {0}, NEW c \in 0 .. n - 1
    PROVE  (c \div b) + 1 \in 1 .. ((n + b - 1) \div b)
<1> DEFINE q == c \div b
           r == (n + b - 1) \div b
<1>1. q \in Int /\ b * q <= c /\ c < b * q + b
  OBVIOUS
<1>2. r \in Int /\ n + b - 1 < b * r + b
  OBVIOUS
<1> HIDE DEF q, r
<1>3. q >= 0
  <2>1. SUFFICES ASSUME q <= -1
                 PROVE  FALSE
    BY <1>1
  <2>2. b * q <= b * (-1)
    BY <1>1, <2>1
  <2>3. b * (-1) = -b
    OBVIOUS
  <2>4. b * q \in Int
    BY <1>1
  <2> QED
    BY <1>1, <2>2, <2>3, <2>4
<1>4. q + 1 <= r
  <2>1. SUFFICES ASSUME r <= q
                 PROVE  FALSE
    BY <1>1, <1>2
  <2>2. b * r <= b * q
    BY <1>1, <1>2, <2>1
  <2>3. b * r \in Int /\ b * q \in Int
    BY <1>1, <1>2
  <2> QED
    BY <1>1, <1>2, <2>2, <2>3
<1>5. q + 1 \in 1 .. r
  BY <1>1, <1>2, <1>3, <1>4
<1> QED
  BY <1>5 DEF q, r

LEMMA FatWritesLast ==
    ASSUME NEW t, NEW c \in Clusters
    PROVE  /\ Lasts(FatWrites(t), "fat", c, t[c])
           /\ \A to, x, v : to # "fat" => Leaves(FatWrites(t), to, x, v)
<1> DEFINE n == (N + BlockCells - 1) \div BlockCells
           s == FatWrites(t)
<1>1. s = [b \in 1 .. n |-> ToFAT(b - 1, t)]
  BY DEF FatWrites
<1>2. N \in Nat \ {0} /\ BlockCells \in Nat \ {0} /\ c \in 0 .. N - 1
  BY SizesAssumption, WritesAssumption DEF FIRST_DATA, Clusters
<1> DEFINE q == (c \div BlockCells) + 1
<1>3. q \in 1 .. n
  BY <1>2, BlockOf
<1>4. c \div BlockCells \in Int
  BY <1>2
<1> HIDE DEF n, s
<1>5. DOMAIN s = 1 .. n /\ \A b \in 1 .. n : s[b] = ToFAT(b - 1, t)
  BY <1>1
<1>6. s[q].to = "fat" /\ s[q].at = c \div BlockCells /\ s[q].value = t
  <2>1. s[q] = ToFAT(q - 1, t)
    BY <1>3, <1>5
  <2>2. q - 1 = c \div BlockCells
    BY <1>4
  <2> HIDE DEF q
  <2> QED
    BY <2>1, <2>2 DEF ToFAT
<1>7. \A b \in 1 .. n : s[b].to = "fat" /\ s[b].value = t
  BY <1>5 DEF ToFAT
<1> HIDE DEF q
<1>8. Lasts(s, "fat", c, t[c])
  BY <1>3, <1>5, <1>6, <1>7 DEF Lasts, Touches, Puts
<1>9. \A to, x, v : to # "fat" => Leaves(s, to, x, v)
  BY <1>5, <1>7 DEF Leaves, Touches
<1> QED
  BY <1>8, <1>9 DEF s

LEMMA EntryWritesLast ==
    ASSUME NEW parent, NEW table
    PROVE  /\ Lasts(EntryWrites(parent, table), "disk", parent, table)
           /\ \A to, x, v : to # "disk" \/ x # parent
                              => Leaves(EntryWrites(parent, table), to, x, v)
<1> DEFINE u == [disk[parent] EXCEPT !.notempty = table.notempty]
           s == EntryWrites(parent, table)
<1>1. s = <<ToCluster(parent, u), ToCluster(parent, table)>>
  BY DEF EntryWrites
<1> HIDE DEF u, s
<1>2. DOMAIN s = 1 .. 2 /\ s[1] = ToCluster(parent, u) /\ s[2] = ToCluster(parent, table)
  BY <1>1
<1>3. /\ s[1].to = "disk" /\ s[1].at = parent
      /\ s[2].to = "disk" /\ s[2].at = parent /\ s[2].value = table
  BY <1>2 DEF ToCluster
<1>4. 1 .. 2 = {1, 2}
  OBVIOUS
<1>5. Lasts(s, "disk", parent, table)
  <2>1. 2 \in DOMAIN s /\ \A p \in DOMAIN s : ~(p > 2)
    BY <1>2
  <2>2. Touches(s[2], "disk", parent) /\ Puts(s[2], "disk", parent) = table
    BY <1>3 DEF Touches, Puts
  <2> QED
    BY <2>1, <2>2 DEF Lasts
<1>6. ASSUME NEW to, NEW x, NEW v, to # "disk" \/ x # parent
      PROVE  Leaves(s, to, x, v)
  <2>1. ~Touches(s[1], to, x) /\ ~Touches(s[2], to, x)
    BY <1>3, <1>6 DEF Touches
  <2> QED
    BY <1>2, <1>4, <2>1 DEF Leaves
<1> QED
  BY <1>5, <1>6 DEF s

\* The writes of several clusters, each to one of its own.
LEMMA ClusterWritesLast ==
    ASSUME NEW k \in Nat, NEW s, NEW cl, DOMAIN s = 1 .. k,
           NEW val, \A i \in 1 .. k : s[i] = ToCluster(cl[i], val[i]),
           \A i, j \in 1 .. k : cl[i] = cl[j] => val[i] = val[j]
    PROVE  /\ \A i \in 1 .. k : Lasts(s, "disk", cl[i], val[i])
           /\ \A to, x, v : to # "disk" \/ (\A i \in 1 .. k : x # cl[i])
                              => Leaves(s, to, x, v)
<1>1. \A i \in 1 .. k : s[i].to = "disk" /\ s[i].at = cl[i] /\ s[i].value = val[i]
  BY DEF ToCluster
<1>2. ASSUME NEW i \in 1 .. k
      PROVE  Lasts(s, "disk", cl[i], val[i])
  <2>1. \A j \in 1 .. k : Touches(s[j], "disk", cl[i]) => Puts(s[j], "disk", cl[i]) = val[i]
    BY <1>1 DEF Touches, Puts
  <2>2. Touches(s[i], "disk", cl[i])
    BY <1>1 DEF Touches
  <2> QED
    BY <2>1, <2>2 DEF Lasts
<1>3. ASSUME NEW to, NEW x, NEW v, to # "disk" \/ (\A i \in 1 .. k : x # cl[i])
      PROVE  Leaves(s, to, x, v)
  BY <1>1, <1>3 DEF Leaves, Touches
<1> QED
  BY <1>2, <1>3

----------------------------------------------------------------------------
(* What Fat32Proofs and Fat32TreeProofs prove of the disk, for the disk of  *)
(* the calls that have returned.                                            *)

SavedDisk == INSTANCE Fat32TreeProofs WITH
    signature <- saved.signature,
    fat       <- saved.fat,
    disk      <- saved.disk,
    index     <- SubSeq(saved.index, 1, saved.fat[INDEX])

\* The two instances are of one module, Saved of Fat32 and SavedDisk of its proofs.
LEMMA SameForWrite ==
    /\ Saved!Calling = SavedDisk!Calling
    /\ \A table, name : Saved!IsDuplicate(table, name) = SavedDisk!IsDuplicate(table, name)
    /\ \A f : Saved!Available(f) = SavedDisk!Available(f)
    /\ \A table : Saved!FirstFree(table) = SavedDisk!FirstFree(table)
    /\ Saved!Garbage = SavedDisk!Garbage
    /\ Saved!Data = SavedDisk!Data
    /\ Saved!NOCLUSTER = SavedDisk!NOCLUSTER
    /\ \A buf : Saved!ClustersFor(buf) = SavedDisk!ClustersFor(buf)
    /\ \A f, cl : Saved!IsAllocation(f, cl) = SavedDisk!IsAllocation(f, cl)
    /\ \A parent, s, name, buf, cl : Saved!Written(parent, s, name, buf, cl) = SavedDisk!Written(parent, s, name, buf, cl)
    /\ Saved!INDEX = SavedDisk!INDEX
    /\ \A f, cl : Saved!Linked(f, cl) = SavedDisk!Linked(f, cl)
    /\ \A name, parent, junk : Saved!InsertIndex(name, parent, junk) = SavedDisk!InsertIndex(name, parent, junk)
    /\ \A op, code, data : Saved!Reply(op, code, data) = SavedDisk!Reply(op, code, data)
<1>1. Saved!Calling = SavedDisk!Calling
  BY DEF Saved!Calling, SavedDisk!Calling
<1>2. \A table, name : Saved!IsDuplicate(table, name) = SavedDisk!IsDuplicate(table, name)
  BY DEF Saved!IsDuplicate, SavedDisk!IsDuplicate, Saved!Slots, SavedDisk!Slots
<1>3. \A f : Saved!Available(f) = SavedDisk!Available(f)
  BY DEF Saved!Available, SavedDisk!Available, Saved!EMPTY, SavedDisk!EMPTY
<1>4. \A table : Saved!FirstFree(table) = SavedDisk!FirstFree(table)
  BY DEF Saved!FirstFree, SavedDisk!FirstFree, Saved!Slots, SavedDisk!Slots
<1>5. Saved!Garbage = SavedDisk!Garbage
  BY DEF Saved!Garbage, SavedDisk!Garbage, Saved!INDEX, SavedDisk!INDEX, Saved!NoRecord,
     SavedDisk!NoRecord, Saved!Record, SavedDisk!Record, Saved!Parents,
     SavedDisk!Parents, Saved!ROOT, SavedDisk!ROOT, Saved!SUGAR_PARENT,
     SavedDisk!SUGAR_PARENT, Saved!Data, SavedDisk!Data, Saved!FIRST_DATA,
     SavedDisk!FIRST_DATA
<1>6. Saved!Data = SavedDisk!Data
  BY DEF Saved!Data, SavedDisk!Data, Saved!FIRST_DATA, SavedDisk!FIRST_DATA
<1>7. Saved!NOCLUSTER = SavedDisk!NOCLUSTER
  BY DEF Saved!NOCLUSTER, SavedDisk!NOCLUSTER, Saved!FIRST_DATA, SavedDisk!FIRST_DATA,
     Saved!CLUSTER_0, SavedDisk!CLUSTER_0
<1>8. \A buf : Saved!ClustersFor(buf) = SavedDisk!ClustersFor(buf)
  BY DEF Saved!ClustersFor, SavedDisk!ClustersFor
<1>9. \A f, cl : Saved!IsAllocation(f, cl) = SavedDisk!IsAllocation(f, cl)
  BY DEF Saved!IsAllocation, SavedDisk!IsAllocation, Saved!FreeData, SavedDisk!FreeData,
     Saved!Data, SavedDisk!Data, Saved!FIRST_DATA, SavedDisk!FIRST_DATA, Saved!EMPTY,
     SavedDisk!EMPTY, Saved!NOCLUSTER, SavedDisk!NOCLUSTER, Saved!CLUSTER_0,
     SavedDisk!CLUSTER_0
<1>10. \A parent, s, name, buf, cl : Saved!Written(parent, s, name, buf, cl) = SavedDisk!Written(parent, s, name, buf, cl)
  BY DEF Saved!Written, SavedDisk!Written, Saved!Clusters, SavedDisk!Clusters,
     Saved!WithEntry, SavedDisk!WithEntry, Saved!DirTable, SavedDisk!DirTable,
     Saved!Blank, SavedDisk!Blank, Saved!Slots, SavedDisk!Slots, Saved!FreeEntry,
     SavedDisk!FreeEntry, Saved!FileBlock, SavedDisk!FileBlock, Saved!PositionIn,
     SavedDisk!PositionIn
<1>11. Saved!INDEX = SavedDisk!INDEX
  BY DEF Saved!INDEX, SavedDisk!INDEX
<1>12. \A f, cl : Saved!Linked(f, cl) = SavedDisk!Linked(f, cl)
  BY DEF Saved!Linked, SavedDisk!Linked, Saved!Clusters, SavedDisk!Clusters,
     Saved!PositionIn, SavedDisk!PositionIn, Saved!EOF, SavedDisk!EOF
<1>13. \A name, parent, junk : Saved!InsertIndex(name, parent, junk) = SavedDisk!InsertIndex(name, parent, junk)
  BY DEF Saved!InsertIndex, SavedDisk!InsertIndex, Saved!Stored, SavedDisk!Stored,
     Saved!Loaded, SavedDisk!Loaded, Saved!INDEX, SavedDisk!INDEX
<1>14. \A op, code, data : Saved!Reply(op, code, data) = SavedDisk!Reply(op, code, data)
  BY DEF Saved!Reply, SavedDisk!Reply
<1> QED
  BY <1>1, <1>2, <1>3, <1>4, <1>5, <1>6, <1>7, <1>8, <1>9, <1>10, <1>11, <1>12, <1>13, <1>14

LEMMA SameForDelete ==
    /\ \A table, name : Saved!FirstNamed(table, name) = SavedDisk!FirstNamed(table, name)
    /\ \A entry : Saved!RefusesDelete(entry) = SavedDisk!RefusesDelete(entry)
    /\ \A op, code, data : Saved!AnswerOnly(op, code, data) = SavedDisk!AnswerOnly(op, code, data)
    /\ \A S, max : Saved!SeqUpTo(S, max) = SavedDisk!SeqUpTo(S, max)
    /\ \A entry, ch : Saved!Occupies(entry, ch) = SavedDisk!Occupies(entry, ch)
    /\ \A name, parent, junk, count : Saved!DeleteIndex(name, parent, junk, count) = SavedDisk!DeleteIndex(name, parent, junk, count)
    /\ \A parent, s, gone : Saved!Erased(parent, s, gone) = SavedDisk!Erased(parent, s, gone)
    /\ \A f, gone : Saved!Freed(f, gone) = SavedDisk!Freed(f, gone)
<1>1. \A table, name : Saved!FirstNamed(table, name) = SavedDisk!FirstNamed(table, name)
  BY DEF Saved!FirstNamed, SavedDisk!FirstNamed, Saved!Slots, SavedDisk!Slots
<1>2. \A entry : Saved!RefusesDelete(entry) = SavedDisk!RefusesDelete(entry)
  BY DEF Saved!RefusesDelete, SavedDisk!RefusesDelete
<1>3. \A op, code, data : Saved!AnswerOnly(op, code, data) = SavedDisk!AnswerOnly(op, code, data)
  BY DEF Saved!AnswerOnly, SavedDisk!AnswerOnly, Saved!Reply, SavedDisk!Reply
<1>4. \A S, max : Saved!SeqUpTo(S, max) = SavedDisk!SeqUpTo(S, max)
  BY DEF Saved!SeqUpTo, SavedDisk!SeqUpTo
<1>5. \A entry, ch : Saved!Occupies(entry, ch) = SavedDisk!Occupies(entry, ch)
  BY DEF Saved!Occupies, SavedDisk!Occupies, Saved!IsChain, SavedDisk!IsChain,
     Saved!EOF, SavedDisk!EOF
<1>6. \A name, parent, junk, count : Saved!DeleteIndex(name, parent, junk, count) = SavedDisk!DeleteIndex(name, parent, junk, count)
  BY DEF Saved!DeleteIndex, SavedDisk!DeleteIndex, Saved!Loaded, SavedDisk!Loaded,
     Saved!INDEX, SavedDisk!INDEX, Saved!FirstRecord, SavedDisk!FirstRecord,
     Saved!Stored, SavedDisk!Stored, Saved!Without, SavedDisk!Without
<1>7. \A parent, s, gone : Saved!Erased(parent, s, gone) = SavedDisk!Erased(parent, s, gone)
  BY DEF Saved!Erased, SavedDisk!Erased, Saved!Clusters, SavedDisk!Clusters,
     Saved!Reset, SavedDisk!Reset, Saved!FreeEntry, SavedDisk!FreeEntry, Saved!Blank,
     SavedDisk!Blank, Saved!Slots, SavedDisk!Slots
<1>8. \A f, gone : Saved!Freed(f, gone) = SavedDisk!Freed(f, gone)
  BY DEF Saved!Freed, SavedDisk!Freed, Saved!Clusters, SavedDisk!Clusters, Saved!EMPTY,
     SavedDisk!EMPTY
<1> QED
  BY <1>1, <1>2, <1>3, <1>4, <1>5, <1>6, <1>7, <1>8

LEMMA SameForConsistent ==
    /\ Saved!TypeOK = SavedDisk!TypeOK
    /\ Saved!Fresh = SavedDisk!Fresh
    /\ Saved!CacheCoherent = SavedDisk!CacheCoherent
    /\ Saved!MarksAgree = SavedDisk!MarksAgree
    /\ Saved!NamesUnique = SavedDisk!NamesUnique
    /\ Saved!FreeIsBlank = SavedDisk!FreeIsBlank
    /\ Saved!TablesPlain = SavedDisk!TablesPlain
    /\ Saved!LinksLead = SavedDisk!LinksLead
    /\ Saved!NoCrossLink = SavedDisk!NoCrossLink
    /\ Saved!EntriesLead = SavedDisk!EntriesLead
<1>1. Saved!TypeOK = SavedDisk!TypeOK
  BY DEF Saved!TypeOK, SavedDisk!TypeOK, Saved!Clusters, SavedDisk!Clusters,
     Saved!Links, SavedDisk!Links, Saved!NOCLUSTER, SavedDisk!NOCLUSTER,
     Saved!FIRST_DATA, SavedDisk!FIRST_DATA, Saved!CLUSTER_0, SavedDisk!CLUSTER_0,
     Saved!Content, SavedDisk!Content, Saved!Slots, SavedDisk!Slots, Saved!Entry,
     SavedDisk!Entry, Saved!Record, SavedDisk!Record, Saved!Parents, SavedDisk!Parents,
     Saved!ROOT, SavedDisk!ROOT, Saved!SUGAR_PARENT, SavedDisk!SUGAR_PARENT, Saved!Data,
     SavedDisk!Data, Saved!NoRecord, SavedDisk!NoRecord
<1>2. Saved!Fresh = SavedDisk!Fresh
  BY DEF Saved!Fresh, SavedDisk!Fresh, Saved!ZeroTable, SavedDisk!ZeroTable,
     Saved!Clusters, SavedDisk!Clusters, Saved!EMPTY, SavedDisk!EMPTY, Saved!Blank,
     SavedDisk!Blank, Saved!Slots, SavedDisk!Slots, Saved!FreeEntry, SavedDisk!FreeEntry
<1>3. Saved!CacheCoherent = SavedDisk!CacheCoherent
  BY DEF Saved!CacheCoherent, SavedDisk!CacheCoherent
<1>4. Saved!MarksAgree = SavedDisk!MarksAgree
  BY DEF Saved!MarksAgree, SavedDisk!MarksAgree, Saved!Parents, SavedDisk!Parents,
     Saved!ROOT, SavedDisk!ROOT, Saved!SUGAR_PARENT, SavedDisk!SUGAR_PARENT, Saved!Data,
     SavedDisk!Data, Saved!FIRST_DATA, SavedDisk!FIRST_DATA, Saved!Slots,
     SavedDisk!Slots
<1>5. Saved!NamesUnique = SavedDisk!NamesUnique
  BY DEF Saved!NamesUnique, SavedDisk!NamesUnique, Saved!Live, SavedDisk!Live,
     Saved!Parents, SavedDisk!Parents, Saved!ROOT, SavedDisk!ROOT, Saved!SUGAR_PARENT,
     SavedDisk!SUGAR_PARENT, Saved!Data, SavedDisk!Data, Saved!FIRST_DATA,
     SavedDisk!FIRST_DATA, Saved!Slots, SavedDisk!Slots, Saved!EntryAt,
     SavedDisk!EntryAt
<1>6. Saved!FreeIsBlank = SavedDisk!FreeIsBlank
  BY DEF Saved!FreeIsBlank, SavedDisk!FreeIsBlank, Saved!Data, SavedDisk!Data,
     Saved!FIRST_DATA, SavedDisk!FIRST_DATA, Saved!EMPTY, SavedDisk!EMPTY, Saved!Blank,
     SavedDisk!Blank, Saved!Slots, SavedDisk!Slots, Saved!FreeEntry, SavedDisk!FreeEntry
<1>7. Saved!TablesPlain = SavedDisk!TablesPlain
  BY DEF Saved!TablesPlain, SavedDisk!TablesPlain, Saved!Data, SavedDisk!Data,
     Saved!FIRST_DATA, SavedDisk!FIRST_DATA, Saved!Live, SavedDisk!Live, Saved!Parents,
     SavedDisk!Parents, Saved!ROOT, SavedDisk!ROOT, Saved!SUGAR_PARENT,
     SavedDisk!SUGAR_PARENT, Saved!Slots, SavedDisk!Slots, Saved!HeadOf,
     SavedDisk!HeadOf, Saved!EntryAt, SavedDisk!EntryAt
<1>8. Saved!LinksLead = SavedDisk!LinksLead
  BY DEF Saved!LinksLead, SavedDisk!LinksLead, Saved!Data, SavedDisk!Data,
     Saved!FIRST_DATA, SavedDisk!FIRST_DATA, Saved!EMPTY, SavedDisk!EMPTY, Saved!EOF,
     SavedDisk!EOF
<1>9. Saved!NoCrossLink = SavedDisk!NoCrossLink
  BY DEF Saved!NoCrossLink, SavedDisk!NoCrossLink, Saved!Live, SavedDisk!Live,
     Saved!Parents, SavedDisk!Parents, Saved!ROOT, SavedDisk!ROOT, Saved!SUGAR_PARENT,
     SavedDisk!SUGAR_PARENT, Saved!Data, SavedDisk!Data, Saved!FIRST_DATA,
     SavedDisk!FIRST_DATA, Saved!Slots, SavedDisk!Slots, Saved!HeadOf, SavedDisk!HeadOf,
     Saved!EntryAt, SavedDisk!EntryAt
<1>10. Saved!EntriesLead = SavedDisk!EntriesLead
  BY DEF Saved!EntriesLead, SavedDisk!EntriesLead, Saved!Live, SavedDisk!Live,
     Saved!Parents, SavedDisk!Parents, Saved!ROOT, SavedDisk!ROOT, Saved!SUGAR_PARENT,
     SavedDisk!SUGAR_PARENT, Saved!Data, SavedDisk!Data, Saved!FIRST_DATA,
     SavedDisk!FIRST_DATA, Saved!Slots, SavedDisk!Slots, Saved!EntryAt,
     SavedDisk!EntryAt, Saved!HeadOf, SavedDisk!HeadOf, Saved!EOF, SavedDisk!EOF,
     Saved!SeqUpTo, SavedDisk!SeqUpTo, Saved!IsChain, SavedDisk!IsChain
<1> QED
  BY <1>1, <1>2, <1>3, <1>4, <1>5, <1>6, <1>7, <1>8, <1>9, <1>10

LEMMA SameCounting ==
    /\ \A S : Saved!Cardinality(S) = SavedDisk!Cardinality(S)
    /\ \A f : Saved!Range(f) = SavedDisk!Range(f)
<1>1. \A S : Saved!Cardinality(S) = SavedDisk!Cardinality(S)
  BY DEF Saved!Cardinality, SavedDisk!Cardinality
<1>2. \A f : Saved!Range(f) = SavedDisk!Range(f)
  BY DEF Saved!Range, SavedDisk!Range
<1> QED
  BY <1>1, <1>2

LEMMA SameConsistent == Saved!Consistent <=> SavedDisk!Consistent
BY SameForConsistent, SMT DEF Saved!Consistent, SavedDisk!Consistent

LEMMA SameWriteEntry ==
    ASSUME NEW parent, NEW name, NEW buf, Saved!WriteEntry(parent, name, buf)
    PROVE  SavedDisk!WriteEntry(parent, name, buf)
<1>1. PICK s \in Saved!FirstFree(saved.disk[parent]), junk \in Saved!Garbage,
          cl \in [1 .. Saved!ClustersFor(buf) -> Saved!Data \cup {Saved!NOCLUSTER}] :
        /\ Saved!IsAllocation(saved.fat, cl)
        /\ saved'.disk = Saved!Written(parent, s, name, buf, cl)
        /\ saved'.fat = [Saved!Linked(saved.fat, cl) EXCEPT
                           ![Saved!INDEX] = saved.fat[Saved!INDEX] + 1]
        /\ fat_table' = saved'.fat
        /\ exhausted' = \E i \in DOMAIN cl : cl[i] = Saved!NOCLUSTER
        /\ Saved!InsertIndex(name, parent, junk)
  BY Zenon DEF Saved!WriteEntry
<1>2. /\ s \in SavedDisk!FirstFree(saved.disk[parent]) /\ junk \in SavedDisk!Garbage
      /\ cl \in [1 .. SavedDisk!ClustersFor(buf)
                   -> SavedDisk!Data \cup {SavedDisk!NOCLUSTER}]
  BY SameForWrite
<1> DEFINE Works(s1, junk1, cl1) ==
        /\ SavedDisk!IsAllocation(saved.fat, cl1)
        /\ saved'.disk = SavedDisk!Written(parent, s1, name, buf, cl1)
        /\ saved'.fat = [SavedDisk!Linked(saved.fat, cl1) EXCEPT
                           ![SavedDisk!INDEX] = saved.fat[SavedDisk!INDEX] + 1]
        /\ fat_table' = saved'.fat
        /\ exhausted' = \E i \in DOMAIN cl1 : cl1[i] = SavedDisk!NOCLUSTER
        /\ SavedDisk!InsertIndex(name, parent, junk1)
<1>3. Works(s, junk, cl)
  BY <1>1, SameForWrite, Zenon
<1>4. /\ Saved!Calling /\ saved.disk[parent].dir
      /\ ~Saved!IsDuplicate(saved.disk[parent], name)
      /\ Saved!Cardinality(Saved!Available(saved.fat)) >= Len(buf)
      /\ reply' = Saved!Reply("write", 0, <<>>)
  BY Zenon DEF Saved!WriteEntry
<1>5. /\ SavedDisk!Calling /\ saved.disk[parent].dir
      /\ ~SavedDisk!IsDuplicate(saved.disk[parent], name)
      /\ SavedDisk!Cardinality(SavedDisk!Available(saved.fat)) >= Len(buf)
      /\ reply' = SavedDisk!Reply("write", 0, <<>>)
  BY <1>4, SameForWrite, SameCounting, Zenon
<1>6. UNCHANGED <<saved.signature, mounted>>
  BY DEF Saved!WriteEntry
<1>7. ASSUME NEW s1 \in SavedDisk!FirstFree(saved.disk[parent]),
             NEW junk1 \in SavedDisk!Garbage,
             NEW cl1 \in [1 .. SavedDisk!ClustersFor(buf)
                            -> SavedDisk!Data \cup {SavedDisk!NOCLUSTER}],
             Works(s1, junk1, cl1)
      PROVE  SavedDisk!WriteEntry(parent, name, buf)
  BY <1>5, <1>6, <1>7 DEF SavedDisk!WriteEntry
<1> HIDE DEF Works
<1> QED
  BY <1>2, <1>3, <1>7, Zenon

LEMMA SameDeleteFound ==
    ASSUME NEW parent, NEW name, NEW s, s \in Saved!FirstNamed(saved.disk[parent], name),
           ~Saved!RefusesDelete(saved.disk[parent].slot[s]),
           Saved!Calling, saved.disk[parent].dir, Saved!EraseEntry(parent, s)
    PROVE  Saved!DeleteFound(parent, name) /\ SavedDisk!DeleteFound(parent, name)
<1>1. SavedDisk!EraseEntry(parent, s)
  BY SameForWrite, SameForDelete, SameCounting, SMT
     DEF Saved!EraseEntry, SavedDisk!EraseEntry
<1>2. /\ s \in SavedDisk!FirstNamed(saved.disk[parent], name)
      /\ ~SavedDisk!RefusesDelete(saved.disk[parent].slot[s])
      /\ SavedDisk!Calling
  BY SameForWrite, SameForDelete
<1>3. Saved!DeleteFound(parent, name)
  BY Zenon DEF Saved!DeleteFound
<1>4. SavedDisk!DeleteFound(parent, name)
  BY <1>1, <1>2, Zenon DEF SavedDisk!DeleteFound
<1> QED
  BY <1>3, <1>4

LEMMA SamePower == Saved!Power => SavedDisk!Power
<1>1. Saved!Load => SavedDisk!Load
  BY DEF Saved!Load, SavedDisk!Load
<1>2. Saved!PowerOff => SavedDisk!PowerOff
  <2>1. Saved!ZeroTable = SavedDisk!ZeroTable
    BY DEF Saved!ZeroTable, SavedDisk!ZeroTable, Saved!Clusters, SavedDisk!Clusters,
       Saved!EMPTY, SavedDisk!EMPTY
  <2>2. Saved!NoReply = SavedDisk!NoReply
    BY DEF Saved!NoReply, SavedDisk!NoReply, Saved!Reply, SavedDisk!Reply
  <2> QED
    BY <2>1, <2>2 DEF Saved!PowerOff, SavedDisk!PowerOff
<1>3. Saved!Format => SavedDisk!Format
  <2>1. Saved!FormattedTable = SavedDisk!FormattedTable
    BY SMT DEF Saved!FormattedTable, SavedDisk!FormattedTable, Saved!Clusters,
       SavedDisk!Clusters, Saved!CLUSTER_0, SavedDisk!CLUSTER_0, Saved!ROOT,
       SavedDisk!ROOT, Saved!EOF, SavedDisk!EOF, Saved!EMPTY, SavedDisk!EMPTY
  <2>2. \A name, up : Saved!DirTable(name, up) = SavedDisk!DirTable(name, up)
    BY SMT DEF Saved!DirTable, SavedDisk!DirTable, Saved!Blank, SavedDisk!Blank,
       Saved!Slots, SavedDisk!Slots, Saved!FreeEntry, SavedDisk!FreeEntry
  <2>3. Saved!ROOT = SavedDisk!ROOT
    BY DEF Saved!ROOT, SavedDisk!ROOT
  <2> QED
    BY <2>1, <2>2, <2>3 DEF Saved!Format, SavedDisk!Format
<1> QED
  BY <1>1, <1>2, <1>3, Zenon DEF Saved!Power, SavedDisk!Power

SavedStep ==
    /\ Saved!Next \/ UNCHANGED Saved!vars
    /\ SavedDisk!Next \/ UNCHANGED SavedDisk!vars

\* A step that Saved takes as Fat32 takes it leaves its disk consistent.
LEMMA SavedStays ==
    ASSUME Saved!Consistent,
           \/ Saved!Power
           \/ \E parent \in Parents, name \in Names, buf \in Buffers :
                Saved!WriteEntry(parent, name, buf)
           \/ \E parent \in Parents, name \in Names :
              \E s \in Saved!FirstNamed(saved.disk[parent], name) :
                /\ ~Saved!RefusesDelete(saved.disk[parent].slot[s])
                /\ Saved!Calling /\ saved.disk[parent].dir
                /\ Saved!EraseEntry(parent, s)
           \/ UNCHANGED Saved!vars
    PROVE  Saved!Consistent' /\ SavedStep
<1>0. Saved!Parents = Parents /\ SavedDisk!Parents = Parents
  BY SMT DEF Saved!Parents, SavedDisk!Parents, Parents, Saved!ROOT, SavedDisk!ROOT, ROOT,
     Saved!SUGAR_PARENT, SavedDisk!SUGAR_PARENT, SUGAR_PARENT, Saved!Data,
     SavedDisk!Data, Data, Saved!FIRST_DATA, SavedDisk!FIRST_DATA, FIRST_DATA
<1>1. Saved!Power => Saved!Next /\ SavedDisk!Next
  <2>1. Saved!Power => Saved!Next
    BY Zenon DEF Saved!Next
  <2>2. SavedDisk!Power => SavedDisk!Next
    BY Zenon DEF SavedDisk!Next
  <2> QED
    BY <2>1, <2>2, SamePower
<1>2. ASSUME NEW parent \in Parents, NEW name \in Names, NEW buf \in Buffers,
             Saved!WriteEntry(parent, name, buf)
      PROVE  Saved!Next /\ SavedDisk!Next
  <2>1. SavedDisk!WriteEntry(parent, name, buf)
    BY <1>2, SameWriteEntry
  <2>2. Saved!Write
    BY <1>0, <1>2, Zenon DEF Saved!Write
  <2>3. SavedDisk!Write
    BY <1>0, <2>1, Zenon DEF SavedDisk!Write
  <2> QED
    BY <2>2, <2>3, Zenon DEF Saved!Next, SavedDisk!Next
<1>3. ASSUME NEW parent \in Parents, NEW name \in Names, NEW s,
             s \in Saved!FirstNamed(saved.disk[parent], name),
             ~Saved!RefusesDelete(saved.disk[parent].slot[s]),
             Saved!Calling, saved.disk[parent].dir, Saved!EraseEntry(parent, s)
      PROVE  Saved!Next /\ SavedDisk!Next
  <2>1. Saved!DeleteFound(parent, name) /\ SavedDisk!DeleteFound(parent, name)
    BY <1>3, SameDeleteFound
  <2>2. Saved!Delete
    BY <1>0, <2>1, Zenon DEF Saved!Delete
  <2>3. SavedDisk!Delete
    BY <1>0, <2>1, Zenon DEF SavedDisk!Delete
  <2> QED
    BY <2>2, <2>3, Zenon DEF Saved!Next, SavedDisk!Next
<1>4. /\ Saved!Next \/ UNCHANGED Saved!vars
      /\ [SavedDisk!Next]_(SavedDisk!vars)
  <2>1. UNCHANGED Saved!vars => UNCHANGED SavedDisk!vars
    BY DEF Saved!vars, SavedDisk!vars
  <2> QED
    BY <1>1, <1>2, <1>3, <2>1
<1>5. SavedDisk!Consistent /\ [SavedDisk!Next]_(SavedDisk!vars) => SavedDisk!Consistent'
  <2>1. /\ N \in Nat /\ N > SavedDisk!FIRST_DATA /\ N < SavedDisk!CLUSTER_0
        /\ DirLength \in Nat \ {0} /\ IndexCapacity \in Nat /\ IndexCapacity <= N
        /\ MaxFragments \in Nat \ {0}
    BY SizesAssumption
       DEF SavedDisk!FIRST_DATA, SavedDisk!CLUSTER_0, FIRST_DATA, CLUSTER_0
  <2> QED
    BY SavedDisk!NextConsistent, <2>1, NamesAssumption, BuffersAssumption
<1>6. SavedDisk!Consistent'
  BY <1>4, <1>5, SameConsistent
<1>7. Saved!Consistent' <=> SavedDisk!Consistent'
  BY SameConsistent, PTL
<1> QED
  BY <1>4, <1>6, <1>7 DEF SavedStep

\* The disk after a write, and after a delete, that finds d.
WrittenOn(d, parent, s, name, buf, cl) ==
    [c \in Clusters |->
        IF c = parent THEN WithEntry(d[c], s, name, buf = <<>>, cl[1])
        ELSE IF \E i \in DOMAIN cl : cl[i] = c
             THEN IF buf = <<>> THEN DirTable(name, parent)
                                ELSE FileBlock(buf[PositionIn(cl, c)])
             ELSE d[c]]

ErasedOn(d, parent, s, gone) ==
    [c \in Clusters |->
        IF c = parent THEN ResetTable(d[c], s)
        ELSE IF c \in gone THEN Blank ELSE d[c]]

\* The operators of Saved are those of this module.
LEMMA SavedOperators ==
    /\ Saved!Data = Data
    /\ Saved!NOCLUSTER = NOCLUSTER
    /\ Saved!INDEX = INDEX
    /\ Saved!ROOT = ROOT
    /\ Saved!EMPTY = EMPTY
    /\ Saved!NoRecord = NoRecord
    /\ \A table, name : Saved!IsDuplicate(table, name) = IsDuplicate(table, name)
    /\ \A table : Saved!FirstFree(table) = FirstFree(table)
    /\ \A f : Saved!Available(f) = Available(f)
    /\ \A buf : Saved!ClustersFor(buf) = ClustersFor(buf)
    /\ \A f, cl : Saved!IsAllocation(f, cl) = IsAllocation(f, cl)
    /\ \A f, cl : Saved!Linked(f, cl) = Linked(f, cl)
    /\ \A op, code, data : Saved!Reply(op, code, data) = Reply(op, code, data)
    /\ \A table, name : Saved!FirstNamed(table, name) = FirstNamed(table, name)
    /\ \A entry : Saved!RefusesDelete(entry) = RefusesDelete(entry)
    /\ \A S, max : Saved!SeqUpTo(S, max) = SeqUpTo(S, max)
    /\ \A f, ch : Saved!IsChain(f, ch) = IsChain(f, ch)
    /\ \A f, gone : Saved!Freed(f, gone) = Freed(f, gone)
    /\ \A table, record : Saved!FirstRecord(table, record) = FirstRecord(table, record)
    /\ \A table, i : Saved!Without(table, i) = Without(table, i)
    /\ Saved!FormattedTable = FormattedTable
    /\ \A name, up : Saved!DirTable(name, up) = DirTable(name, up)
    /\ Saved!ZeroTable = ZeroTable
    /\ Saved!NoReply = NoReply
<1>1. Saved!Data = Data
  BY SMT DEF Saved!Data, Saved!FIRST_DATA, Data, FIRST_DATA
<1>2. Saved!NOCLUSTER = NOCLUSTER
  BY SMT DEF Saved!NOCLUSTER, Saved!FIRST_DATA, Saved!CLUSTER_0, NOCLUSTER, FIRST_DATA,
     CLUSTER_0
<1>3. Saved!INDEX = INDEX
  BY SMT DEF Saved!INDEX, INDEX
<1>4. Saved!ROOT = ROOT
  BY SMT DEF Saved!ROOT, ROOT
<1>5. Saved!EMPTY = EMPTY
  BY SMT DEF Saved!EMPTY, EMPTY
<1>6. Saved!NoRecord = NoRecord
  BY SMT DEF Saved!NoRecord, NoRecord
<1>7. \A table, name : Saved!IsDuplicate(table, name) = IsDuplicate(table, name)
  BY SMT DEF Saved!IsDuplicate, Saved!Slots, IsDuplicate, Slots
<1>8. \A table : Saved!FirstFree(table) = FirstFree(table)
  BY SMT DEF Saved!FirstFree, Saved!Slots, FirstFree, Slots
<1>9. \A f : Saved!Available(f) = Available(f)
  BY SMT DEF Saved!Available, Saved!EMPTY, Available, EMPTY
<1>10. \A buf : Saved!ClustersFor(buf) = ClustersFor(buf)
  BY SMT DEF Saved!ClustersFor, ClustersFor
<1>11. \A f, cl : Saved!IsAllocation(f, cl) = IsAllocation(f, cl)
  BY SMT DEF Saved!IsAllocation, Saved!FreeData, Saved!NOCLUSTER, Saved!Data, Saved!EMPTY,
     Saved!FIRST_DATA, Saved!CLUSTER_0, IsAllocation, FreeData, NOCLUSTER, Data,
     EMPTY, FIRST_DATA, CLUSTER_0
<1>12. \A f, cl : Saved!Linked(f, cl) = Linked(f, cl)
  BY SMT DEF Saved!Linked, Saved!Clusters, Saved!PositionIn, Saved!EOF, Linked, Clusters,
     PositionIn, EOF
<1>13. \A op, code, data : Saved!Reply(op, code, data) = Reply(op, code, data)
  BY SMT DEF Saved!Reply, Reply
<1>14. \A table, name : Saved!FirstNamed(table, name) = FirstNamed(table, name)
  BY SMT DEF Saved!FirstNamed, Saved!Slots, FirstNamed, Slots
<1>15. \A entry : Saved!RefusesDelete(entry) = RefusesDelete(entry)
  BY SMT DEF Saved!RefusesDelete, RefusesDelete
<1>16. \A S, max : Saved!SeqUpTo(S, max) = SeqUpTo(S, max)
  BY SMT DEF Saved!SeqUpTo, SeqUpTo
<1>17. \A f, ch : Saved!IsChain(f, ch) = IsChain(f, ch)
  BY SMT DEF Saved!IsChain, Saved!EOF, IsChain, EOF
<1>18. \A f, gone : Saved!Freed(f, gone) = Freed(f, gone)
  BY SMT DEF Saved!Freed, Saved!Clusters, Saved!EMPTY, Freed, Clusters, EMPTY
<1>19. \A table, record : Saved!FirstRecord(table, record) = FirstRecord(table, record)
  BY SMT DEF Saved!FirstRecord, FirstRecord
<1>20. \A table, i : Saved!Without(table, i) = Without(table, i)
  BY SMT DEF Saved!Without, Without
<1>21. Saved!FormattedTable = FormattedTable
  BY SMT DEF Saved!FormattedTable, Saved!Clusters, Saved!CLUSTER_0, Saved!ROOT, Saved!EOF,
     Saved!EMPTY, FormattedTable, Clusters, CLUSTER_0, ROOT, EOF, EMPTY
<1>22. \A name, up : Saved!DirTable(name, up) = DirTable(name, up)
  BY SMT DEF Saved!DirTable, Saved!Blank, Saved!Slots, Saved!FreeEntry, DirTable, Blank,
     Slots, FreeEntry
<1>23. Saved!ZeroTable = ZeroTable
  BY SMT DEF Saved!ZeroTable, Saved!Clusters, Saved!EMPTY, ZeroTable, Clusters, EMPTY
<1>24. Saved!NoReply = NoReply
  BY SMT DEF Saved!NoReply, Saved!Reply, NoReply, Reply
<1> QED
  BY <1>1, <1>2, <1>3, <1>4, <1>5, <1>6, <1>7, <1>8, <1>9, <1>10, <1>11, <1>12,
     <1>13, <1>14, <1>15, <1>16, <1>17, <1>18, <1>19, <1>20, <1>21, <1>22, <1>23,
     <1>24

LEMMA SavedCounting ==
    /\ \A S : Saved!Cardinality(S) = Cardinality(S)
    /\ \A f : Saved!Range(f) = Range(f)
<1>1. \A S : Saved!Cardinality(S) = Cardinality(S)
  BY DEF Saved!Cardinality, Cardinality
<1>2. \A f : Saved!Range(f) = Range(f)
  BY DEF Saved!Range, Range
<1> QED
  BY <1>1, <1>2

LEMMA SavedWritten ==
    ASSUME NEW parent, NEW s, NEW name, NEW buf, NEW cl
    PROVE  Saved!Written(parent, s, name, buf, cl)
             = WrittenOn(saved.disk, parent, s, name, buf, cl)
BY SMT DEF WrittenOn, Saved!Written, Saved!Clusters, Saved!WithEntry, Saved!DirTable,
     Saved!FileBlock, Saved!PositionIn, Saved!Blank, Saved!Slots, Saved!FreeEntry,
     Clusters, WithEntry, DirTable, FileBlock, PositionIn, Blank, Slots, FreeEntry

LEMMA SavedErased ==
    ASSUME NEW parent, NEW s, NEW gone
    PROVE  Saved!Erased(parent, s, gone) = ErasedOn(saved.disk, parent, s, gone)
BY SMT DEF ErasedOn, ResetTable, Saved!Erased, Saved!Clusters, Saved!Reset, Saved!Blank, Saved!FreeEntry,
     Saved!Slots, Clusters, Reset, Blank, FreeEntry, Slots

\* The records that count, as the last call that returned has left them.
Records == [i \in 1 .. Count |-> saved.index[i]]

LEMMA SavedRecords ==
    ASSUME Typed, Backed
    PROVE  /\ SubSeq(saved.index, 1, Count) = Records
           /\ Count \in Nat /\ Len(Records) = Count
           /\ \A junk : Saved!Loaded(junk) = Records
<1>1. IsSeq(saved.index) /\ Count \in Nat /\ Count <= Len(saved.index)
  BY CountTypes DEF Backed
<1>2. /\ DOMAIN SubSeq(saved.index, 1, Count) = 1 .. Count
      /\ \A i \in 1 .. Count : SubSeq(saved.index, 1, Count)[i] = saved.index[i]
  BY <1>1, FirstPart
<1>3. SubSeq(saved.index, 1, Count) = [i \in 1 .. Count |-> SubSeq(saved.index, 1, Count)[i]]
  BY <1>1, SeqShape
<1>4. SubSeq(saved.index, 1, Count) = Records
  BY <1>2, <1>3 DEF Records
<1>5. IsSeq(Records) /\ Len(Records) = Count /\ DOMAIN Records = 1 .. Count
  <2>1. Records = [i \in 1 .. Count |-> Records[i]]
    BY DEF Records
  <2> QED
    BY <1>1, <2>1, SeqOfAny
<1>6. ASSUME NEW junk
      PROVE  Saved!Loaded(junk) = Records
  <2>1. Saved!INDEX = INDEX
    BY SavedOperators
  <2>2. Saved!Loaded(junk) = [i \in 1 .. Count |->
           IF i <= Len(SubSeq(saved.index, 1, Count))
           THEN SubSeq(saved.index, 1, Count)[i] ELSE junk]
    BY <2>1, Zenon DEF Saved!Loaded, Count
  <2>3. Saved!Loaded(junk) = [i \in 1 .. Count |-> IF i <= Count THEN Records[i] ELSE junk]
    BY <1>4, <1>5, <2>2
  <2>4. \A i \in 1 .. Count : (IF i <= Count THEN Records[i] ELSE junk) = saved.index[i]
    BY <1>1 DEF Records
  <2> QED
    BY <2>3, <2>4 DEF Records
<1> QED
  BY <1>1, <1>4, <1>5, <1>6

----------------------------------------------------------------------------
(* The disk at which a call aims, and that it is the disk of one step. *)

AimsToWrite(parent, name, buf, f, d, rec) ==
    /\ saved.disk[parent].dir
    /\ ~IsDuplicate(saved.disk[parent], name)
    /\ Cardinality(Available(saved.fat)) >= Len(buf)
    /\ \E s \in FirstFree(saved.disk[parent]), cl \in [1 .. ClustersFor(buf) -> Data] :
         /\ IsAllocation(saved.fat, cl)
         /\ f = [Linked(saved.fat, cl) EXCEPT ![INDEX] = Count + 1]
         /\ d = WrittenOn(saved.disk, parent, s, name, buf, cl)
    /\ rec = Append(Records, <<name, parent>>)

AimsToDelete(parent, s, f, d, rec) ==
    \E ch \in SeqUpTo(Data, MaxFragments), count \in {Count - 1, Count} :
         /\ IF saved.disk[parent].slot[s].dir
            THEN ch = <<saved.disk[parent].slot[s].cl>>
            ELSE IsChain(saved.fat, ch) /\ ch[1] = saved.disk[parent].slot[s].cl
         /\ \/ /\ FirstRecord(Records, <<saved.disk[parent].slot[s].name, parent>>) = {}
               /\ count = Count /\ rec = Records
            \/ \E i \in FirstRecord(Records,
                                    <<saved.disk[parent].slot[s].name, parent>>) :
                  count = Count - 1 /\ rec = Without(Records, i)
         /\ f = [Freed(saved.fat, Range(ch)) EXCEPT ![INDEX] = count]
         /\ d = ErasedOn(saved.disk, parent, s, Range(ch))

AimsToFormat(f, d, rec) ==
    /\ ~mounted /\ ~saved.signature /\ Count = 0
    /\ f = FormattedTable
    /\ d = [saved.disk EXCEPT ![ROOT] = DirTable(NoName, ROOT)]
    /\ rec = <<>>

\* The call has returned and left this disk.
Left(f, d, rec) ==
    /\ saved'.fat = f /\ saved'.disk = d /\ saved'.signature = TRUE
    /\ SubSeq(saved'.index, 1, saved'.fat[INDEX]) = rec
    /\ mounted' = TRUE /\ fat_table' = f /\ exhausted' = exhausted

LEMMA GarbageNone ==
    ASSUME Count <= IndexCapacity
    PROVE  NoRecord \in Saved!Garbage
<1>1. Saved!Garbage = {Saved!NoRecord}
  <2>1. Saved!INDEX = INDEX
    BY SavedOperators
  <2>2. saved.fat[Saved!INDEX] <= IndexCapacity
    BY <2>1, Zenon DEF Count
  <2> QED
    BY <2>2, Zenon DEF Saved!Garbage
<1> QED
  BY <1>1, SavedOperators

LEMMA WriteEnds ==
    ASSUME Typed, Backed, Count <= IndexCapacity, NEW parent, NEW name, NEW buf,
           NEW f, NEW d, NEW rec, AimsToWrite(parent, name, buf, f, d, rec),
           mounted = TRUE, saved.signature = TRUE, Left(f, d, rec),
           Count + 1 <= IndexCapacity, reply' = Reply("write", 0, <<>>)
    PROVE  Saved!WriteEntry(parent, name, buf)
<1>0. saved.fat[Saved!INDEX] < N
  <2>1. Count \in Nat /\ N \in Nat /\ IndexCapacity \in Nat /\ IndexCapacity <= N
    BY CountTypes, SizesAssumption
  <2>2. saved.fat[Saved!INDEX] = Count
    BY DEF Count, Saved!INDEX, INDEX
  <2> QED
    BY <2>1, <2>2
<1>1. PICK s \in FirstFree(saved.disk[parent]), cl \in [1 .. ClustersFor(buf) -> Data] :
        /\ IsAllocation(saved.fat, cl)
        /\ f = [Linked(saved.fat, cl) EXCEPT ![INDEX] = Count + 1]
        /\ d = WrittenOn(saved.disk, parent, s, name, buf, cl)
  BY DEF AimsToWrite
<1> DEFINE Works(s1, junk1, cl1) ==
        /\ Saved!IsAllocation(saved.fat, cl1)
        /\ saved'.disk = Saved!Written(parent, s1, name, buf, cl1)
        /\ saved'.fat = [Saved!Linked(saved.fat, cl1) EXCEPT
                           ![Saved!INDEX] = saved.fat[Saved!INDEX] + 1]
        /\ fat_table' = saved'.fat
        /\ exhausted' = \E i \in DOMAIN cl1 : cl1[i] = Saved!NOCLUSTER
        /\ Saved!InsertIndex(name, parent, junk1)
<1>2. /\ s \in Saved!FirstFree(saved.disk[parent]) /\ NoRecord \in Saved!Garbage
      /\ cl \in [1 .. Saved!ClustersFor(buf) -> Saved!Data \cup {Saved!NOCLUSTER}]
  BY SavedOperators, GarbageNone
<1>3. exhausted' = \E i \in DOMAIN cl : cl[i] = Saved!NOCLUSTER
  <2>1. exhausted' = FALSE
    BY DEF Left, Typed
  <2>2. \A i \in DOMAIN cl : cl[i] # NOCLUSTER
    BY Numbers DEF NOCLUSTER
  <2>3. Saved!NOCLUSTER = NOCLUSTER
    BY SavedOperators
  <2> QED
    BY <2>1, <2>2, <2>3, Zenon
<1>4. Saved!InsertIndex(name, parent, NoRecord)
  <2>1. Saved!Loaded(NoRecord) = Records /\ Len(Records) = Count /\ Count \in Nat
        /\ SubSeq(saved.index, 1, Count) = Records
    BY SavedRecords
  <2> DEFINE new == Append(Records, <<name, parent>>)
  <2>2. Len(new) <= IndexCapacity
    <3>1. IsSeq(Records)
      <4>1. Records = [i \in 1 .. Count |-> Records[i]]
        BY DEF Records
      <4> QED
        BY <2>1, <4>1, SeqOfAny
    <3>2. Len(new) = Count + 1
      BY <2>1, <3>1 DEF IsSeq
    <3> QED
      BY <3>2
  <2> HIDE DEF new
  <2>3. Saved!Stored(new) = new
    BY <2>2, Zenon DEF Saved!Stored
  <2>4. SubSeq(saved'.index, 1, saved'.fat[INDEX]) = new
    BY DEF Left, AimsToWrite, new
  <2> QED
    BY <1>0, <2>1, <2>3, <2>4, Zenon DEF Saved!InsertIndex, new
<1>5. Works(s, NoRecord, cl)
  <2>1. Saved!IsAllocation(saved.fat, cl)
    BY <1>1, SavedOperators
  <2>2. saved'.disk = Saved!Written(parent, s, name, buf, cl)
    BY <1>1, SavedWritten DEF Left
  <2>3. saved'.fat = [Saved!Linked(saved.fat, cl) EXCEPT
                           ![Saved!INDEX] = saved.fat[Saved!INDEX] + 1]
    BY <1>1, SavedOperators, Zenon DEF Left, Count
  <2>4. fat_table' = saved'.fat
    BY DEF Left
  <2> QED
    BY <1>3, <1>4, <2>1, <2>2, <2>3, <2>4, Zenon
<1>6. /\ Saved!Calling /\ saved.disk[parent].dir
      /\ ~Saved!IsDuplicate(saved.disk[parent], name)
      /\ Saved!Cardinality(Saved!Available(saved.fat)) >= Len(buf)
      /\ reply' = Saved!Reply("write", 0, <<>>)
  <2>1. Saved!Calling
    BY DEF Saved!Calling, Typed
  <2>2. /\ saved.disk[parent].dir
        /\ ~Saved!IsDuplicate(saved.disk[parent], name)
    BY SavedOperators, Zenon DEF AimsToWrite
  <2>3. Saved!Cardinality(Saved!Available(saved.fat)) >= Len(buf)
    BY SavedOperators, SavedCounting, Zenon DEF AimsToWrite
  <2>4. reply' = Saved!Reply("write", 0, <<>>)
    BY SavedOperators, Zenon
  <2> QED
    BY <2>1, <2>2, <2>3, <2>4
<1>7. UNCHANGED <<saved.signature, mounted>>
  BY DEF Left
<1>8. ASSUME NEW s1 \in Saved!FirstFree(saved.disk[parent]),
             NEW junk1 \in Saved!Garbage,
             NEW cl1 \in [1 .. Saved!ClustersFor(buf) -> Saved!Data \cup {Saved!NOCLUSTER}],
             Works(s1, junk1, cl1)
      PROVE  Saved!WriteEntry(parent, name, buf)
  BY <1>6, <1>7, <1>8 DEF Saved!WriteEntry
<1> HIDE DEF Works
<1> QED
  BY <1>2, <1>5, <1>8, Zenon

LEMMA DeleteEnds ==
    ASSUME Typed, Backed, Count <= IndexCapacity, NEW parent, NEW name,
           NEW s \in FirstNamed(saved.disk[parent], name),
           ~RefusesDelete(saved.disk[parent].slot[s]),
           NEW f, NEW d, NEW rec, AimsToDelete(parent, s, f, d, rec),
           mounted = TRUE, saved.signature = TRUE, saved.disk[parent].dir,
           Left(f, d, rec), reply' = Reply("delete", 0, <<>>)
    PROVE  /\ s \in Saved!FirstNamed(saved.disk[parent], name)
           /\ ~Saved!RefusesDelete(saved.disk[parent].slot[s])
           /\ Saved!Calling /\ saved.disk[parent].dir
           /\ Saved!EraseEntry(parent, s)
<1> DEFINE entry == saved.disk[parent].slot[s]
<1>1. PICK ch \in SeqUpTo(Data, MaxFragments), count \in {Count - 1, Count} :
         /\ IF entry.dir THEN ch = <<entry.cl>>
                         ELSE IsChain(saved.fat, ch) /\ ch[1] = entry.cl
         /\ \/ /\ FirstRecord(Records, <<entry.name, parent>>) = {}
               /\ count = Count /\ rec = Records
            \/ \E i \in FirstRecord(Records, <<entry.name, parent>>) :
                  count = Count - 1 /\ rec = Without(Records, i)
         /\ f = [Freed(saved.fat, Range(ch)) EXCEPT ![INDEX] = count]
         /\ d = ErasedOn(saved.disk, parent, s, Range(ch))
  BY DEF AimsToDelete
<1> HIDE DEF entry
<1>2. /\ s \in Saved!FirstNamed(saved.disk[parent], name)
      /\ ~Saved!RefusesDelete(saved.disk[parent].slot[s])
      /\ Saved!Calling
  <2>1. Saved!Calling
    BY DEF Saved!Calling, Typed
  <2> QED
    BY <2>1, SavedOperators
<1>3. Saved!Occupies(entry, ch)
  BY <1>1, SavedOperators, Zenon DEF Saved!Occupies
<1>4. Saved!DeleteIndex(entry.name, parent, NoRecord, count)
  <2> DEFINE found == Saved!FirstRecord(Records, <<entry.name, parent>>)
  <2>1. /\ Saved!Loaded(NoRecord) = Records /\ Len(Records) = Count /\ Count \in Nat
        /\ SubSeq(saved.index, 1, Count) = Records
    BY SavedRecords
  <2>2. found = FirstRecord(Records, <<entry.name, parent>>)
    BY SavedOperators
  <2>3. SubSeq(saved'.index, 1, saved'.fat[INDEX]) = rec
    BY DEF Left
  <2>c. saved.fat[Saved!INDEX] = Count
    BY SavedOperators, Zenon DEF Count
  <2>i. SubSeq(saved.index, 1, saved.fat[INDEX]) = Records
    BY <2>1 DEF Count
  <2>4. CASE found = {} /\ count = Count /\ rec = Records
    <3>1. SubSeq(saved'.index, 1, saved'.fat[INDEX]) = SubSeq(saved.index, 1, saved.fat[INDEX])
      BY <2>3, <2>4, <2>i
    <3> QED
      BY <2>1, <2>4, <2>c, <3>1, Zenon DEF Saved!DeleteIndex
  <2>5. ASSUME NEW i \in found, count = Count - 1, rec = Without(Records, i)
        PROVE  Saved!DeleteIndex(entry.name, parent, NoRecord, count)
    <3>1. Saved!Without(Records, i) = rec
      BY <2>5, SavedOperators
    <3>2. Saved!Stored(rec) = rec
      <4>1. Len(rec) <= IndexCapacity
        <5>1. i \in 1 .. Count
          BY <2>1, <2>2 DEF FirstRecord, Records
        <5>2. Count - 1 \in Nat
          BY <2>1, <5>1
        <5>3. rec = [j \in 1 .. (Count - 1) |-> rec[j]]
          BY <2>1, <2>5 DEF Without
        <5>4. Len(rec) = Count - 1
          BY <5>2, <5>3, SeqOfAny
        <5> QED
          BY <2>1, <5>4, SizesAssumption
      <4> QED
        BY <4>1, Zenon DEF Saved!Stored
    <3>3. SubSeq(saved'.index, 1, saved'.fat[INDEX]) = Saved!Stored(Saved!Without(Records, i))
      BY <2>3, <3>1, <3>2
    <3> QED
      BY <2>1, <2>5, <2>c, <3>3, Zenon DEF Saved!DeleteIndex
  <2> QED
    BY <1>1, <2>2, <2>4, <2>5
<1> DEFINE Works(junk1, ch1, count1) ==
         /\ Saved!Occupies(saved.disk[parent].slot[s], ch1)
         /\ Saved!DeleteIndex(saved.disk[parent].slot[s].name, parent, junk1, count1)
         /\ saved'.disk = Saved!Erased(parent, s, Saved!Range(ch1))
         /\ saved'.fat = [Saved!Freed(saved.fat, Saved!Range(ch1)) EXCEPT
                            ![Saved!INDEX] = count1]
         /\ fat_table' = saved'.fat
<1>5. Works(NoRecord, ch, count)
  <2>1. saved'.disk = Saved!Erased(parent, s, Saved!Range(ch))
    BY <1>1, SavedErased, SavedCounting DEF Left
  <2>2. saved'.fat = [Saved!Freed(saved.fat, Saved!Range(ch)) EXCEPT ![Saved!INDEX] = count]
    BY <1>1, SavedOperators, SavedCounting, Zenon DEF Left
  <2>3. fat_table' = saved'.fat
    BY DEF Left
  <2> QED
    BY <1>3, <1>4, <2>1, <2>2, <2>3, Zenon DEF entry
<1>6. /\ NoRecord \in Saved!Garbage /\ ch \in Saved!SeqUpTo(Saved!Data, MaxFragments)
      /\ count \in {saved.fat[Saved!INDEX] - 1, saved.fat[Saved!INDEX]}
  BY SavedOperators, GarbageNone, Zenon DEF Count
<1>7. ASSUME NEW junk1 \in Saved!Garbage,
             NEW ch1 \in Saved!SeqUpTo(Saved!Data, MaxFragments),
             NEW count1 \in {saved.fat[Saved!INDEX] - 1, saved.fat[Saved!INDEX]},
             Works(junk1, ch1, count1)
      PROVE  Saved!EraseEntry(parent, s)
  <2>1. reply' = Saved!Reply("delete", 0, <<>>)
    BY SavedOperators, Zenon
  <2>2. UNCHANGED <<saved.signature, mounted, exhausted>>
    BY DEF Left
  <2> QED
    BY <1>7, <2>1, <2>2 DEF Saved!EraseEntry
<1> HIDE DEF Works
<1>8. Saved!EraseEntry(parent, s)
  BY <1>5, <1>6, <1>7, Zenon
<1> QED
  BY <1>2, <1>8

LEMMA FormatEnds ==
    ASSUME Typed, Backed, NEW f, NEW d, NEW rec, AimsToFormat(f, d, rec),
           Left(f, d, rec), reply' = reply
    PROVE  Saved!Power
<1>1. SubSeq(saved.index, 1, saved.fat[INDEX]) = <<>>
  <2>1. SubSeq(saved.index, 1, Count) = Records /\ Len(Records) = Count
    BY SavedRecords
  <2>2. Count = 0
    BY DEF AimsToFormat
  <2>3. Records = <<>>
    BY <2>2 DEF Records
  <2> QED
    BY <2>1, <2>3 DEF Count
<1>2. SubSeq(saved'.index, 1, saved'.fat[INDEX]) = SubSeq(saved.index, 1, saved.fat[INDEX])
  BY <1>1 DEF Left, AimsToFormat
<1>3. saved'.fat = Saved!FormattedTable /\ fat_table' = Saved!FormattedTable
  BY SavedOperators DEF Left, AimsToFormat
<1>4. saved'.disk = [saved.disk EXCEPT ![Saved!ROOT] = Saved!DirTable(NoName, Saved!ROOT)]
  BY SavedOperators, Zenon DEF Left, AimsToFormat
<1>5. ~mounted /\ ~saved.signature /\ saved'.signature = TRUE /\ mounted' = TRUE
  BY DEF Left, AimsToFormat
<1>6. reply' = reply /\ exhausted' = exhausted
  BY DEF Left
<1>7. Saved!Format
  BY <1>2, <1>3, <1>4, <1>5, <1>6 DEF Saved!Format
<1> QED
  BY <1>7, Zenon DEF Saved!Power

----------------------------------------------------------------------------
(* The writes that are left lead to that disk. *)

Shaped(f, d, rec) ==
    /\ f = [c \in Clusters |-> f[c]] /\ d = [c \in Clusters |-> d[c]]
    /\ f[INDEX] \in Nat /\ rec = [i \in 1 .. f[INDEX] |-> rec[i]]

\* No write left erases the boot sector or has no end.
Whole(w) == (w.to = "boot" => w.value = TRUE) /\ w.to # "nowhere"

Leads(f, d, rec) ==
    /\ Shaped(f, d, rec)
    /\ \A c \in Clusters : Due("fat", c, f[c]) /\ Due("disk", c, d[c])
    /\ \A i \in 1 .. f[INDEX] : Due("index", i, rec[i])
    /\ signature \/ \E w \in Range(pending) : w.to = "boot"
    /\ \A w \in Range(pending) : Whole(w)

LEMMA LeadsNext ==
    ASSUME Typed, Backed, WriteNext, NEW f, NEW d, NEW rec, Leads(f, d, rec)
    PROVE  Leads(f, d, rec)'
<1> DEFINE w == pending[1]
           n == Len(pending)
<1>1. /\ Applied(w) /\ n \in Nat \ {0} /\ DOMAIN pending = 1 .. n
      /\ DOMAIN pending' = 1 .. n - 1
      /\ \A i \in 1 .. n - 1 : pending'[i] = pending[i + 1]
  BY NextHead
<1> HIDE DEF w, n
<1>2. w \in Range(pending) /\ Range(pending') \subseteq Range(pending)
  BY <1>1 DEF w, Range
<1>3. ASSUME NEW x \in Range(pending)
      PROVE  x = w \/ x \in Range(pending')
  <2>1. PICK i \in 1 .. n : x = pending[i]
    BY <1>1, <1>3 DEF Range
  <2>2. CASE i = 1
    BY <2>1, <2>2 DEF w
  <2>3. CASE i # 1
    <3>1. i - 1 \in 1 .. n - 1 /\ (i - 1) + 1 = i
      BY <1>1, <2>3
    <3>2. pending'[i - 1] = x
      BY <1>1, <2>1, <3>1
    <3> QED
      BY <1>1, <3>1, <3>2 DEF Range
  <2> QED
    BY <2>2, <2>3
<1>4. \A c \in Clusters : Due("fat", c, f[c])' /\ Due("disk", c, d[c])'
  <2> SUFFICES ASSUME NEW c \in Clusters
               PROVE  Due("fat", c, f[c])' /\ Due("disk", c, d[c])'
    OBVIOUS
  <2>1. c \in Nat
    BY DEF Clusters
  <2>2. Due("fat", c, f[c]) /\ Due("disk", c, d[c])
    BY DEF Leads
  <2>3. Due("fat", c, f[c])'
    BY <2>1, <2>2, DueNext
  <2>4. Due("disk", c, d[c])'
    BY <2>1, <2>2, DueNext
  <2> QED
    BY <2>3, <2>4
<1>5. \A i \in 1 .. f[INDEX] : Due("index", i, rec[i])'
  <2> SUFFICES ASSUME NEW i \in 1 .. f[INDEX]
               PROVE  Due("index", i, rec[i])'
    OBVIOUS
  <2>1. Due("index", i, rec[i]) /\ f[INDEX] \in Nat
    BY DEF Leads, Shaped
  <2>2. i \in Nat /\ i # 0
    BY <2>1
  <2> QED
    BY <2>1, <2>2, DueNext
<1>6. Whole(w) /\ \A x \in Range(pending') : Whole(x)
  BY <1>2 DEF Leads
<1>7. signature' = IF w.to = "boot" THEN w.value ELSE signature
  BY <1>1 DEF Applied
<1>8. signature' \/ \E x \in Range(pending') : x.to = "boot"
  <2>1. CASE w.to = "boot"
    BY <1>6, <1>7, <2>1 DEF Whole
  <2>2. CASE w.to # "boot"
    BY <1>3, <1>7, <2>2 DEF Leads
  <2> QED
    BY <2>1, <2>2
<1>9. Shaped(f, d, rec)
  BY DEF Leads
<1> QED
  BY <1>4, <1>5, <1>6, <1>8, <1>9 DEF Leads, Shaped, Whole

LEMMA LeadsEnd ==
    ASSUME Typed', Backed', IndexRoom', NEW f, NEW d, NEW rec, Leads(f, d, rec)',
           pending' = <<>>
    PROVE  /\ fat' = f /\ disk' = d /\ signature' = TRUE
           /\ SubSeq(index', 1, fat'[INDEX]) = rec
<1>1. DOMAIN pending' = {} /\ Range(pending') = {}
  BY SeqNone, SeqShape
<1>2. Shaped(f, d, rec)
  BY DEF Leads, Shaped
<1>3. ASSUME NEW to, NEW c, NEW v, Due(to, c, v)'
      PROVE  Holds(to, c, v)'
  BY <1>1, <1>3 DEF Due, Lasts
<1>4. \A c \in Clusters : fat'[c] = f[c] /\ disk'[c] = d[c]
  BY <1>3 DEF Leads, Holds
<1>5. fat' \in [Clusters -> Nat] /\ disk' \in [Clusters -> Good]
  BY DEF Typed, DiskTyped
<1>6. fat' = f /\ disk' = d
  BY <1>2, <1>4, <1>5 DEF Shaped
<1>7. signature' = TRUE
  BY <1>1 DEF Leads, Typed
<1>8. fat'[INDEX] = f[INDEX] /\ f[INDEX] \in Nat /\ f[INDEX] <= IndexCapacity
  BY <1>2, <1>6 DEF Shaped, IndexRoom
<1>9. IsSeq(index') /\ f[INDEX] <= Len(index')
  BY <1>8 DEF Backed
<1>10. ASSUME NEW i \in 1 .. f[INDEX]
       PROVE  index'[i] = rec[i]
  <2>1. Holds("index", i, rec[i])'
    BY <1>3 DEF Leads
  <2>2. i <= IndexCapacity
    BY <1>8, SizesAssumption
  <2> QED
    BY <2>1, <2>2 DEF Holds
<1>11. /\ DOMAIN SubSeq(index', 1, f[INDEX]) = 1 .. f[INDEX]
       /\ \A i \in 1 .. f[INDEX] : SubSeq(index', 1, f[INDEX])[i] = index'[i]
  BY <1>8, <1>9, FirstPart
<1>12. SubSeq(index', 1, f[INDEX]) = [i \in 1 .. f[INDEX] |-> index'[i]]
  <2>1. Len(index') \in Nat
    BY <1>9, SeqShape
  <2> QED
    BY <1>8, <1>9, <1>11, <2>1 DEF IsSeq
<1>13. SubSeq(index', 1, f[INDEX]) = rec
  BY <1>2, <1>10, <1>12 DEF Shaped
<1> QED
  BY <1>6, <1>7, <1>8, <1>13

----------------------------------------------------------------------------
(* A call that starts aims at the disk of one step. *)

Clusterwise(s, k, cl, val) ==
    /\ DOMAIN s = 1 .. k
    /\ \A i \in 1 .. k : s[i] = ToCluster(cl[i], val[i])
    /\ \A i, j \in 1 .. k : cl[i] = cl[j] => val[i] = val[j]

LEMMA ClusterwiseLast ==
    ASSUME NEW k \in Nat, NEW s, NEW cl, NEW val, Clusterwise(s, k, cl, val)
    PROVE  /\ \A i \in 1 .. k : Lasts(s, "disk", cl[i], val[i])
           /\ \A to, x, v : to # "disk" \/ (\A i \in 1 .. k : x # cl[i])
                              => Leaves(s, to, x, v)
BY ClusterWritesLast DEF Clusterwise

LEMMA DueStart ==
    ASSUME UNCHANGED vars, NEW to, NEW c, NEW v,
           Lasts(pending', to, c, v) \/ (Holds(to, c, v) /\ Leaves(pending', to, c, v))
    PROVE  Due(to, c, v)'
<1>1. Holds(to, c, v)' = Holds(to, c, v)
  BY DEF vars, Holds
<1> QED
  BY <1>1 DEF Due

\* What is not written stays.
LEMMA HoldsNow ==
    /\ \A c \in Clusters : Holds("fat", c, fat[c]) /\ Holds("disk", c, disk[c])
    /\ Backed /\ fat[INDEX] \in Nat =>
         \A i \in 1 .. fat[INDEX] : Holds("index", i, index[i])
<1>1. \A c \in Clusters : Holds("fat", c, fat[c]) /\ Holds("disk", c, disk[c])
  BY DEF Holds
<1>2. ASSUME Backed, fat[INDEX] \in Nat, NEW i \in 1 .. fat[INDEX]
      PROVE  Holds("index", i, index[i])
  <2>1. fat[INDEX] <= Len(index) /\ Len(index) \in Nat
    BY <1>2, IndexLength DEF Backed
  <2>2. i <= Len(index)
    BY <1>2, <2>1
  <2> QED
    BY <2>2 DEF Holds
<1> QED
  BY <1>1, <1>2

LEMMA WholeWrites ==
    /\ \A t : \A w \in Range(FatWrites(t)) : Whole(w)
    /\ \A parent, table : \A w \in Range(EntryWrites(parent, table)) : Whole(w)
    /\ \A i, r : Whole(ToRecord(i, r))
    /\ \A c, v : Whole(ToCluster(c, v))
    /\ Whole(ToBoot(TRUE))
<1>1. \A w : w.to \in {"fat", "disk", "index"} => Whole(w)
  BY DEF Whole
<1>2. ASSUME NEW t, NEW w \in Range(FatWrites(t))
      PROVE  Whole(w)
  BY <1>1, FatWritesShape
<1>3. \A c, v : Whole(ToCluster(c, v))
  BY <1>1 DEF ToCluster
<1>4. ASSUME NEW parent, NEW table, NEW w \in Range(EntryWrites(parent, table))
      PROVE  Whole(w)
  <2> DEFINE u == [disk[parent] EXCEPT !.notempty = table.notempty]
  <2>1. w = ToCluster(parent, u) \/ w = ToCluster(parent, table)
    BY <1>4, EntryWritesShape
  <2> HIDE DEF u
  <2> QED
    BY <1>3, <2>1
<1>5. \A i, r : Whole(ToRecord(i, r))
  BY <1>1 DEF ToRecord
<1>6. Whole(ToBoot(TRUE))
  BY DEF Whole, ToBoot
<1> QED
  BY <1>2, <1>3, <1>4, <1>5, <1>6

LEMMA WriteAims ==
    ASSUME Typed, Backed, signature = TRUE,
           NEW parent \in Parents, NEW name \in Names, NEW buf \in Buffers,
           StartWrite(parent, name, buf)
    PROVE  \E f, d, rec : /\ Leads(f, d, rec)'
                          /\ AimsToWrite(parent, name, buf, f, d, rec)'
<1> DEFINE k == ClustersFor(buf)
<1>k. k \in Nat \ {0}
  BY BufferFacts
<1>f. /\ fat \in [Clusters -> Nat] /\ INDEX \in Clusters /\ INDEX \notin Data
      /\ fat[INDEX] \in Nat /\ parent \in Clusters /\ disk \in [Clusters -> Good]
  BY Numbers DEF Typed, DiskTyped
<1>1. PICK s \in FirstFree(disk[parent]), cl \in [1 .. k -> Data] :
         LET table   == Linked(fat, cl)
             content == [i \in DOMAIN cl |-> IF buf = <<>> THEN DirTable(name, parent)
                                                          ELSE FileBlock(buf[i])]
         IN  /\ IsAllocation(fat, cl)
             /\ Begin("write", parent, name, WriteOrder(
                  [i \in DOMAIN cl |-> ToCluster(cl[i], content[i])],
                  EntryWrites(parent,
                     WithEntry(disk[parent], s, name, buf = <<>>, cl[1])),
                  table,
                  <<ToRecord(fat[INDEX] + 1, <<name, parent>>)>>
                     \o FatWrites([table EXCEPT ![INDEX] = fat[INDEX] + 1])))
  BY DEF StartWrite
<1> DEFINE table   == Linked(fat, cl)
           content == [i \in DOMAIN cl |-> IF buf = <<>> THEN DirTable(name, parent)
                                                        ELSE FileBlock(buf[i])]
           v       == WithEntry(disk[parent], s, name, buf = <<>>, cl[1])
           counted == [table EXCEPT ![INDEX] = fat[INDEX] + 1]
           data    == [i \in DOMAIN cl |-> ToCluster(cl[i], content[i])]
           new     == ToRecord(fat[INDEX] + 1, <<name, parent>>)
           E       == EntryWrites(parent, v)
           R       == <<new>>
           A       == (data \o E) \o FatWrites(table)
           B       == R \o FatWrites(counted)
<1>2. /\ pending' = A \o B /\ saved' = Image /\ UNCHANGED vars
  BY <1>1 DEF Begin, WriteOrder
<1>3. PICK f : f = counted
  OBVIOUS
<1>4. PICK d : d = WrittenOn(disk, parent, s, name, buf, cl)
  OBVIOUS
<1>5. PICK rec : rec = Append([i \in 1 .. fat[INDEX] |-> index[i]], <<name, parent>>)
  OBVIOUS
<1>6. /\ f = [c \in Clusters |-> f[c]] /\ f[INDEX] = fat[INDEX] + 1
  BY <1>3, <1>f DEF Linked
<1>7. /\ rec = [i \in 1 .. fat[INDEX] + 1 |-> rec[i]]
      /\ rec[fat[INDEX] + 1] = <<name, parent>>
      /\ \A i \in 1 .. fat[INDEX] : rec[i] = index[i]
  <2> DEFINE old == [i \in 1 .. fat[INDEX] |-> index[i]]
  <2>1. old = [i \in 1 .. fat[INDEX] |-> old[i]] /\ \A i \in 1 .. fat[INDEX] : old[i] = index[i]
    OBVIOUS
  <2> HIDE DEF old
  <2>2. IsSeq(old) /\ Len(old) = fat[INDEX]
    BY <1>f, <2>1, SeqOfAny
  <2>3. rec = Append(old, <<name, parent>>)
    BY <1>5 DEF old
  <2>4. PICK S : old \in Seq(S) /\ <<name, parent>> \in S
    <3>1. old \in Seq(Range(old) \cup {<<name, parent>>})
      BY <2>2 DEF IsSeq
    <3> QED
      BY <3>1
  <2>5. /\ rec \in Seq(S) /\ Len(rec) = fat[INDEX] + 1
        /\ \A i \in 1 .. Len(rec) : rec[i] = IF i <= Len(old) THEN old[i] ELSE <<name, parent>>
    BY <1>f, <2>2, <2>3, <2>4, AppendProperties
  <2> QED
    BY <1>f, <2>1, <2>2, <2>5
<1>8. Shaped(f, d, rec)
  <2>1. d = [c \in Clusters |-> d[c]]
    BY <1>4 DEF WrittenOn
  <2> QED
    BY <1>f, <1>6, <1>7, <2>1 DEF Shaped
<1>9. AimsToWrite(parent, name, buf, f, d, rec)'
  <2>1. saved'.fat = fat /\ saved'.disk = disk /\ saved'.index = index
    BY <1>2 DEF Image
  <2>2. Count' = fat[INDEX]
    BY <2>1 DEF Count
  <2>3. Records' = [i \in 1 .. fat[INDEX] |-> index[i]]
    BY <2>1, <2>2 DEF Records
  <2>4. /\ saved'.disk[parent].dir /\ ~IsDuplicate(saved'.disk[parent], name)
        /\ Cardinality(Available(saved'.fat)) >= Len(buf)
    BY <2>1, Zenon DEF StartWrite
  <2>5. /\ IsAllocation(saved'.fat, cl) /\ s \in FirstFree(saved'.disk[parent])
        /\ f = [Linked(saved'.fat, cl) EXCEPT ![INDEX] = Count' + 1]
        /\ d = WrittenOn(saved'.disk, parent, s, name, buf, cl)
    BY <1>1, <1>3, <1>4, <2>1, <2>2
  <2>6. rec = Append(Records', <<name, parent>>)
    BY <1>5, <2>3
  <2> QED
    BY <2>4, <2>5, <2>6, Zenon DEF AimsToWrite
<1>10. /\ DOMAIN data = 1 .. k /\ data = [i \in 1 .. k |-> data[i]]
       /\ \A i \in 1 .. k : data[i] = ToCluster(cl[i], content[i])
  OBVIOUS
<1>11. \A i, j \in 1 .. k : cl[i] = cl[j] => content[i] = content[j]
  <2>1. cl \in [1 .. k -> Data \cup {NOCLUSTER}] /\ \A i \in 1 .. k : cl[i] # NOCLUSTER
    BY Numbers
  <2>2. \A i, j \in 1 .. k : cl[i] = cl[j] => i = j
    BY <1>1, <1>k, <2>1, AllocationFacts
  <2> QED
    BY <2>2
<1>12. ASSUME NEW c \in Clusters
       PROVE  \/ c = parent /\ d[c] = v
              \/ /\ c # parent
                 /\ \E i \in 1 .. k : cl[i] = c /\ d[c] = content[i]
              \/ /\ c # parent /\ d[c] = disk[c]
                 /\ \A i \in 1 .. k : c # cl[i]
  <2>1. DOMAIN cl = 1 .. k
    OBVIOUS
  <2>2. CASE c = parent
    <3>1. d[c] = v
      BY <1>4, <2>2 DEF WrittenOn
    <3> QED
      BY <2>2, <3>1
  <2>3. CASE c # parent /\ \E i \in DOMAIN cl : cl[i] = c
    <3>1. PositionIn(cl, c) \in 1 .. k /\ cl[PositionIn(cl, c)] = c
      BY <2>1, <2>3 DEF PositionIn
    <3>2. d[c] = content[PositionIn(cl, c)]
      BY <1>4, <2>1, <2>3, <3>1 DEF WrittenOn
    <3> HIDE DEF content
    <3> QED
      BY <2>3, <3>1, <3>2
  <2>4. CASE c # parent /\ ~\E i \in DOMAIN cl : cl[i] = c
    <3>1. d[c] = disk[c]
      BY <1>4, <2>4 DEF WrittenOn
    <3> QED
      BY <2>1, <2>4, <3>1
  <2> QED
    BY <2>2, <2>3, <2>4
<1> DEFINE F == FatWrites(table)
           G == FatWrites(counted)
<1> HIDE DEF k, table, content, v, counted, data
<1>13. /\ IsSeq(data)
       /\ \A i \in 1 .. k : Lasts(data, "disk", cl[i], content[i])
       /\ \A to, x, u : to # "disk" \/ (\A i \in 1 .. k : x # cl[i])
                            => Leaves(data, to, x, u)
  <2>1. IsSeq(data)
    BY <1>10, <1>k, SeqOfAny
  <2> QED
    <3>1. Clusterwise(data, k, cl, content)
      BY <1>10, <1>11 DEF Clusterwise
    <3>2. k \in Nat
      BY <1>k
    <3>3. /\ \A i \in 1 .. k : Lasts(data, "disk", cl[i], content[i])
          /\ \A to, x, u : to # "disk" \/ (\A i \in 1 .. k : x # cl[i])
                            => Leaves(data, to, x, u)
      BY <3>1, <3>2, ClusterwiseLast
    <3> QED
      BY <2>1, <3>3
<1>14. IsSeq(E) /\ IsSeq(F) /\ IsSeq(R) /\ IsSeq(G)
  BY EntryWritesShape, FatWritesShape, SeqOne
<1>15. /\ Lasts(E, "disk", parent, v)
       /\ \A to, x, u : to # "disk" \/ x # parent => Leaves(E, to, x, u)
  <2>1. PICK e : e = EntryWrites(parent, v)
    OBVIOUS
  <2>2. Lasts(e, "disk", parent, v)
    BY <2>1, EntryWritesLast, Zenon
  <2>3. \A to, x, u : to # "disk" \/ x # parent => Leaves(e, to, x, u)
    BY <2>1, EntryWritesLast, Zenon
  <2> QED
    BY <2>1, <2>2, <2>3, Zenon
<1>16. /\ \A c \in Clusters : Lasts(G, "fat", c, f[c])
       /\ \A to, x, u : to # "fat" => Leaves(F, to, x, u) /\ Leaves(G, to, x, u)
  <2>1. PICK g : g = FatWrites(counted)
    OBVIOUS
  <2>2. PICK h : h = FatWrites(table)
    OBVIOUS
  <2>3. \A c \in Clusters : Lasts(g, "fat", c, counted[c])
    BY <2>1, FatWritesLast, Zenon
  <2>4. \A to, x, u : to # "fat" => Leaves(g, to, x, u) /\ Leaves(h, to, x, u)
    BY <1>f, <2>1, <2>2, FatWritesLast, Zenon
  <2> QED
    BY <1>3, <2>1, <2>2, <2>3, <2>4, Zenon
<1>17. /\ Lasts(R, "index", fat[INDEX] + 1, <<name, parent>>)
       /\ \A to, x, u : to # "index" \/ x # fat[INDEX] + 1 => Leaves(R, to, x, u)
  <2>1. DOMAIN R = {1} /\ R[1] = new
    OBVIOUS
  <2>2. new.to = "index" /\ new.at = fat[INDEX] + 1 /\ new.value = <<name, parent>>
    BY WriteFields
  <2> HIDE DEF R, new
  <2>3. Lasts(R, "index", fat[INDEX] + 1, <<name, parent>>)
    <3>1. /\ Touches(R[1], "index", fat[INDEX] + 1)
          /\ Puts(R[1], "index", fat[INDEX] + 1) = <<name, parent>>
      BY <2>1, <2>2 DEF Touches, Puts
    <3>2. 1 \in DOMAIN R /\ \A p \in DOMAIN R : ~(p > 1)
      BY <2>1
    <3> QED
      BY <3>1, <3>2 DEF Lasts
  <2>4. ASSUME NEW to, NEW x, NEW u, to # "index" \/ x # fat[INDEX] + 1
        PROVE  Leaves(R, to, x, u)
    BY <2>1, <2>2, <2>4 DEF Leaves, Touches
  <2> QED
    BY <2>3, <2>4
<1>18. A = (data \o E) \o F /\ B = R \o G
  BY DEF A, B, F, G
<1> HIDE DEF E, R, A, B, F, G, new
<1>19. /\ IsSeq(data \o E) /\ IsSeq(A) /\ IsSeq(B)
       /\ Range(pending') = Range(data) \cup Range(E) \cup Range(F) \cup Range(R) \cup Range(G)
  <2>1. IsSeq(data \o E) /\ Range(data \o E) = Range(data) \cup Range(E)
    BY <1>13, <1>14, SeqJoin
  <2>2. IsSeq(A) /\ Range(A) = Range(data \o E) \cup Range(F)
    BY <1>14, <1>18, <2>1, SeqJoin
  <2>3. IsSeq(B) /\ Range(B) = Range(R) \cup Range(G)
    BY <1>14, <1>18, SeqJoin
  <2>4. Range(pending') = Range(A) \cup Range(B)
    BY <1>2, <2>2, <2>3, SeqJoin
  <2> QED
    BY <2>1, <2>2, <2>3, <2>4
\* The parts of the sequence, joined.
<1>20. ASSUME NEW to, NEW x, NEW u
       PROVE  /\ Lasts(B, to, x, u) => Lasts(pending', to, x, u)
              /\ Lasts(A, to, x, u) /\ Leaves(B, to, x, u) => Lasts(pending', to, x, u)
              /\ Leaves(A, to, x, u) /\ Leaves(B, to, x, u) => Leaves(pending', to, x, u)
  BY <1>2, <1>19, JoinedWrites
<1>21. ASSUME NEW to, NEW x, NEW u
       PROVE  /\ Lasts(data \o E, to, x, u) /\ Leaves(F, to, x, u) => Lasts(A, to, x, u)
              /\ Leaves(data \o E, to, x, u) /\ Leaves(F, to, x, u) => Leaves(A, to, x, u)
              /\ Lasts(E, to, x, u) => Lasts(data \o E, to, x, u)
              /\ Lasts(data, to, x, u) /\ Leaves(E, to, x, u) => Lasts(data \o E, to, x, u)
              /\ Leaves(data, to, x, u) /\ Leaves(E, to, x, u)
                   => Leaves(data \o E, to, x, u)
              /\ Lasts(G, to, x, u) => Lasts(B, to, x, u)
              /\ Lasts(R, to, x, u) /\ Leaves(G, to, x, u) => Lasts(B, to, x, u)
              /\ Leaves(R, to, x, u) /\ Leaves(G, to, x, u) => Leaves(B, to, x, u)
  BY <1>13, <1>14, <1>18, <1>19, JoinedWrites
<1>22. ASSUME NEW c \in Clusters
       PROVE  Due("fat", c, f[c])' /\ Due("disk", c, d[c])'
  <2>1. Lasts(pending', "fat", c, f[c])
    BY <1>16, <1>20, <1>21
  <2>2. \A u : Leaves(B, "disk", c, u) /\ Leaves(F, "disk", c, u)
    BY <1>16, <1>17, <1>21
  <2>3. \/ Lasts(pending', "disk", c, d[c])
        \/ Holds("disk", c, d[c]) /\ Leaves(pending', "disk", c, d[c])
    <3>1. CASE c = parent /\ d[c] = v
      BY <1>15, <1>20, <1>21, <2>2, <3>1
    <3>2. CASE /\ c # parent
               /\ \E i \in 1 .. k : cl[i] = c /\ d[c] = content[i]
      <4>1. Lasts(data, "disk", c, d[c])
        BY <1>13, <3>2
      <4>2. Leaves(E, "disk", c, d[c])
        BY <1>15, <3>2
      <4> QED
        BY <1>20, <1>21, <2>2, <4>1, <4>2
    <3>3. CASE /\ c # parent /\ d[c] = disk[c]
               /\ \A i \in 1 .. k : c # cl[i]
      <4>1. Leaves(data, "disk", c, d[c])
        BY <1>13, <3>3
      <4>2. Leaves(E, "disk", c, d[c])
        BY <1>15, <3>3
      <4>3. Holds("disk", c, d[c])
        BY <3>3, HoldsNow
      <4> QED
        BY <1>20, <1>21, <2>2, <4>1, <4>2, <4>3
    <3> QED
      BY <1>12, <3>1, <3>2, <3>3
  <2> QED
    BY <1>2, <2>1, <2>3, DueStart
<1>23. ASSUME NEW i \in 1 .. f[INDEX]
       PROVE  Due("index", i, rec[i])'
  <2>1. CASE i = fat[INDEX] + 1
    <3>1. Lasts(B, "index", i, rec[i])
      BY <1>7, <1>16, <1>17, <1>21, <2>1
    <3> QED
      BY <1>2, <1>20, <3>1, DueStart
  <2>2. CASE i # fat[INDEX] + 1
    <3>1. i \in 1 .. fat[INDEX]
      BY <1>6, <1>f, <2>2
    <3>2. Holds("index", i, rec[i])
      BY <1>7, <1>f, <3>1, HoldsNow
    <3>3. Leaves(A, "index", i, rec[i])
      BY <1>13, <1>15, <1>16, <1>21
    <3>4. Leaves(B, "index", i, rec[i])
      BY <1>16, <1>17, <1>21, <2>2
    <3>5. Leaves(pending', "index", i, rec[i])
      BY <1>20, <3>3, <3>4
    <3> QED
      BY <1>2, <3>2, <3>5, DueStart
  <2> QED
    BY <2>1, <2>2
<1>24. \A w \in Range(pending') : Whole(w)
  <2>1. \A w \in Range(data) : Whole(w)
    BY <1>10, WholeWrites DEF Range
  <2>2. \A w \in Range(R) : Whole(w)
    <3>1. Range(R) = {new}
      BY SeqOne DEF R
    <3> QED
      BY <3>1, WholeWrites DEF new
  <2> QED
    BY <1>19, <2>1, <2>2, WholeWrites DEF E, F, G
<1>25. Leads(f, d, rec)'
  <2>1. signature' = TRUE
    BY <1>2 DEF vars
  <2> QED
    BY <1>8, <1>22, <1>23, <1>24, <2>1 DEF Leads, Shaped, Whole
<1> QED
  BY <1>9, <1>25

\* Formatting aims at the disk of one step of Fat32.
LEMMA FormatAims ==
    ASSUME Typed, Backed, StartFormat, fat = ZeroTable, Count' = 0
    PROVE  \E f, d, rec : Leads(f, d, rec)' /\ AimsToFormat(f, d, rec)'
<1>f. /\ fat \in [Clusters -> Nat] /\ INDEX \in Clusters
      /\ ROOT \in Clusters /\ disk \in [Clusters -> Good]
  BY Numbers DEF Typed, DiskTyped
<1> DEFINE first == [c \in Clusters |-> IF c \in {4, 5} THEN EMPTY
                                                       ELSE FormattedTable[c]]
           t     == DirTable(NoName, ROOT)
           a     == ToBoot(TRUE)
           b     == ToCluster(ROOT, t)
           X     == FatWrites(first)
           M     == <<a, b>>
           G     == FatWrites(FormattedTable)
<1>1. pending' = (X \o M) \o G /\ saved' = Image /\ UNCHANGED vars
  BY DEF StartFormat, Begin
<1>2. PICK f : f = FormattedTable
  OBVIOUS
<1>3. PICK d : d = [disk EXCEPT ![ROOT] = t]
  OBVIOUS
<1>4. f = [c \in Clusters |-> f[c]] /\ f[INDEX] = 0
  BY <1>2, SizesAssumption DEF FormattedTable, INDEX, ROOT, EMPTY, Clusters, FIRST_DATA
<1>5. /\ d = [c \in Clusters |-> d[c]] /\ d[ROOT] = t
      /\ \A c \in Clusters \ {ROOT} : d[c] = disk[c]
  BY <1>3, <1>f
<1>6. PICK rec : rec = <<>>
  OBVIOUS
<1>7. rec = [i \in 1 .. f[INDEX] |-> rec[i]]
  BY <1>4, <1>6
<1>8. Shaped(f, d, rec)
  BY <1>4, <1>5, <1>7 DEF Shaped
<1>9. AimsToFormat(f, d, rec)'
  <2>1. saved'.signature = signature /\ saved'.disk = disk /\ mounted' = mounted
    BY <1>1 DEF Image, vars
  <2>2. ~mounted /\ ~signature
    BY DEF StartFormat, Unformatted
  <2>3. d = [saved'.disk EXCEPT ![ROOT] = DirTable(NoName, ROOT)]
    BY <1>3, <2>1
  <2> QED
    BY <1>2, <1>6, <2>1, <2>2, <2>3, Zenon DEF AimsToFormat
<1> HIDE DEF first, t
<1>10. /\ IsSeq(X) /\ IsSeq(M) /\ IsSeq(G)
       /\ Range(M) = {a, b}
  BY FatWritesShape, SeqTwo
<1>11. /\ \A c \in Clusters : Lasts(G, "fat", c, f[c])
       /\ \A to, x, u : to # "fat" => Leaves(X, to, x, u) /\ Leaves(G, to, x, u)
  <2>1. PICK g : g = FatWrites(FormattedTable)
    OBVIOUS
  <2>2. PICK h : h = FatWrites(first)
    OBVIOUS
  <2>3. \A c \in Clusters : Lasts(g, "fat", c, FormattedTable[c])
    BY <2>1, FatWritesLast, Zenon
  <2>4. \A to, x, u : to # "fat" => Leaves(g, to, x, u) /\ Leaves(h, to, x, u)
    BY <1>f, <2>1, <2>2, FatWritesLast, Zenon
  <2> QED
    BY <1>2, <2>1, <2>2, <2>3, <2>4, Zenon
<1>12. /\ Lasts(M, "disk", ROOT, t)
       /\ \A x, u : x # ROOT => Leaves(M, "disk", x, u)
  <2>1. /\ M[1].to = "boot" /\ M[2].to = "disk" /\ M[2].at = ROOT /\ M[2].value = t
    BY DEF ToBoot, ToCluster
  <2>2. DOMAIN M = {1, 2}
    OBVIOUS
  <2> HIDE DEF M
  <2>3. Lasts(M, "disk", ROOT, t)
    BY <2>1, <2>2 DEF Lasts, Touches, Puts
  <2>4. ASSUME NEW x, NEW u, x # ROOT
        PROVE  Leaves(M, "disk", x, u)
    BY <2>1, <2>2, <2>4 DEF Leaves, Touches, Puts
  <2> QED
    BY <2>3, <2>4
<1> HIDE DEF X, M, G
<1>13. /\ IsSeq(X \o M)
       /\ Range(pending') = (Range(X) \cup Range(M)) \cup Range(G)
  <2>1. IsSeq(X \o M) /\ Range(X \o M) = Range(X) \cup Range(M)
    BY <1>10, SeqJoin
  <2>2. Range((X \o M) \o G) = Range(X \o M) \cup Range(G)
    BY <1>10, <2>1, SeqJoin
  <2> QED
    BY <1>1, <2>1, <2>2
<1>14. ASSUME NEW to, NEW x, NEW u
       PROVE  /\ Lasts(G, to, x, u) => Lasts(pending', to, x, u)
              /\ Lasts(X \o M, to, x, u) /\ Leaves(G, to, x, u) => Lasts(pending', to, x, u)
              /\ Leaves(X \o M, to, x, u) /\ Leaves(G, to, x, u)
                   => Leaves(pending', to, x, u)
              /\ Lasts(M, to, x, u) => Lasts(X \o M, to, x, u)
              /\ Leaves(X, to, x, u) /\ Leaves(M, to, x, u) => Leaves(X \o M, to, x, u)
  BY <1>1, <1>10, <1>13, JoinedWrites
<1>15. ASSUME NEW c \in Clusters
       PROVE  Due("fat", c, f[c])' /\ Due("disk", c, d[c])'
  <2>1. Due("fat", c, f[c])'
    BY <1>1, <1>11, <1>14, DueStart
  <2>2. CASE c = ROOT
    BY <1>1, <1>5, <1>11, <1>12, <1>14, <2>1, <2>2, DueStart
  <2>3. CASE c # ROOT
    <3>1. Holds("disk", c, d[c])
      BY <1>5, <2>3, HoldsNow
    <3>2. Leaves(pending', "disk", c, d[c])
      BY <1>11, <1>12, <1>14, <2>3
    <3> QED
      BY <1>1, <2>1, <3>1, <3>2, DueStart
  <2> QED
    BY <2>2, <2>3
<1>16. \A w \in Range(pending') : Whole(w)
  BY <1>10, <1>13, WholeWrites DEF a, b, X, G
<1>17. \E w \in Range(pending') : w.to = "boot"
  <2>1. a.to = "boot" /\ a \in Range(pending')
    BY <1>10, <1>13 DEF ToBoot
  <2> QED
    BY <2>1
<1>18. Leads(f, d, rec)'
  <2>1. \A i \in 1 .. f[INDEX] : Due("index", i, rec[i])'
    BY <1>4
  <2> QED
    BY <1>8, <1>15, <1>16, <1>17, <2>1 DEF Leads, Shaped, Whole
<1> QED
  BY <1>9, <1>18

----------------------------------------------------------------------------
(* The loop of delete visits the chain of the entry, and nothing else. *)

\* A chain does not come back: it would never end.
LEMMA ChainOnce ==
    ASSUME NEW f, NEW max \in Nat, NEW ch \in SeqUpTo(Data, max), IsChain(f, ch)
    PROVE  \A i, j \in 1 .. Len(ch) : ch[i] = ch[j] => i = j
<1> DEFINE n == Len(ch)
           T == {k \in 0 .. n : \E i \in 1 .. n : i < n - k /\ ch[i] = ch[n - k]}
<1>1. ChainShape(f, ch)
  BY ChainFacts
<1>2. n \in Nat \ {0}
  BY <1>1 DEF ChainShape
<1>3. T = {}
  <2>1. SUFFICES ASSUME T # {}
                 PROVE  FALSE
    OBVIOUS
  <2>2. T \in SUBSET Nat
    BY <1>2
  <2>3. PICK k \in T : \A m \in T : k <= m
    BY <2>1, <2>2, LeastNumber
  <2>4. PICK i \in 1 .. n : i < n - k /\ ch[i] = ch[n - k]
    BY <2>3
  <2>5. k \in 0 .. n /\ n - k \in 1 .. n /\ i < n
    BY <1>2, <2>3, <2>4
  <2>6. f[ch[i]] = ch[i + 1] /\ i + 1 \in 1 .. n /\ ch[i + 1] \in Data
    BY <1>1, <2>4, <2>5 DEF ChainShape
  <2>7. CASE k = 0
    <3>1. f[ch[n - k]] = EOF
      BY <1>1, <1>2, <2>5, <2>7 DEF ChainShape
    <3> QED
      BY <2>4, <2>6, <3>1, Numbers
  <2>8. CASE k # 0
    <3>1. n - k < n /\ k - 1 \in 0 .. n /\ n - (k - 1) = (n - k) + 1
      BY <1>2, <2>5, <2>8
    <3>2. f[ch[n - k]] = ch[(n - k) + 1]
      BY <1>1, <2>5, <3>1 DEF ChainShape
    <3>3. ch[i + 1] = ch[n - (k - 1)]
      BY <2>4, <2>6, <3>1, <3>2
    <3>4. i + 1 < n - (k - 1)
      BY <2>4, <2>5, <3>1
    <3>5. k - 1 \in T
      BY <2>6, <3>1, <3>3, <3>4
    <3>6. k <= k - 1 /\ k \in Nat
      BY <2>3, <2>2, <3>5
    <3> QED
      BY <3>6
  <2> QED
    BY <2>7, <2>8
<1>4. ASSUME NEW i \in 1 .. n, NEW j \in 1 .. n, ch[i] = ch[j], i < j
      PROVE  FALSE
  <2>1. n - j \in 0 .. n /\ n - (n - j) = j
    BY <1>2
  <2>2. n - j \in T
    BY <1>2, <1>4, <2>1
  <2> QED
    BY <1>3, <2>2
<1> HIDE DEF T
<1>5. ASSUME NEW i \in 1 .. n, NEW j \in 1 .. n, ch[i] = ch[j]
      PROVE  i = j
  <2>1. i \in Nat /\ j \in Nat
    BY <1>2
  <2>2. ~(i < j) /\ ~(j < i)
    BY <1>4, <1>5
  <2> QED
    BY <2>1, <2>2
<1> QED
  BY <1>5

\* It is no longer than the disk.
LEMMA ChainShort ==
    ASSUME NEW f, NEW max \in Nat, NEW ch \in SeqUpTo(Data, max), IsChain(f, ch)
    PROVE  Len(ch) \in 1 .. N
<1>1. ChainShape(f, ch)
  BY ChainFacts
<1>2. Len(ch) \in Nat \ {0} /\ \A i \in 1 .. Len(ch) : ch[i] \in Clusters
  BY <1>1, Numbers DEF ChainShape
<1>3. N \in Nat
  BY SizesAssumption
<1>4. /\ IsFiniteSet(Clusters) /\ Cardinality(Clusters) = N
      /\ IsFiniteSet(1 .. Len(ch)) /\ Cardinality(1 .. Len(ch)) = Len(ch)
  <2>1. IsFiniteSet(0 .. N - 1) /\ Cardinality(0 .. N - 1) = N
    BY <1>3, FS_Interval
  <2>2. \A k \in Nat \ {0} : IsFiniteSet(1 .. k) /\ Cardinality(1 .. k) = k
    BY FS_Interval
  <2> QED
    BY <1>2, <2>1, <2>2 DEF Clusters
<1> DEFINE g == [i \in 1 .. Len(ch) |-> ch[i]]
<1>5. g \in [1 .. Len(ch) -> Clusters]
  BY <1>2
<1>6. \A x, y \in 1 .. Len(ch) : g[x] = g[y] => x = y
  BY ChainOnce
<1> HIDE DEF g
<1>7. ~(N < Len(ch))
  BY <1>4, <1>5, <1>6, FS_PigeonHole
<1> QED
  BY <1>2, <1>3, <1>7

LEMMA FirstAll ==
    ASSUME NEW s, IsSeq(s), NEW n \in 0 .. Len(s), NEW t, t = [i \in 1 .. n |-> s[i]]
    PROVE  SubSeq(s, 1, n) = t
<1>1. Len(s) \in Nat
  BY SeqShape
<1> QED
  BY <1>1 DEF IsSeq

\* The part in S of a sequence that is in S up to place n, and not further.
LEMMA WithinPart ==
    ASSUME NEW s, IsSeq(s), NEW S, NEW n \in 0 .. Len(s),
           \A i \in 1 .. Len(s) : s[i] \in S <=> i <= n
    PROVE  WithinOf(s, S) = [i \in 1 .. n |-> s[i]]
<1>1. Len(s) \in Nat /\ DOMAIN s = 1 .. Len(s)
  BY SeqShape
<1>2. {i \in DOMAIN s : s[i] \in S} = 1 .. n
  BY <1>1
<1>3. Cardinality(1 .. n) = n
  <2>1. n \in Int /\ 1 \in Int
    BY <1>1
  <2>2. Cardinality(1 .. n) = IF 1 > n THEN 0 ELSE n - 1 + 1
    BY <2>1, FS_Interval
  <2> QED
    BY <1>1, <2>2
<1>4. WithinOf(s, S) = SubSeq(s, 1, n)
  BY <1>2, <1>3 DEF WithinOf
<1> QED
  BY <1>4, FirstAll

LEMMA VisitsChain ==
    ASSUME NEW max \in Nat, NEW ch \in SeqUpTo(Data, max), IsChain(fat, ch),
           NEW entry, entry.cl = ch[1]
    PROVE  /\ Visits(entry) = ch /\ IsSeq(ch)
           /\ WithinOf(ch, Clusters) = ch
<1> DEFINE way == Steps(ch[1])
           S   == Range(way) \ {EOF}
           n   == Len(ch)
<1>1. ChainShape(fat, ch)
  BY ChainFacts
<1>2. n \in 1 .. N /\ N \in Nat
  BY ChainShort, SizesAssumption
<1>3. \A i \in 1 .. n : ch[i] \in Data
  BY <1>1 DEF ChainShape
<1>4. ch = [i \in 1 .. n |-> ch[i]]
  BY DEF SeqUpTo
<1>5. IsSeq(ch) /\ DOMAIN ch = 1 .. n
  BY <1>2, <1>4, SeqOfAny
<1>6. \A i \in 1 .. N : IF i <= n THEN way[i] = ch[i] ELSE way[i] = EOF
  BY WalkAlong
<1>7. IsSeq(way) /\ DOMAIN way = 1 .. N /\ Len(way) = N
  <2>1. way = [i \in 1 .. N |-> way[i]]
    <3>1. PICK g : IsWalk(g, N, ch[1])
      BY <1>2, WalkExists
    <3>2. IsWalk(way, N, ch[1])
      BY <3>1 DEF IsWalk, Steps, StepFrom
    <3> QED
      BY <3>2 DEF IsWalk
  <2> HIDE DEF way
  <2> QED
    BY <1>2, <2>1, SeqOfAny
<1>8. Visits(entry) = WithinOf(way, S)
  BY DEF Visits
<1> HIDE DEF way
<1>9. \A i \in 1 .. N : way[i] \in S <=> i <= n
  <2> SUFFICES ASSUME NEW i \in 1 .. N
               PROVE  way[i] \in S <=> i <= n
    OBVIOUS
  <2>1. way[i] \in Range(way)
    BY <1>7 DEF Range
  <2>2. CASE i <= n
    <3>1. i \in 1 .. n
      BY <1>2, <2>2
    <3>2. way[i] = ch[i] /\ ch[i] \in Data
      BY <1>3, <1>6, <2>2, <3>1
    <3> QED
      BY <2>1, <2>2, <3>2, Numbers
  <2>3. CASE ~(i <= n)
    <3>1. way[i] = EOF
      BY <1>6, <2>3
    <3> QED
      BY <2>3, <3>1
  <2> QED
    BY <2>2, <2>3
<1> HIDE DEF S
<1>10. WithinOf(way, S) = [i \in 1 .. n |-> way[i]]
  <2>1. n \in 0 .. Len(way)
    BY <1>2, <1>7
  <2> QED
    BY <1>7, <1>9, <2>1, WithinPart
<1>11. [i \in 1 .. n |-> way[i]] = ch
  <2>1. \A i \in 1 .. n : way[i] = ch[i]
    BY <1>2, <1>6
  <2> QED
    BY <1>4, <2>1
<1>12. WithinOf(ch, Clusters) = ch
  <2>1. \A i \in 1 .. n : ch[i] \in Clusters <=> i <= n
    <3>1. Data \subseteq Clusters
      BY Numbers
    <3>2. \A i \in 1 .. n : i <= n
      BY <1>2
    <3> QED
      BY <1>3, <3>1, <3>2
  <2>2. n \in 0 .. n
    BY <1>2
  <2> QED
    BY <1>4, <1>5, <2>1, <2>2, WithinPart
<1> QED
  BY <1>5, <1>8, <1>10, <1>11, <1>12

----------------------------------------------------------------------------
(* A delete that starts aims at the disk of one step. *)

RecordsNow == [i \in 1 .. fat[INDEX] |-> index[i]]

ZeroWrites(ch) == [i \in DOMAIN ch |-> ToCluster(ch[i], Blank)]

\* The writes of a delete whose entry is in slot s and whose clusters are ch.
DeleteParts(parent, name, s, ch, count, at, counted) ==
    /\ s \in FirstNamed(disk[parent], name) /\ s \in Slots
    /\ disk[parent].slot[s].name = name
    /\ ~RefusesDelete(disk[parent].slot[s]) /\ disk[parent].dir
    /\ ch \in SeqUpTo(Data, MaxFragments) /\ IsSeq(ch) /\ IsChain(fat, ch)
    /\ ch[1] = disk[parent].slot[s].cl
    /\ disk[parent].slot[s].dir => ch = <<disk[parent].slot[s].cl>>
    /\ \/ /\ FirstRecord(RecordsNow, <<name, parent>>) = {}
          /\ count = fat[INDEX] /\ at = fat[INDEX] /\ counted = <<>>
       \/ /\ at \in FirstRecord(RecordsNow, <<name, parent>>)
          /\ count = fat[INDEX] - 1
          /\ counted = FatWrites([fat EXCEPT ![INDEX] = count])
    /\ pending' = (ShiftWrites(at) \o counted)
                    \o (ZeroWrites(ch)
                         \o (EntryWrites(parent, ResetTable(disk[parent], s))
                              \o FatWrites([Freed(fat, Range(ch)) EXCEPT ![INDEX] = count])))
    /\ saved' = Image /\ UNCHANGED vars

LEMMA DeleteWrites ==
    ASSUME Typed, Backed, Sound, NEW parent \in Parents, NEW name \in Names,
           StartDelete(parent, name)
    PROVE  \E s, ch, count, at, counted :
             DeleteParts(parent, name, s, ch, count, at, counted)
<1>f. /\ fat \in [Clusters -> Nat] /\ fat[INDEX] \in Nat
      /\ parent \in Clusters /\ disk[parent] \in Good
  BY Numbers DEF Typed, DiskTyped
<1>1. PICK s \in FirstNamed(disk[parent], name) :
         LET entry == disk[parent].slot[s]
             table == Loaded(NoRecord)
             found == FirstRecord(table, <<name, parent>>)
             count == IF found = {} THEN fat[INDEX] ELSE fat[INDEX] - 1
             at    == IF found = {} THEN fat[INDEX] ELSE CHOOSE i \in found : TRUE
             gone  == IF entry.dir THEN <<entry.cl>> ELSE Visits(entry)
             inside == WithinOf(gone, Clusters)
             zeros == [i \in DOMAIN inside |-> ZeroWrite(inside[i])]
         IN  /\ ~RefusesDelete(entry)
             /\ Begin("delete", parent, name, DeleteOrder(
                  ShiftWrites(at),
                  IF found = {} THEN <<>>
                                ELSE FatWrites([fat EXCEPT ![INDEX] = count]),
                  zeros \o
                  IF inside # gone THEN <<Lost>>
                  ELSE EntryWrites(parent, [disk[parent] EXCEPT !.slot[s] = Reset(@)])
                       \o FatWrites([Freed(fat, Range(gone)) EXCEPT ![INDEX] = count])))
  BY DEF StartDelete
<1> DEFINE entry == disk[parent].slot[s]
           table == Loaded(NoRecord)
           found == FirstRecord(table, <<name, parent>>)
           count == IF found = {} THEN fat[INDEX] ELSE fat[INDEX] - 1
           at    == IF found = {} THEN fat[INDEX] ELSE CHOOSE i \in found : TRUE
           gone  == IF entry.dir THEN <<entry.cl>> ELSE Visits(entry)
           inside == WithinOf(gone, Clusters)
           zeros == [i \in DOMAIN inside |-> ZeroWrite(inside[i])]
           v     == ResetTable(disk[parent], s)
           counted == IF found = {} THEN <<>> ELSE FatWrites([fat EXCEPT ![INDEX] = count])
           freed(g) == [Freed(fat, Range(g)) EXCEPT ![INDEX] = count]
           rest  == IF inside # gone THEN <<Lost>>
                    ELSE EntryWrites(parent, v) \o FatWrites(freed(gone))
<1>2. /\ pending' = (ShiftWrites(at) \o counted) \o (zeros \o rest)
      /\ saved' = Image /\ UNCHANGED vars /\ ~RefusesDelete(entry)
  BY <1>1 DEF Begin, ResetTable, DeleteOrder
<1>3. s \in Slots /\ entry.name = name /\ disk[parent].dir
  BY <1>1 DEF FirstNamed, StartDelete
<1> HIDE DEF zeros, rest, counted
<1>4. <<parent, s>> \in Live /\ EntryAt(<<parent, s>>) = entry
      /\ HeadOf(<<parent, s>>) = entry.cl
  <2>1. entry.undelete
    BY <1>f, <1>3, NamesAssumption DEF Good
  <2> QED
    BY <1>3, <2>1 DEF Live, EntryAt, HeadOf
<1>5. PICK ch \in SeqUpTo(Data, MaxFragments) :
        /\ IsChain(fat, ch) /\ ch[1] = entry.cl
        /\ entry.dir => ch = <<entry.cl>>
  <2>1. exhausted = FALSE
    BY DEF Typed
  <2> HIDE DEF entry
  <2> QED
    BY <1>4, <2>1, EntryChain
<1>6. Visits(entry) = ch /\ IsSeq(ch) /\ WithinOf(ch, Clusters) = ch
  <2>1. MaxFragments \in Nat
    BY SizesAssumption
  <2>2. PICK e : e = entry
    OBVIOUS
  <2>3. e.cl = ch[1]
    BY <1>5, <2>2
  <2>4. Visits(e) = ch /\ IsSeq(ch) /\ WithinOf(ch, Clusters) = ch
    BY <1>5, <2>1, <2>3, VisitsChain
  <2> QED
    BY <2>2, <2>4
<1>7. gone = ch /\ inside = ch
  BY <1>5, <1>6
<1>8. zeros = ZeroWrites(ch)
  <2>1. \A i \in DOMAIN ch : ch[i] # 0
    <3>1. \A i \in 1 .. Len(ch) : ch[i] \in Data
      BY <1>5, SizesAssumption, ChainFacts DEF ChainShape
    <3>2. DOMAIN ch = 1 .. Len(ch)
      BY <1>6, SeqShape
    <3> QED
      BY <3>1, <3>2, Numbers DEF EMPTY
  <2>2. zeros = [i \in DOMAIN ch |-> ZeroWrite(ch[i])]
    BY <1>7, Zenon DEF zeros
  <2>3. \A i \in DOMAIN ch : ZeroWrite(ch[i]) = ToCluster(ch[i], Blank)
    BY <2>1, Zenon DEF ZeroWrite
  <2> QED
    BY <2>2, <2>3, Zenon DEF ZeroWrites
<1>9. rest = EntryWrites(parent, v) \o FatWrites(freed(ch))
  BY <1>7, Zenon DEF rest
<1>10. table = RecordsNow
  <2>1. fat[INDEX] <= Len(index) /\ Len(index) \in Nat
    BY IndexLength DEF Backed
  <2>2. \A i \in 1 .. fat[INDEX] : i <= Len(index)
    BY <1>f, <2>1
  <2> QED
    BY <2>2 DEF Loaded, RecordsNow
<1> HIDE DEF table, entry, gone, inside
<1>11. \/ /\ FirstRecord(RecordsNow, <<name, parent>>) = {}
          /\ count = fat[INDEX] /\ at = fat[INDEX] /\ counted = <<>>
       \/ /\ at \in FirstRecord(RecordsNow, <<name, parent>>)
          /\ count = fat[INDEX] - 1
          /\ counted = FatWrites([fat EXCEPT ![INDEX] = count])
  <2>1. found = FirstRecord(RecordsNow, <<name, parent>>)
    BY <1>10
  <2>2. CASE found = {}
    BY <2>1, <2>2 DEF counted
  <2>3. CASE found # {}
    <3>1. at \in found
      BY <2>3
    <3>2. count = fat[INDEX] - 1
      BY <2>3
    <3>3. counted = FatWrites([fat EXCEPT ![INDEX] = count])
      BY <2>3, Zenon DEF counted
    <3> HIDE DEF at, count, found
    <3> QED
      BY <2>1, <3>1, <3>2, <3>3
  <2> QED
    BY <2>2, <2>3
<1> HIDE DEF at, count
<1>12. pending' = (ShiftWrites(at) \o counted)
                    \o (ZeroWrites(ch)
                         \o (EntryWrites(parent, ResetTable(disk[parent], s))
                              \o FatWrites([Freed(fat, Range(ch)) EXCEPT ![INDEX] = count])))
  BY <1>2, <1>8, <1>9, Zenon
<1>13. DeleteParts(parent, name, s, ch, count, at, counted)
  BY <1>1, <1>2, <1>3, <1>5, <1>6, <1>11, <1>12, Zenon DEF DeleteParts, entry
<1> QED
  BY <1>13

LEMMA ShiftsLast ==
    ASSUME fat[INDEX] \in Nat, NEW at \in 1 .. fat[INDEX]
    PROVE  /\ IsSeq(ShiftWrites(at))
           /\ \A i \in 1 .. fat[INDEX] - 1 :
                /\ i < at => \A u : Leaves(ShiftWrites(at), "index", i, u)
                /\ i >= at => Lasts(ShiftWrites(at), "index", i, index[i + 1])
           /\ \A to, x, u : to # "index" => Leaves(ShiftWrites(at), to, x, u)
<1> DEFINE n == fat[INDEX] - at
           A == ShiftWrites(at)
<1>1. IsSeq(A)
  BY ShiftWritesShape
<1>2. A = [j \in 1 .. n |-> ToRecord(at + j - 1, index[at + j])] /\ n \in Nat
  BY DEF ShiftWrites
<1> HIDE DEF A
<1>3. DOMAIN A = 1 .. n
  BY <1>2
<1>4. ASSUME NEW j \in 1 .. n
      PROVE  /\ A[j].to = "index" /\ A[j].at = at + j - 1
             /\ A[j].value = index[at + j]
  <2>1. A[j] = ToRecord(at + j - 1, index[at + j])
    BY <1>2
  <2> QED
    BY <2>1, WriteFields
<1>5. ASSUME NEW i \in 1 .. fat[INDEX] - 1, i < at, NEW u
      PROVE  Leaves(A, "index", i, u)
  <2>1. ASSUME NEW j \in 1 .. n
        PROVE  ~Touches(A[j], "index", i)
    <3>1. A[j].at = at + j - 1
      BY <1>4
    <3>2. at + j - 1 # i
      BY <1>2, <1>5
    <3>3. A[j].at # i
      BY <3>1, <3>2
    <3> QED
      BY <3>3 DEF Touches
  <2> QED
    BY <1>3, <2>1 DEF Leaves
<1>6. ASSUME NEW i \in 1 .. fat[INDEX] - 1, i >= at
      PROVE  Lasts(A, "index", i, index[i + 1])
  <2> DEFINE k == i - at + 1
  <2>1. k \in 1 .. n /\ at + k - 1 = i /\ at + k = i + 1
    BY <1>6
  <2> HIDE DEF k
  <2>2. Touches(A[k], "index", i) /\ Puts(A[k], "index", i) = index[i + 1]
    BY <1>4, <2>1 DEF Touches, Puts
  <2>3. ASSUME NEW p \in 1 .. n, Touches(A[p], "index", i)
        PROVE  p = k
    <3>1. A[p].at = i
      BY <2>3 DEF Touches
    <3>2. A[p].at = at + p - 1
      BY <1>4
    <3>3. at + p - 1 = at + k - 1
      BY <2>1, <3>1, <3>2
    <3> QED
      BY <1>2, <2>1, <3>3
  <2> QED
    BY <1>3, <2>1, <2>2, <2>3 DEF Lasts
<1>7. ASSUME NEW to, NEW x, NEW u, to # "index"
      PROVE  Leaves(A, to, x, u)
  BY <1>3, <1>4, <1>7 DEF Leaves, Touches
<1> QED
  BY <1>1, <1>5, <1>6, <1>7 DEF A

LEMMA NoWrites == \A to, x, u : Leaves(<<>>, to, x, u)
BY DEF Leaves

LEMMA DeleteRecordsLast ==
    ASSUME Backed, fat[INDEX] \in Nat, NEW parent, NEW name,
           NEW count, NEW at, NEW counted,
           \/ /\ FirstRecord(RecordsNow, <<name, parent>>) = {}
              /\ count = fat[INDEX] /\ at = fat[INDEX] /\ counted = <<>>
           \/ /\ at \in FirstRecord(RecordsNow, <<name, parent>>)
              /\ count = fat[INDEX] - 1
              /\ counted = FatWrites([fat EXCEPT ![INDEX] = count])
    PROVE  /\ count \in Nat /\ count \in {fat[INDEX] - 1, fat[INDEX]}
           /\ IsSeq(ShiftWrites(at)) /\ IsSeq(counted)
           /\ \A w \in Range(ShiftWrites(at)) \cup Range(counted) : Whole(w)
           /\ \A x, u : Leaves(ShiftWrites(at) \o counted, "disk", x, u)
           /\ \E rec :
                /\ \/ /\ FirstRecord(RecordsNow, <<name, parent>>) = {}
                      /\ count = fat[INDEX] /\ rec = RecordsNow
                   \/ \E i \in FirstRecord(RecordsNow, <<name, parent>>) :
                         count = fat[INDEX] - 1 /\ rec = Without(RecordsNow, i)
                /\ rec = [i \in 1 .. count |-> rec[i]]
                /\ \A i \in 1 .. count :
                     \/ Lasts(ShiftWrites(at) \o counted, "index", i, rec[i])
                     \/ /\ Holds("index", i, rec[i])
                        /\ Leaves(ShiftWrites(at) \o counted, "index", i, rec[i])
<1> DEFINE A == ShiftWrites(at)
           n == fat[INDEX]
<1>w. /\ IsSeq(A) /\ \A w \in Range(A) : Whole(w)
      /\ at \in Int
  <2>1. at \in Int
    <3>1. CASE at = n
      BY <3>1
    <3>2. CASE at \in FirstRecord(RecordsNow, <<name, parent>>)
      <4>1. at \in 1 .. n
        BY <3>2 DEF FirstRecord, RecordsNow
      <4> QED
        BY <4>1
    <3> QED
      BY <3>1, <3>2
  <2>2. IsSeq(A) /\ \A w \in Range(A) : w.to = "index"
    BY <2>1, ShiftWritesShape
  <2> QED
    BY <2>1, <2>2 DEF Whole
<1>h. \A i \in 1 .. n : Holds("index", i, index[i])
  BY HoldsNow
<1>r. DOMAIN RecordsNow = 1 .. n /\ \A i \in 1 .. n : RecordsNow[i] = index[i]
      /\ Len(RecordsNow) = n
  <2>1. RecordsNow = [i \in 1 .. n |-> RecordsNow[i]]
    BY DEF RecordsNow
  <2>2. Len(RecordsNow) = n
    BY <2>1, SeqOfAny
  <2> QED
    BY <2>2 DEF RecordsNow
<1>1. CASE /\ FirstRecord(RecordsNow, <<name, parent>>) = {}
           /\ count = fat[INDEX] /\ at = fat[INDEX] /\ counted = <<>>
  <2>1. A = <<>>
    <3>1. A = [j \in 1 .. (n - at) |-> ToRecord(at + j - 1, index[at + j])]
      BY DEF ShiftWrites
    <3>2. 1 .. (n - at) = {}
      BY <1>1
    <3> HIDE DEF A
    <3>3. DOMAIN A = {}
      BY <3>1, <3>2
    <3> QED
      BY <1>w, <3>3, SeqShape
  <2>2. A \o counted = <<>>
    BY <1>1, <2>1
  <2>3. IsSeq(counted) /\ Range(counted) = {}
    BY <1>1, SeqNone
  <2>4. \A to, x, u : Leaves(A \o counted, to, x, u)
    BY <2>2, NoWrites
  <2>5. PICK rec : rec = RecordsNow
    OBVIOUS
  <2>6. rec = [i \in 1 .. count |-> rec[i]]
    BY <1>1, <2>5 DEF RecordsNow
  <2>7. \A i \in 1 .. count : /\ Holds("index", i, rec[i])
                              /\ Leaves(A \o counted, "index", i, rec[i])
    BY <1>1, <1>h, <1>r, <2>4, <2>5
  <2> HIDE DEF A
  <2>8. count \in Nat /\ count \in {fat[INDEX] - 1, fat[INDEX]}
    BY <1>1
  <2>9. \/ /\ FirstRecord(RecordsNow, <<name, parent>>) = {}
           /\ count = fat[INDEX] /\ rec = RecordsNow
        \/ \E i \in FirstRecord(RecordsNow, <<name, parent>>) :
              count = fat[INDEX] - 1 /\ rec = Without(RecordsNow, i)
    BY <1>1, <2>5
  <2>10. \A w \in Range(A) \cup Range(counted) : Whole(w)
    BY <1>w, <2>3
  <2> QED
    BY <1>w, <2>3, <2>4, <2>6, <2>7, <2>8, <2>9, <2>10, Zenon DEF A
<1>2. CASE /\ at \in FirstRecord(RecordsNow, <<name, parent>>)
           /\ count = fat[INDEX] - 1
           /\ counted = FatWrites([fat EXCEPT ![INDEX] = count])
  <2>1. at \in 1 .. n /\ n \in Nat
    BY <1>2, <1>r DEF FirstRecord
  <2>2. PICK t : t = [fat EXCEPT ![INDEX] = count]
    OBVIOUS
  <2>3. counted = FatWrites(t)
    BY <1>2, <2>2
  <2>4. /\ IsSeq(counted) /\ \A w \in Range(counted) : Whole(w)
        /\ \A to, x, u : to # "fat" => Leaves(counted, to, x, u)
    <3>1. INDEX \in Clusters
      BY Numbers
    <3>2. \A to, x, u : to # "fat" => Leaves(FatWrites(t), to, x, u)
      BY <3>1, FatWritesLast, Zenon
    <3> QED
      BY <2>3, <3>2, FatWritesShape, WholeWrites, Zenon
  <2>5. /\ \A i \in 1 .. n - 1 :
             /\ i < at => \A u : Leaves(A, "index", i, u)
             /\ i >= at => Lasts(A, "index", i, index[i + 1])
        /\ \A to, x, u : to # "index" => Leaves(A, to, x, u)
    BY <2>1, ShiftsLast
  <2> HIDE DEF A
  <2>6. ASSUME NEW to, NEW x, NEW u
        PROVE  /\ Lasts(A, to, x, u) /\ Leaves(counted, to, x, u)
                    => Lasts(A \o counted, to, x, u)
               /\ Leaves(A, to, x, u) /\ Leaves(counted, to, x, u)
                    => Leaves(A \o counted, to, x, u)
    BY <1>w, <2>4, JoinedWrites
  <2>7. \A x, u : Leaves(A \o counted, "disk", x, u)
    BY <2>4, <2>5, <2>6
  <2>8. PICK rec : rec = Without(RecordsNow, at)
    OBVIOUS
  <2>9. /\ rec = [i \in 1 .. count |-> rec[i]]
        /\ \A i \in 1 .. n - 1 : rec[i] = IF i < at THEN index[i] ELSE index[i + 1]
    <3>1. rec = [j \in 1 .. (n - 1) |-> IF j < at THEN RecordsNow[j] ELSE RecordsNow[j + 1]]
      BY <1>r, <2>8 DEF Without
    <3>2. ASSUME NEW i \in 1 .. n - 1
          PROVE  rec[i] = IF i < at THEN index[i] ELSE index[i + 1]
      <4>1. i \in 1 .. n /\ i + 1 \in 1 .. n
        BY <2>1
      <4> QED
        BY <1>r, <3>1, <4>1
    <3>3. count = n - 1
      BY <1>2
    <3> HIDE DEF n
    <3> QED
      BY <3>1, <3>2, <3>3
  <2>10. ASSUME NEW i \in 1 .. count
         PROVE  \/ Lasts(A \o counted, "index", i, rec[i])
                \/ /\ Holds("index", i, rec[i])
                   /\ Leaves(A \o counted, "index", i, rec[i])
    <3>1. i \in 1 .. n - 1 /\ i \in 1 .. n
      BY <1>2, <2>1
    <3>2. CASE i < at
      <4>1. rec[i] = index[i]
        BY <2>9, <3>1, <3>2
      <4>2. Leaves(A \o counted, "index", i, rec[i])
        BY <2>4, <2>5, <2>6, <3>1, <3>2
      <4>3. Holds("index", i, rec[i])
        BY <1>h, <3>1, <4>1
      <4> QED
        BY <4>2, <4>3
    <3>3. CASE ~(i < at)
      <4>1. rec[i] = index[i + 1]
        BY <2>9, <3>1, <3>3
      <4>2. i >= at
        BY <2>1, <3>1, <3>3
      <4>3. Lasts(A, "index", i, rec[i])
        BY <2>5, <3>1, <4>1, <4>2
      <4> QED
        BY <2>4, <2>6, <4>3
    <3> QED
      BY <3>2, <3>3
  <2>11. count \in Nat /\ count \in {fat[INDEX] - 1, fat[INDEX]}
    BY <1>2, <2>1
  <2>12. \/ /\ FirstRecord(RecordsNow, <<name, parent>>) = {}
            /\ count = fat[INDEX] /\ rec = RecordsNow
         \/ \E i \in FirstRecord(RecordsNow, <<name, parent>>) :
               count = fat[INDEX] - 1 /\ rec = Without(RecordsNow, i)
    BY <1>2, <2>8
  <2>13. \A w \in Range(A) \cup Range(counted) : Whole(w)
    BY <1>w, <2>4
  <2> QED
    BY <1>w, <2>4, <2>7, <2>9, <2>10, <2>11, <2>12, <2>13, Zenon DEF A
<1> QED
  BY <1>1, <1>2

LEMMA ZerosLast ==
    ASSUME NEW ch, IsSeq(ch)
    PROVE  /\ IsSeq(ZeroWrites(ch)) /\ \A w \in Range(ZeroWrites(ch)) : Whole(w)
           /\ \A c \in Range(ch) : Lasts(ZeroWrites(ch), "disk", c, Blank)
           /\ \A to, x, u : to # "disk" \/ x \notin Range(ch)
                                => Leaves(ZeroWrites(ch), to, x, u)
<1> DEFINE s == ZeroWrites(ch)
           k == Len(ch)
           val == [i \in 1 .. k |-> Blank]
<1>1. k \in Nat /\ DOMAIN ch = 1 .. k
  BY SeqShape
<1>2. s = [i \in 1 .. k |-> ToCluster(ch[i], Blank)]
  BY <1>1 DEF ZeroWrites
<1>3. /\ DOMAIN s = 1 .. k /\ s = [i \in 1 .. k |-> s[i]]
      /\ \A i \in 1 .. k : s[i] = ToCluster(ch[i], Blank)
  BY <1>2
<1> HIDE DEF s, k
<1>4. \A i \in 1 .. k : val[i] = Blank
  OBVIOUS
<1> HIDE DEF val
<1>5. Clusterwise(s, k, ch, val)
  BY <1>3, <1>4 DEF Clusterwise
<1>6. /\ \A i \in 1 .. k : Lasts(s, "disk", ch[i], val[i])
      /\ \A to, x, v : to # "disk" \/ (\A i \in 1 .. k : x # ch[i])
                         => Leaves(s, to, x, v)
  BY <1>1, <1>5, ClusterwiseLast
<1>7. IsSeq(s)
  BY <1>1, <1>3, SeqOfAny
<1>8. \A w \in Range(s) : Whole(w)
  BY <1>3, WholeWrites DEF Range
<1>9. \A c \in Range(ch) : Lasts(s, "disk", c, Blank)
  BY <1>1, <1>4, <1>6 DEF Range
<1>10. \A x : x \notin Range(ch) => \A i \in 1 .. k : x # ch[i]
  BY <1>1 DEF Range
<1> QED
  BY <1>6, <1>7, <1>8, <1>9, <1>10 DEF s

LEMMA DeleteAims ==
    ASSUME Typed, Backed, Sound, signature = TRUE,
           NEW parent \in Parents, NEW name \in Names, StartDelete(parent, name)
    PROVE  \E s, f, d, rec :
             /\ Leads(f, d, rec)'
             /\ s \in FirstNamed(saved'.disk[parent], name)
             /\ ~RefusesDelete(saved'.disk[parent].slot[s])
             /\ saved'.disk[parent].dir
             /\ AimsToDelete(parent, s, f, d, rec)'
<1>f. /\ fat \in [Clusters -> Nat] /\ fat[INDEX] \in Nat
      /\ INDEX \in Clusters /\ INDEX \notin Data /\ Data \subseteq Clusters
      /\ parent \in Clusters /\ disk[parent] \in Good /\ disk \in [Clusters -> Good]
  BY Numbers DEF Typed, DiskTyped
<1>1. PICK s, ch, count, at, counted :
             DeleteParts(parent, name, s, ch, count, at, counted)
  BY DeleteWrites
<1> DEFINE v  == ResetTable(disk[parent], s)
           t  == [Freed(fat, Range(ch)) EXCEPT ![INDEX] = count]
           A  == ShiftWrites(at)
           Z  == ZeroWrites(ch)
           E  == EntryWrites(parent, v)
           F  == FatWrites(t)
           C  == A \o counted
           EF == E \o F
           D  == Z \o EF
<1>2. /\ pending' = C \o D /\ saved' = Image /\ UNCHANGED vars
      /\ s \in FirstNamed(disk[parent], name) /\ s \in Slots
      /\ disk[parent].slot[s].name = name
      /\ ~RefusesDelete(disk[parent].slot[s]) /\ disk[parent].dir
  BY <1>1, Zenon DEF DeleteParts
<1>3. /\ ch \in SeqUpTo(Data, MaxFragments) /\ IsSeq(ch) /\ IsChain(fat, ch)
      /\ ch[1] = disk[parent].slot[s].cl
      /\ disk[parent].slot[s].dir => ch = <<disk[parent].slot[s].cl>>
  BY <1>1 DEF DeleteParts
<1>4. \/ /\ FirstRecord(RecordsNow, <<name, parent>>) = {}
         /\ count = fat[INDEX] /\ at = fat[INDEX] /\ counted = <<>>
      \/ /\ at \in FirstRecord(RecordsNow, <<name, parent>>)
         /\ count = fat[INDEX] - 1
         /\ counted = FatWrites([fat EXCEPT ![INDEX] = count])
  BY <1>1 DEF DeleteParts
<1>5. /\ count \in Nat /\ count \in {fat[INDEX] - 1, fat[INDEX]}
      /\ IsSeq(A) /\ IsSeq(counted)
      /\ \A w \in Range(A) \cup Range(counted) : Whole(w)
      /\ \A x, u : Leaves(C, "disk", x, u)
  BY <1>f, <1>4, DeleteRecordsLast
<1>6. PICK rec :
        /\ \/ /\ FirstRecord(RecordsNow, <<name, parent>>) = {}
              /\ count = fat[INDEX] /\ rec = RecordsNow
           \/ \E i \in FirstRecord(RecordsNow, <<name, parent>>) :
                 count = fat[INDEX] - 1 /\ rec = Without(RecordsNow, i)
        /\ rec = [i \in 1 .. count |-> rec[i]]
        /\ \A i \in 1 .. count :
             \/ Lasts(C, "index", i, rec[i])
             \/ /\ Holds("index", i, rec[i])
                /\ Leaves(C, "index", i, rec[i])
  BY <1>f, <1>4, DeleteRecordsLast
<1>7. PICK f : f = t
  OBVIOUS
<1>8. PICK d : d = ErasedOn(disk, parent, s, Range(ch))
  OBVIOUS
<1>9. f = [c \in Clusters |-> f[c]] /\ f[INDEX] = count
  BY <1>f, <1>7 DEF Freed
<1> HIDE DEF v, t
<1>10. d = [c \in Clusters |-> d[c]]
  BY <1>8 DEF ErasedOn
<1>11. ASSUME NEW c \in Clusters
       PROVE  \/ c = parent /\ d[c] = v
              \/ c # parent /\ c \in Range(ch) /\ d[c] = Blank
              \/ c # parent /\ c \notin Range(ch) /\ d[c] = disk[c]
  BY <1>8 DEF ErasedOn, v
<1>12. Shaped(f, d, rec)
  BY <1>5, <1>6, <1>9, <1>10 DEF Shaped
<1>13. AimsToDelete(parent, s, f, d, rec)'
  <2>1. saved'.fat = fat /\ saved'.disk = disk /\ saved'.index = index
    BY <1>2 DEF Image
  <2>2. Count' = fat[INDEX]
    BY <2>1 DEF Count
  <2>3. Records' = RecordsNow
    BY <2>1, <2>2 DEF Records, RecordsNow
  <2>4. IF saved'.disk[parent].slot[s].dir
        THEN ch = <<saved'.disk[parent].slot[s].cl>>
        ELSE IsChain(saved'.fat, ch) /\ ch[1] = saved'.disk[parent].slot[s].cl
    BY <1>3, <2>1
  <2>5. \/ /\ FirstRecord(Records', <<saved'.disk[parent].slot[s].name, parent>>) = {}
           /\ count = Count' /\ rec = Records'
        \/ \E i \in FirstRecord(Records',
                                <<saved'.disk[parent].slot[s].name, parent>>) :
              count = Count' - 1 /\ rec = Without(Records', i)
    BY <1>2, <1>6, <2>1, <2>2, <2>3
  <2>6. f = [Freed(saved'.fat, Range(ch)) EXCEPT ![INDEX] = count]
    BY <1>7, <2>1 DEF t
  <2>7. d = ErasedOn(saved'.disk, parent, s, Range(ch))
    BY <1>8, <2>1
  <2>8. count \in {Count' - 1, Count'}
    BY <1>5, <2>2
  <2> QED
    BY <1>3, <2>4, <2>5, <2>6, <2>7, <2>8, Zenon DEF AimsToDelete
<1>14. /\ IsSeq(Z) /\ \A w \in Range(Z) : Whole(w)
       /\ \A c \in Range(ch) : Lasts(Z, "disk", c, Blank)
       /\ \A to, x, u : to # "disk" \/ x \notin Range(ch) => Leaves(Z, to, x, u)
  BY <1>3, ZerosLast
<1>15. /\ IsSeq(E) /\ IsSeq(F)
       /\ \A w \in Range(E) \cup Range(F) : Whole(w)
  BY EntryWritesShape, FatWritesShape, WholeWrites
<1>16. /\ Lasts(E, "disk", parent, v)
       /\ \A to, x, u : to # "disk" \/ x # parent => Leaves(E, to, x, u)
  <2>1. PICK e : e = EntryWrites(parent, v)
    OBVIOUS
  <2>2. Lasts(e, "disk", parent, v)
    BY <2>1, EntryWritesLast, Zenon
  <2>3. \A to, x, u : to # "disk" \/ x # parent => Leaves(e, to, x, u)
    BY <2>1, EntryWritesLast, Zenon
  <2> QED
    BY <2>1, <2>2, <2>3, Zenon
<1>17. /\ \A c \in Clusters : Lasts(F, "fat", c, f[c])
       /\ \A to, x, u : to # "fat" => Leaves(F, to, x, u)
  <2>1. PICK g : g = FatWrites(t)
    OBVIOUS
  <2>3. \A c \in Clusters : Lasts(g, "fat", c, t[c])
    BY <2>1, FatWritesLast, Zenon
  <2>4. \A to, x, u : to # "fat" => Leaves(g, to, x, u)
    BY <1>f, <2>1, FatWritesLast, Zenon
  <2> QED
    BY <1>7, <2>1, <2>3, <2>4, Zenon
<1> HIDE DEF A, Z, E, F
<1>18. /\ IsSeq(C) /\ IsSeq(EF) /\ IsSeq(D)
       /\ Range(pending') = (Range(A) \cup Range(counted))
                              \cup (Range(Z) \cup (Range(E) \cup Range(F)))
  <2>1. IsSeq(C) /\ Range(C) = Range(A) \cup Range(counted)
    BY <1>5, SeqJoin
  <2>2. IsSeq(EF) /\ Range(EF) = Range(E) \cup Range(F)
    BY <1>15, SeqJoin
  <2> HIDE DEF C, EF
  <2>3. IsSeq(D) /\ Range(D) = Range(Z) \cup Range(EF)
    BY <1>14, <2>2, SeqJoin
  <2> HIDE DEF D
  <2>4. Range(pending') = Range(C) \cup Range(D)
    BY <1>2, <2>1, <2>3, SeqJoin
  <2> QED
    BY <2>1, <2>2, <2>3, <2>4
<1>19. \A w \in Range(pending') : Whole(w)
  BY <1>5, <1>14, <1>15, <1>18
<1>20. ASSUME NEW to, NEW x, NEW u
       PROVE  /\ Lasts(F, to, x, u) => Lasts(EF, to, x, u)
              /\ Lasts(E, to, x, u) /\ Leaves(F, to, x, u) => Lasts(EF, to, x, u)
              /\ Leaves(E, to, x, u) /\ Leaves(F, to, x, u) => Leaves(EF, to, x, u)
  BY <1>15, JoinedWrites
<1> HIDE DEF EF
<1>21. ASSUME NEW to, NEW x, NEW u
       PROVE  /\ Lasts(EF, to, x, u) => Lasts(D, to, x, u)
              /\ Lasts(Z, to, x, u) /\ Leaves(EF, to, x, u) => Lasts(D, to, x, u)
              /\ Leaves(Z, to, x, u) /\ Leaves(EF, to, x, u) => Leaves(D, to, x, u)
  BY <1>14, <1>18, JoinedWrites
<1> HIDE DEF C, D
<1>22. ASSUME NEW to, NEW x, NEW u
       PROVE  /\ Lasts(D, to, x, u) => Lasts(pending', to, x, u)
              /\ Lasts(C, to, x, u) /\ Leaves(D, to, x, u) => Lasts(pending', to, x, u)
              /\ Leaves(C, to, x, u) /\ Leaves(D, to, x, u) => Leaves(pending', to, x, u)
  BY <1>2, <1>18, JoinedWrites
<1>23. ASSUME NEW c \in Clusters
       PROVE  Due("fat", c, f[c])' /\ Due("disk", c, d[c])'
  <2>1. Lasts(pending', "fat", c, f[c])
    BY <1>17, <1>20, <1>21, <1>22
  <2>2. \A u : Leaves(F, "disk", c, u) /\ Leaves(C, "disk", c, u)
    BY <1>5, <1>17
  <2>3. \/ Lasts(pending', "disk", c, d[c])
        \/ Holds("disk", c, d[c]) /\ Leaves(pending', "disk", c, d[c])
    <3>1. CASE c = parent /\ d[c] = v
      BY <1>16, <1>20, <1>21, <1>22, <2>2, <3>1
    <3>2. CASE c # parent /\ c \in Range(ch) /\ d[c] = Blank
      <4>1. Lasts(Z, "disk", c, d[c])
        BY <1>14, <3>2
      <4>2. Leaves(E, "disk", c, d[c])
        BY <1>16, <3>2
      <4> QED
        BY <1>20, <1>21, <1>22, <2>2, <4>1, <4>2
    <3>3. CASE c # parent /\ c \notin Range(ch) /\ d[c] = disk[c]
      <4>1. Leaves(Z, "disk", c, d[c])
        BY <1>14, <3>3
      <4>2. Leaves(E, "disk", c, d[c])
        BY <1>16, <3>3
      <4>3. Holds("disk", c, d[c])
        BY <3>3, HoldsNow
      <4> QED
        BY <1>20, <1>21, <1>22, <2>2, <4>1, <4>2, <4>3
    <3> QED
      BY <1>11, <3>1, <3>2, <3>3
  <2> QED
    BY <1>2, <2>1, <2>3, DueStart
<1>24. ASSUME NEW i \in 1 .. f[INDEX]
       PROVE  Due("index", i, rec[i])'
  <2>1. i \in 1 .. count
    BY <1>9
  <2>2. Leaves(D, "index", i, rec[i])
    BY <1>14, <1>16, <1>17, <1>20, <1>21
  <2>3. \/ Lasts(pending', "index", i, rec[i])
        \/ Holds("index", i, rec[i]) /\ Leaves(pending', "index", i, rec[i])
    BY <1>6, <1>22, <2>1, <2>2
  <2> QED
    BY <1>2, <2>3, DueStart
<1>25. Leads(f, d, rec)'
  <2>1. signature' = TRUE
    BY <1>2 DEF vars
  <2> QED
    BY <1>12, <1>19, <1>23, <1>24, <2>1 DEF Leads, Shaped, Whole
<1>26. /\ s \in FirstNamed(saved'.disk[parent], name)
       /\ ~RefusesDelete(saved'.disk[parent].slot[s])
       /\ saved'.disk[parent].dir
  <2>1. saved'.disk = disk
    BY <1>2 DEF Image
  <2> QED
    BY <1>2, <2>1
<1> QED
  BY <1>13, <1>25, <1>26

----------------------------------------------------------------------------
(* Every call aims at the disk of one step, and ends there. *)

\* The running call aims at the disk (f, d, rec).
Aims(f, d, rec) ==
    \/ /\ call.op = "write" /\ mounted = TRUE /\ saved.signature = TRUE
       /\ \E parent \in Parents, name \in Names, buf \in Buffers :
            AimsToWrite(parent, name, buf, f, d, rec)
    \/ /\ call.op = "delete" /\ mounted = TRUE /\ saved.signature = TRUE
       /\ \E parent \in Parents, name \in Names :
          \E s \in FirstNamed(saved.disk[parent], name) :
            /\ ~RefusesDelete(saved.disk[parent].slot[s]) /\ saved.disk[parent].dir
            /\ AimsToDelete(parent, s, f, d, rec)
    \/ call.op = "mount" /\ AimsToFormat(f, d, rec)

Underway == \E f, d, rec : Leads(f, d, rec) /\ Aims(f, d, rec)

\* As long as no machine has stopped inside a call.
Steady ==
    /\ resets \in Nat
    /\ resets = 0 =>
         /\ Saved!Consistent /\ Count <= IndexCapacity
         /\ pending = <<>> => saved = Image
         /\ pending # <<>> => Underway

LEMMA InitSaved ==
    ASSUME InitWrites, Typed, Backed
    PROVE  Saved!Init /\ SavedDisk!Init
<1>1. /\ saved.signature = FALSE /\ saved.fat = ZeroTable
      /\ saved.disk = [c \in Clusters |-> Blank]
      /\ fat_table = ZeroTable /\ mounted = FALSE /\ reply = NoReply /\ exhausted = FALSE
  BY DEF InitWrites, Init, Image
<1>2. SubSeq(saved.index, 1, saved.fat[INDEX]) = <<>>
  <2>1. Count = 0
    <3>1. INDEX \in Clusters
      BY Numbers
    <3> QED
      BY <1>1, <3>1 DEF Count, ZeroTable, EMPTY
  <2>2. Records = <<>>
    BY <2>1 DEF Records
  <2> QED
    BY <2>2, SavedRecords DEF Count
<1>3. /\ Saved!Clusters = Clusters /\ SavedDisk!Clusters = Clusters
      /\ Saved!EMPTY = EMPTY /\ SavedDisk!EMPTY = EMPTY
  BY SMT DEF Saved!Clusters, SavedDisk!Clusters, Clusters, Saved!EMPTY, SavedDisk!EMPTY, EMPTY
<1>4. Saved!ZeroTable = ZeroTable /\ SavedDisk!ZeroTable = ZeroTable
  BY <1>3, SMT DEF Saved!ZeroTable, SavedDisk!ZeroTable, ZeroTable
<1>5. Saved!Blank = Blank /\ SavedDisk!Blank = Blank
  BY SMT DEF Saved!Blank, SavedDisk!Blank, Blank, Saved!FreeEntry, SavedDisk!FreeEntry,
     FreeEntry, Saved!Slots, SavedDisk!Slots, Slots
<1>6. Saved!NoReply = NoReply /\ SavedDisk!NoReply = NoReply
  BY SMT DEF Saved!NoReply, SavedDisk!NoReply, NoReply, Saved!Reply, SavedDisk!Reply, Reply
<1>7. Saved!Init
  BY <1>1, <1>2, <1>3, <1>4, <1>5, <1>6, Zenon DEF Saved!Init
<1>8. SavedDisk!Init
  BY <1>1, <1>2, <1>3, <1>4, <1>5, <1>6, Zenon DEF SavedDisk!Init
<1> QED
  BY <1>7, <1>8

LEMMA SteadyInit ==
    ASSUME InitWrites, Typed, Backed
    PROVE  Saved!Init /\ Steady
<1>1. Saved!Init /\ SavedDisk!Init
  BY InitSaved
<1>2. Saved!Consistent
  <2>1. /\ N \in Nat /\ N > SavedDisk!FIRST_DATA /\ N < SavedDisk!CLUSTER_0
        /\ DirLength \in Nat \ {0} /\ IndexCapacity \in Nat /\ IndexCapacity <= N
        /\ MaxFragments \in Nat \ {0}
    BY SizesAssumption
       DEF SavedDisk!FIRST_DATA, SavedDisk!CLUSTER_0, FIRST_DATA, CLUSTER_0
  <2>2. SavedDisk!Init => SavedDisk!Consistent
    BY SavedDisk!ConsistentInit, <2>1, NamesAssumption, BuffersAssumption
  <2> QED
    BY <1>1, <2>2, SameConsistent
<1>3. Count <= IndexCapacity
  <2>1. saved.fat = ZeroTable
    BY DEF InitWrites, Init, Image
  <2>2. INDEX \in Clusters
    BY Numbers
  <2>3. Count = 0
    BY <2>1, <2>2 DEF Count, ZeroTable, EMPTY
  <2> QED
    BY <2>3, SizesAssumption
<1> QED
  BY <1>1, <1>2, <1>3 DEF Steady, InitWrites

LEMMA SavedRests ==
    ASSUME saved' = saved,
           UNCHANGED <<fat_table, mounted, reply, exhausted>>
    PROVE  UNCHANGED Saved!vars /\ SavedStep
<1>1. UNCHANGED Saved!vars /\ UNCHANGED SavedDisk!vars
  BY DEF Saved!vars, SavedDisk!vars
<1> QED
  BY <1>1 DEF SavedStep

\* What a call that starts finds.
LEMMA StartFinds ==
    ASSUME Typed, Steady, resets = 0, pending = <<>>, saved' = Image, UNCHANGED vars
    PROVE  /\ Saved!Consistent' /\ SavedStep /\ Count' <= IndexCapacity
           /\ saved'.signature = signature /\ Count' = fat[INDEX]
           /\ Sound
           /\ mounted => signature = TRUE
           /\ ~signature => fat = ZeroTable
<1>1. saved' = saved /\ Saved!Consistent /\ Count <= IndexCapacity
  BY DEF Steady
<1>2. UNCHANGED Saved!vars /\ SavedStep
  <2>1. UNCHANGED <<fat_table, mounted, reply, exhausted>>
    BY DEF vars
  <2> QED
    BY <1>1, <2>1, SavedRests
<1>3. Saved!Consistent'
  BY <1>1, <1>2, SavedStays
<1>4. Count' <= IndexCapacity /\ saved'.signature = signature /\ Count' = fat[INDEX]
  BY <1>1 DEF Count, Image
<1>5. Sound
  <2>1. exhausted' = exhausted
    BY DEF vars
  <2>2. SavedSound'
    BY <1>3 DEF Saved!Consistent, SavedSound
  <2> QED
    BY <2>1, <2>2, SavedNow
<1>6. saved.signature = signature /\ saved.fat = fat
  BY <1>1 DEF Image
<1>7. Saved!Fresh
  BY <1>1, Zenon DEF Saved!Consistent
<1>8. mounted => signature = TRUE
  <2>1. mounted => saved.signature
    BY <1>7, Zenon DEF Saved!Fresh
  <2> QED
    BY <1>6, <2>1 DEF Typed
<1>9. ~signature => fat = ZeroTable
  <2>1. ~saved.signature => saved.fat = Saved!ZeroTable
    BY <1>7, Zenon DEF Saved!Fresh
  <2>2. Saved!ZeroTable = ZeroTable
    BY SavedOperators
  <2> QED
    BY <1>6, <2>1, <2>2
<1> QED
  BY <1>2, <1>3, <1>4, <1>5, <1>8, <1>9

LEMMA StartFacts ==
    ASSUME \/ StartFormat
           \/ \E parent \in Parents, name \in Names :
                \/ \E buf \in Buffers : StartWrite(parent, name, buf)
                \/ StartDelete(parent, name)
    PROVE  /\ pending = <<>> /\ saved' = Image /\ UNCHANGED vars /\ resets' = resets
           /\ StartFormat => call'.op = "mount"
           /\ \A parent \in Parents, name \in Names :
                /\ \A buf \in Buffers : StartWrite(parent, name, buf) => call'.op = "write"
                /\ StartDelete(parent, name) => call'.op = "delete"
<1>1. ASSUME NEW op, NEW parent, NEW name, NEW writes, Begin(op, parent, name, writes)
      PROVE  /\ saved' = Image /\ UNCHANGED vars /\ resets' = resets
             /\ call'.op = op
  BY <1>1 DEF Begin
<1>2. StartFormat => /\ pending = <<>> /\ saved' = Image /\ UNCHANGED vars
                     /\ resets' = resets /\ call'.op = "mount"
  BY <1>1, Zenon DEF StartFormat, Unformatted
<1>3. ASSUME NEW parent, NEW name, NEW buf, StartWrite(parent, name, buf)
      PROVE  /\ pending = <<>> /\ saved' = Image /\ UNCHANGED vars
             /\ resets' = resets /\ call'.op = "write"
  <2>1. pending = <<>>
    BY <1>3, Zenon DEF StartWrite, Idle
  <2>2. \E writes : Begin("write", parent, name, writes)
    BY <1>3, Zenon DEF StartWrite
  <2> QED
    BY <1>1, <2>1, <2>2
<1>4. ASSUME NEW parent, NEW name, StartDelete(parent, name)
      PROVE  /\ pending = <<>> /\ saved' = Image /\ UNCHANGED vars
             /\ resets' = resets /\ call'.op = "delete"
  <2>1. pending = <<>>
    BY <1>4, Zenon DEF StartDelete, Idle
  <2>2. \E writes : Begin("delete", parent, name, writes)
    BY <1>4, Zenon DEF StartDelete
  <2> QED
    BY <1>1, <2>1, <2>2
<1>5. pending = <<>> /\ saved' = Image /\ UNCHANGED vars /\ resets' = resets
  BY <1>2, <1>3, <1>4
<1> QED
  BY <1>2, <1>3, <1>4, <1>5

LEMMA SteadyStart ==
    ASSUME Typed, Backed, Steady, IndexRoom, resets = 0,
           \/ StartFormat
           \/ \E parent \in Parents, name \in Names :
                \/ \E buf \in Buffers : StartWrite(parent, name, buf)
                \/ StartDelete(parent, name)
    PROVE  Steady' /\ SavedStep
<1>1. pending = <<>> /\ saved' = Image /\ UNCHANGED vars /\ resets' = resets
  BY StartFacts
<1>2. /\ Saved!Consistent' /\ SavedStep /\ Count' <= IndexCapacity
      /\ saved'.signature = signature /\ Count' = fat[INDEX]
      /\ Sound
      /\ mounted => signature = TRUE
      /\ ~signature => fat = ZeroTable
  BY <1>1, StartFinds
<1>3. saved' = Image'
  BY <1>1 DEF Image, vars
<1>4. mounted' = mounted
  BY <1>1 DEF vars
<1>5. Underway'
  <2>1. CASE StartFormat
    <3>1. ~signature
      BY <2>1 DEF StartFormat, Unformatted
    <3>2. Count' = 0
      <4>1. INDEX \in Clusters
        BY Numbers
      <4>2. fat = ZeroTable
        BY <1>2, <3>1
      <4> QED
        BY <1>2, <4>1, <4>2 DEF ZeroTable, EMPTY
    <3>3. fat = ZeroTable
      BY <1>2, <3>1
    <3>4. PICK f, d, rec : Leads(f, d, rec)' /\ AimsToFormat(f, d, rec)'
      BY <2>1, <3>2, <3>3, FormatAims
    <3>5. call'.op = "mount"
      BY <2>1, StartFacts
    <3>6. Aims(f, d, rec)'
      BY <3>4, <3>5 DEF Aims
    <3> QED
      BY <3>4, <3>6 DEF Underway
  <2>2. ASSUME NEW parent \in Parents, NEW name \in Names, NEW buf \in Buffers,
               StartWrite(parent, name, buf)
        PROVE  Underway'
    <3>1. mounted = TRUE /\ signature = TRUE
      BY <1>2, <2>2 DEF StartWrite, Idle, Typed
    <3>2. PICK f, d, rec : /\ Leads(f, d, rec)'
                           /\ AimsToWrite(parent, name, buf, f, d, rec)'
      BY <2>2, <3>1, WriteAims
    <3>3. call'.op = "write"
      BY <2>2, StartFacts
    <3>4. mounted' = TRUE /\ saved'.signature = TRUE
      BY <1>2, <1>4, <3>1
    <3>5. Aims(f, d, rec)'
      BY <3>2, <3>3, <3>4 DEF Aims
    <3> QED
      BY <3>2, <3>5 DEF Underway
  <2>3. ASSUME NEW parent \in Parents, NEW name \in Names, StartDelete(parent, name)
        PROVE  Underway'
    <3>1. mounted = TRUE /\ signature = TRUE
      BY <1>2, <2>3 DEF StartDelete, Idle, Typed
    <3>2. PICK s, f, d, rec :
             /\ Leads(f, d, rec)'
             /\ s \in FirstNamed(saved'.disk[parent], name)
             /\ ~RefusesDelete(saved'.disk[parent].slot[s])
             /\ saved'.disk[parent].dir
             /\ AimsToDelete(parent, s, f, d, rec)'
      BY <1>2, <2>3, <3>1, DeleteAims
    <3>3. call'.op = "delete"
      BY <2>3, StartFacts
    <3>4. mounted' = TRUE /\ saved'.signature = TRUE
      BY <1>2, <1>4, <3>1
    <3>5. Aims(f, d, rec)'
      BY <3>2, <3>3, <3>4 DEF Aims
    <3> QED
      BY <3>2, <3>5 DEF Underway
  <2> QED
    BY <2>1, <2>2, <2>3
<1> QED
  BY <1>1, <1>2, <1>3, <1>5 DEF Steady

\* The disk of a call that returns is the one at which it aimed.
LEMMA AimedStep ==
    ASSUME Typed, Backed, Saved!Consistent, Count <= IndexCapacity,
           NEW f, NEW d, NEW rec, Aims(f, d, rec), Left(f, d, rec),
           f[INDEX] <= IndexCapacity,
           reply' = IF call.op = "mount" THEN reply ELSE Reply(call.op, 0, <<>>)
    PROVE  Saved!Consistent' /\ SavedStep
<1>i. INDEX \in Clusters /\ Count \in Nat
  BY Numbers, CountTypes
<1>1. CASE /\ call.op = "write" /\ mounted = TRUE /\ saved.signature = TRUE
           /\ \E parent \in Parents, name \in Names, buf \in Buffers :
                AimsToWrite(parent, name, buf, f, d, rec)
  <2>1. PICK parent \in Parents, name \in Names, buf \in Buffers :
          AimsToWrite(parent, name, buf, f, d, rec)
    BY <1>1
  <2>2. f[INDEX] = Count + 1
    <3>1. PICK cl : f = [Linked(saved.fat, cl) EXCEPT ![INDEX] = Count + 1]
      BY <2>1 DEF AimsToWrite
    <3> QED
      BY <1>i, <3>1 DEF Linked
  <2>3. reply' = Reply("write", 0, <<>>)
    BY <1>1
  <2>4. Saved!WriteEntry(parent, name, buf)
    <3>1. Count + 1 <= IndexCapacity
      BY <2>2
    <3> QED
      BY <1>1, <2>1, <2>3, <3>1, WriteEnds
  <2> QED
    BY <2>4, SavedStays
<1>2. CASE /\ call.op = "delete" /\ mounted = TRUE /\ saved.signature = TRUE
           /\ \E parent \in Parents, name \in Names :
              \E s \in FirstNamed(saved.disk[parent], name) :
                /\ ~RefusesDelete(saved.disk[parent].slot[s]) /\ saved.disk[parent].dir
                /\ AimsToDelete(parent, s, f, d, rec)
  <2>1. PICK parent \in Parents, name \in Names :
          \E s \in FirstNamed(saved.disk[parent], name) :
            /\ ~RefusesDelete(saved.disk[parent].slot[s]) /\ saved.disk[parent].dir
            /\ AimsToDelete(parent, s, f, d, rec)
    BY <1>2
  <2>2. PICK s \in FirstNamed(saved.disk[parent], name) :
            /\ ~RefusesDelete(saved.disk[parent].slot[s]) /\ saved.disk[parent].dir
            /\ AimsToDelete(parent, s, f, d, rec)
    BY <2>1
  <2>3. reply' = Reply("delete", 0, <<>>)
    BY <1>2
  <2>4. /\ s \in Saved!FirstNamed(saved.disk[parent], name)
        /\ ~Saved!RefusesDelete(saved.disk[parent].slot[s])
        /\ Saved!Calling /\ saved.disk[parent].dir
        /\ Saved!EraseEntry(parent, s)
    BY <1>2, <2>2, <2>3, DeleteEnds
  <2> QED
    BY <2>4, SavedStays
<1>3. CASE call.op = "mount" /\ AimsToFormat(f, d, rec)
  <2>1. reply' = reply
    BY <1>3
  <2>2. Saved!Power
    BY <1>3, <2>1, FormatEnds
  <2> QED
    BY <2>2, SavedStays
<1> QED
  BY <1>1, <1>2, <1>3 DEF Aims

LEMMA SteadyWrite ==
    ASSUME Typed, Typed', Backed, Backed', IndexRoom', Steady, resets = 0, WriteNext
    PROVE  Steady' /\ SavedStep
<1>1. pending # <<>> /\ resets' = resets /\ exhausted' = exhausted
  BY DEF WriteNext
<1>2. PICK f, d, rec : Leads(f, d, rec) /\ Aims(f, d, rec)
  BY <1>1 DEF Steady, Underway
<1>3. Leads(f, d, rec)'
  BY <1>2, LeadsNext
<1>4. /\ Len(pending) \in Nat \ {0} /\ DOMAIN pending' = 1 .. (Len(pending) - 1)
  BY NextHead
<1>5. CASE Len(pending) = 1
  <2>1. Return
    BY <1>5 DEF WriteNext
  <2>2. pending' = <<>>
    <3>1. IsSeq(pending') /\ DOMAIN pending' = {}
      BY <1>4, <1>5 DEF Typed
    <3> QED
      BY <3>1, SeqShape
  <2>3. /\ fat' = f /\ disk' = d /\ signature' = TRUE
        /\ SubSeq(index', 1, fat'[INDEX]) = rec
    BY <1>3, <2>2, LeadsEnd
  <2>4. saved' = Image' /\ mounted' = TRUE /\ fat_table' = fat'
        /\ reply' = IF call.op = "mount" THEN reply ELSE Reply(call.op, 0, <<>>)
    BY <2>1 DEF Return
  <2>5. /\ saved'.fat = fat' /\ saved'.disk = disk' /\ saved'.signature = signature'
        /\ saved'.index = index'
    BY <2>4 DEF Image
  <2>6. Left(f, d, rec)
    BY <1>1, <2>3, <2>4, <2>5 DEF Left
  <2>7. f[INDEX] <= IndexCapacity /\ Count' <= IndexCapacity
    BY <2>3, <2>5 DEF IndexRoom, Count
  <2>8. Saved!Consistent' /\ SavedStep
    BY <1>2, <2>4, <2>6, <2>7, AimedStep DEF Steady
  <2> QED
    BY <1>1, <2>2, <2>4, <2>7, <2>8 DEF Steady
<1>6. CASE Len(pending) # 1
  <2>1. UNCHANGED <<mounted, fat_table, reply, saved, call>>
    BY <1>6 DEF WriteNext
  <2>2. SavedStep /\ UNCHANGED Saved!vars
    BY <1>1, <2>1, SavedRests
  <2>3. Saved!Consistent'
    BY <2>2, SavedStays DEF Steady
  <2>4. Aims(f, d, rec)'
    <3>1. saved' = saved /\ mounted' = mounted /\ call' = call
      BY <2>1
    <3>2. Count' = Count /\ Records' = Records
      BY <3>1 DEF Records, Count
    <3>3. AimsToFormat(f, d, rec)' <=> AimsToFormat(f, d, rec)
      BY <3>1, <3>2, Zenon DEF AimsToFormat
    <3>4. \A parent, name, buf :
             AimsToWrite(parent, name, buf, f, d, rec)'
               <=> AimsToWrite(parent, name, buf, f, d, rec)
      <4>1. saved'.disk = saved.disk /\ saved'.fat = saved.fat
        BY <3>1
      <4> QED
        BY <3>2, <4>1, ZenonT(40) DEF AimsToWrite
    <3>5. \A parent, s :
             AimsToDelete(parent, s, f, d, rec)' <=> AimsToDelete(parent, s, f, d, rec)
      BY <3>1, <3>2, SMTT(60) DEF AimsToDelete
    <3> QED
      BY <1>2, <3>1, <3>3, <3>4, <3>5, Zenon DEF Aims
  <2>5. Underway'
    BY <1>3, <2>4 DEF Underway
  <2>6. pending' # <<>>
    <3>1. Len(pending) - 1 \in Nat \ {0}
      BY <1>4, <1>6
    <3>2. 1 \in DOMAIN pending'
      BY <1>4, <3>1
    <3>3. DOMAIN <<>> = {}
      OBVIOUS
    <3> QED
      BY <3>2, <3>3
  <2>7. Count' <= IndexCapacity
    BY <2>1 DEF Count, Steady
  <2> QED
    BY <1>1, <2>2, <2>3, <2>5, <2>6, <2>7 DEF Steady
<1> QED
  BY <1>5, <1>6

LEMMA SteadyPower ==
    ASSUME Typed, Steady, resets = 0, LoadAgain \/ Stop, resets' = 0
    PROVE  Steady' /\ SavedStep
<1>1. CASE LoadAgain
  <2>1. pending = <<>> /\ pending' = <<>> /\ Load /\ saved' = Image
    BY <1>1 DEF LoadAgain
  <2>2. saved' = saved /\ saved.signature = signature /\ saved.fat = fat
    BY <2>1 DEF Steady, Image
  <2>3. /\ ~mounted /\ signature /\ fat_table' = fat /\ mounted' = TRUE
        /\ UNCHANGED <<signature, fat, disk, index, reply, exhausted>>
    BY <2>1 DEF Load
  <2>4. Saved!Load
    BY <2>2, <2>3 DEF Saved!Load
  <2>5. Saved!Power
    BY <2>4, Zenon DEF Saved!Power
  <2>6. Saved!Consistent' /\ SavedStep
    BY <2>5, SavedStays DEF Steady
  <2>7. saved' = Image'
    BY <2>1, <2>3 DEF Image
  <2>8. Count' <= IndexCapacity
    BY <2>2 DEF Count, Steady
  <2> QED
    BY <2>1, <2>6, <2>7, <2>8 DEF Steady
<1>2. CASE Stop
  <2>1. /\ pending' = <<>> /\ mounted' = FALSE /\ fat_table' = ZeroTable
        /\ reply' = NoReply
        /\ UNCHANGED <<signature, fat, disk, index, exhausted, call, saved>>
    BY <1>2 DEF Stop
  <2>2. Idle \/ Hangs
    BY <1>2 DEF Stop
  <2>3. ~Hangs
    <3>1. SUFFICES ASSUME Hangs
                   PROVE  FALSE
      OBVIOUS
    <3>2. PICK f, d, rec : Leads(f, d, rec)
      BY <3>1 DEF Hangs, Steady, Underway
    <3>3. pending[1] \in Range(pending) /\ Head(pending) = pending[1]
      <4>1. IsSeq(pending) /\ pending # <<>>
        BY <3>1 DEF Typed, Hangs
      <4>2. 1 \in DOMAIN pending
        BY <4>1, SeqHead
      <4>3. Head(pending) = pending[1]
        BY <4>1, SeqHead
      <4> QED
        BY <4>2, <4>3 DEF Range
    <3>4. Whole(Lost)
      BY <3>1, <3>2, <3>3 DEF Leads, Hangs
    <3> QED
      BY <3>4 DEF Whole, Lost
  <2>4. mounted /\ pending = <<>> /\ saved = Image
    BY <2>2, <2>3 DEF Idle, Steady
  <2>5. Saved!PowerOff
    <3>1. Saved!ZeroTable = ZeroTable /\ Saved!NoReply = NoReply
      BY SavedOperators
    <3> QED
      BY <2>1, <2>4, <3>1, Zenon DEF Saved!PowerOff
  <2>6. Saved!Power
    BY <2>5, Zenon DEF Saved!Power
  <2>7. Saved!Consistent' /\ SavedStep
    BY <2>6, SavedStays DEF Steady
  <2>8. saved' = Image'
    BY <2>1, <2>4 DEF Image
  <2>9. Count' <= IndexCapacity
    BY <2>1 DEF Count, Steady
  <2> QED
    BY <2>1, <2>7, <2>8, <2>9 DEF Steady
<1> QED
  BY <1>1, <1>2

LEMMA NextSteady ==
    ASSUME Typed, Typed', Backed, Backed', IndexRoom, IndexRoom', Steady,
           [NextWrites]_allVars
    PROVE  Steady' /\ (resets' = 0 => SavedStep)
<1>1. resets \in Nat /\ resets' \in Nat /\ (resets' = 0 => resets = 0)
  <2>1. resets' = resets \/ resets' = resets + 1
    <3>1. UNCHANGED allVars => resets' = resets
      BY DEF allVars
    <3>2. LoadAgain \/ Stop \/ WriteNext => resets' = resets \/ resets' = resets + 1
      BY Zenon DEF LoadAgain, Stop, WriteNext
    <3> QED
      BY <3>1, <3>2, StartFacts DEF NextWrites
  <2> QED
    BY <2>1 DEF Steady
<1>2. CASE resets' # 0
  BY <1>1, <1>2 DEF Steady
<1>3. CASE resets' = 0 /\ NextWrites
  <2>1. resets = 0
    BY <1>1, <1>3
  <2>2. \/ LoadAgain \/ Stop \/ WriteNext \/ StartFormat
        \/ \E parent \in Parents, name \in Names :
             \/ \E buf \in Buffers : StartWrite(parent, name, buf)
             \/ StartDelete(parent, name)
    BY <1>3 DEF NextWrites
  <2> QED
    BY <1>3, <2>1, <2>2, SteadyStart, SteadyWrite, SteadyPower
<1>4. CASE resets' = 0 /\ UNCHANGED allVars
  <2>1. /\ UNCHANGED <<saved, pending, call, resets, vars>>
    BY <1>4 DEF allVars
  <2>2. SavedStep /\ UNCHANGED Saved!vars
    BY <2>1, SavedRests DEF vars
  <2>3. resets = 0
    BY <2>1, <1>4
  <2>4. Saved!Consistent'
    BY <2>2, <2>3, SavedStays DEF Steady
  <2>5. Underway' <=> Underway
    BY <2>1 DEF Underway, Leads, Aims, AimsToWrite, AimsToDelete, AimsToFormat, Records,
       Count, Due, Holds, vars
  <2>6. Image' = Image /\ Count' = Count
    BY <2>1 DEF Image, Count, vars
  <2> QED
    BY <1>1, <2>1, <2>2, <2>3, <2>4, <2>5, <2>6 DEF Steady
<1> QED
  BY <1>2, <1>3, <1>4

\* Block by block, a call does what it does in one step of Fat32, as long as the
\* count stays within the clusters of the index and no machine has stopped inside
\* a call: the writes of write, delete and initialize_filesystem_fat32 add up, in
\* their order, to the step of Fat32, and the disk between them is never that of
\* a call which has returned.
THEOREM CallsActAtomically == SpecWrites /\ []IndexRoom => CallsAreAtomic
<1>1. InitWrites => Typed /\ Backed /\ Recorded
  BY TypedInit, RecordedInit
<1>2. InitWrites => Saved!Init /\ Steady
  BY <1>1, SteadyInit
<1>3. /\ Typed /\ Typed' /\ Backed /\ Backed' /\ IndexRoom /\ IndexRoom' /\ Steady
      /\ [NextWrites]_allVars
      => Steady' /\ (resets' = 0 => Saved!Next \/ UNCHANGED Saved!vars)
  BY NextSteady DEF SavedStep
<1> QED
  BY <1>1, <1>2, <1>3, NextTyped, NextRecorded, PTL DEF SpecWrites, CallsAreAtomic

----------------------------------------------------------------------------
(* The links of the FAT ascend, whatever stops there were. *)

Ascends(f) == \A c \in Data : f[c] \in Data => f[c] > c

Ascending ==
    /\ Ascends(fat)
    /\ \A w \in Range(pending) : w.to = "fat" => Ascends(w.value)

LEMMA AscendingWrite ==
    ASSUME Typed, Ascending,
           NEW parent \in Parents, NEW name \in Names, NEW buf \in Buffers,
           StartWrite(parent, name, buf)
    PROVE  Ascending'
<1>1. PICK s, cl : WriteMeans(parent, name, buf, s, cl)
  BY WriteCall
<1>2. fat' = fat
  BY <1>1 DEF WriteMeans, vars
<1>3. ASSUME NEW w \in Range(pending'), w.to = "fat"
      PROVE  Ascends(w.value)
  <2>1. OfLinks(w, cl)
    BY <1>1, <1>3 DEF WriteMeans, OfPayload, OfCluster, OfNew, OfEntry
  <2>2. ASSUME NEW c \in Data, w.value[c] \in Data
        PROVE  w.value[c] > c
    <3>1. CASE c \in Range(cl)
      <4>1. w.value[c] \in Range(cl)
        BY <2>1, <2>2, <3>1, Numbers DEF OfLinks
      <4> QED
        BY <2>1, <3>1, <4>1 DEF OfLinks
    <3>2. CASE c \notin Range(cl)
      <4>1. w.value[c] = fat[c]
        BY <2>1, <3>2 DEF OfLinks, OfFAT
      <4> QED
        BY <2>2, <4>1 DEF Ascending, Ascends
    <3> QED
      BY <3>1, <3>2
  <2> QED
    BY <2>2 DEF Ascends
<1> QED
  BY <1>2, <1>3 DEF Ascending, Ascends

LEMMA AscendingDelete ==
    ASSUME Typed, Ascending, NEW parent \in Parents, NEW name \in Names,
           StartDelete(parent, name)
    PROVE  Ascending'
<1>1. PICK s : DeleteMeans(parent, name, s)
  BY DeleteCall
<1>2. fat' = fat
  BY <1>1 DEF DeleteMeans, vars
<1>3. ASSUME NEW w \in Range(pending'), w.to = "fat"
      PROVE  Ascends(w.value)
  <2>1. Unlinks(w)
    BY <1>1, <1>3 DEF DeleteMeans, OfCluster, OfEntry
  <2>2. \A c \in Data : EMPTY \notin Data
    BY Numbers
  <2> QED
    BY <2>1, <2>2 DEF Unlinks, Ascending, Ascends
<1> QED
  BY <1>2, <1>3 DEF Ascending, Ascends

\* The writes of the formatting.
FirstTable == [c \in Clusters |-> IF c \in {4, 5} THEN EMPTY ELSE FormattedTable[c]]

FormatWrites ==
    FatWrites(FirstTable) \o <<ToBoot(TRUE), ToCluster(ROOT, DirTable(NoName, ROOT))>>
      \o FatWrites(FormattedTable)

LEMMA FormatCall ==
    ASSUME StartFormat
    PROVE  /\ pending' = FormatWrites /\ saved' = Image /\ UNCHANGED vars
           /\ \A w \in Range(pending') :
                \/ w.to = "fat" /\ w.value \in {FirstTable, FormattedTable}
                \/ w = ToBoot(TRUE)
                \/ w = ToCluster(ROOT, DirTable(NoName, ROOT))
<1> DEFINE two == <<ToBoot(TRUE), ToCluster(ROOT, DirTable(NoName, ROOT))>>
<1>1. pending' = FormatWrites /\ saved' = Image /\ UNCHANGED vars
  BY DEF StartFormat, Begin, FormatWrites, FirstTable
<1>2. IsSeq(two) /\ Range(two) = {ToBoot(TRUE), ToCluster(ROOT, DirTable(NoName, ROOT))}
  BY SeqTwo
<1>3. pending' = FatWrites(FirstTable) \o two \o FatWrites(FormattedTable)
  BY <1>1 DEF FormatWrites
<1> HIDE DEF two
<1>4. /\ IsSeq(FatWrites(FirstTable)) /\ IsSeq(FatWrites(FormattedTable))
      /\ \A w \in Range(FatWrites(FirstTable)) : w.to = "fat" /\ w.value = FirstTable
      /\ \A w \in Range(FatWrites(FormattedTable)) :
            w.to = "fat" /\ w.value = FormattedTable
  BY FatWritesShape
<1>5. /\ IsSeq(FatWrites(FirstTable) \o two)
      /\ Range(FatWrites(FirstTable) \o two) = Range(FatWrites(FirstTable)) \cup Range(two)
  BY <1>2, <1>4, SeqJoin
<1>6. Range(pending') = Range(FatWrites(FirstTable)) \cup Range(two)
                          \cup Range(FatWrites(FormattedTable))
  BY <1>3, <1>4, <1>5, SeqJoin
<1> QED
  BY <1>1, <1>2, <1>4, <1>6

LEMMA AscendingFormat == ASSUME Ascending, StartFormat PROVE Ascending'
<1>1. /\ fat' = fat
      /\ \A w \in Range(pending') :
           w.to = "fat" => w.value \in {FirstTable, FormattedTable}
  <2>1. ToBoot(TRUE).to # "fat" /\ ToCluster(ROOT, DirTable(NoName, ROOT)).to # "fat"
    BY DEF ToBoot, ToCluster
  <2>2. /\ UNCHANGED vars
        /\ \A w \in Range(pending') :
             \/ w.to = "fat" /\ w.value \in {FirstTable, FormattedTable}
             \/ w = ToBoot(TRUE)
             \/ w = ToCluster(ROOT, DirTable(NoName, ROOT))
    BY FormatCall
  <2>3. fat' = fat
    BY <2>2 DEF vars
  <2>4. ASSUME NEW w \in Range(pending'), w.to = "fat"
        PROVE  w.value \in {FirstTable, FormattedTable}
    <3>1. w # ToBoot(TRUE) /\ w # ToCluster(ROOT, DirTable(NoName, ROOT))
      BY <2>1, <2>4
    <3> QED
      BY <2>2, <3>1
  <2> QED
    BY <2>3, <2>4
<1>2. \A c \in Data : FormattedTable[c] = EMPTY /\ FirstTable[c] = EMPTY
  <2>1. ASSUME NEW c \in Data
        PROVE  c \in Clusters /\ c \notin {0, 1, ROOT, 4, 5}
    BY Numbers DEF Data, FIRST_DATA, ROOT
  <2> QED
    BY <2>1 DEF FormattedTable, FirstTable
<1>3. EMPTY \notin Data
  BY Numbers
<1> QED
  BY <1>1, <1>2, <1>3 DEF Ascending, Ascends

LEMMA NextAscending == Typed /\ Ascending /\ [NextWrites]_allVars => Ascending'
<1> SUFFICES ASSUME Typed, Ascending, [NextWrites]_allVars
             PROVE  Ascending'
  OBVIOUS
<1>1. CASE WriteNext
  <2>1. PICK w \in Range(pending) :
          WellMade(w) /\ Applied(w) /\ Range(pending') \subseteq Range(pending)
    BY <1>1, NextWriteFacts
  <2>2. \A c \in Clusters : fat'[c] = fat[c] \/ (w.to = "fat" /\ fat'[c] = w.value[c])
    BY <2>1, AppliedFacts DEF Typed, DiskTyped
  <2>3. ASSUME NEW c \in Data, fat'[c] \in Data
        PROVE  fat'[c] > c
    <3>1. c \in Clusters
      BY Numbers
    <3> QED
      BY <2>1, <2>2, <2>3, <3>1 DEF Ascending, Ascends
  <2> QED
    BY <2>1, <2>3 DEF Ascending, Ascends
<1>2. CASE LoadAgain \/ Stop
  <2>1. fat' = fat /\ pending' = <<>>
    BY <1>2 DEF LoadAgain, Load, Stop
  <2> QED
    BY <2>1, SeqNone DEF Ascending
<1>3. CASE UNCHANGED allVars
  BY <1>3 DEF allVars, vars, Ascending
<1> QED
  BY <1>1, <1>2, <1>3, AscendingWrite, AscendingDelete, AscendingFormat DEF NextWrites

LEMMA AscendingInit == InitWrites => Ascending
<1> SUFFICES ASSUME InitWrites
             PROVE  Ascending
  OBVIOUS
<1>1. \A c \in Data : fat[c] = EMPTY /\ EMPTY \notin Data
  BY Numbers DEF InitWrites, Init, ZeroTable
<1>2. Range(pending) = {}
  BY SeqNone DEF InitWrites
<1> QED
  BY <1>1, <1>2 DEF Ascending, Ascends

\* The loop of delete never comes to a data cluster twice, whatever stops there
\* were: the links of the FAT lead to higher clusters, as get_empty_cluster,
\* which takes the first free one, made them.
THEOREM NoLinkGoesBack == SpecWrites => []LinksAscend
<1>1. Ascending => LinksAscend
  BY DEF Ascending, Ascends, LinksAscend
<1> QED
  BY <1>1, TypedInit, AscendingInit, NextTyped, NextAscending, PTL DEF SpecWrites

----------------------------------------------------------------------------
(* No call that found a sound disk erases the boot sector. *)

\* The writes left keep the signature, unless the call found a damaged disk.
Signed ==
    SavedSound => \A w \in Range(pending) : w.to = "boot" => w.value = TRUE

LEMMA SignedDelete ==
    ASSUME Typed, NEW parent \in Parents, NEW name \in Names,
           StartDelete(parent, name)
    PROVE  Signed'
<1>1. PICK s : DeleteMeans(parent, name, s)
  BY DeleteCall
<1> DEFINE t == <<parent, s>>
<1>2. /\ saved' = Image /\ exhausted' = exhausted /\ exhausted = FALSE
      /\ disk[parent].dir /\ s \in Slots /\ disk[parent].slot[s].name = name
  BY <1>1 DEF DeleteMeans, vars, Typed
<1>3. t \in Live /\ EntryAt(t) = disk[parent].slot[s]
  <2>1. disk[parent] \in Good
    BY Numbers DEF Typed, DiskTyped
  <2>2. name # NoName
    BY NamesAssumption
  <2>3. disk[parent].slot[s].undelete
    BY <1>2, <2>1, <2>2 DEF Good
  <2> QED
    BY <1>2, <2>3 DEF Live, EntryAt
<1>4. SUFFICES ASSUME Sound
               PROVE  0 \notin GoneBy(disk[parent].slot[s])
  <2>1. SavedSound' = Sound
    BY <1>2, SavedNow
  <2>2. ASSUME Sound, NEW w \in Range(pending'), w.to = "boot"
        PROVE  w.value = TRUE
    <3>1. 0 \notin GoneBy(disk[parent].slot[s])
      BY <1>4, <2>2
    <3> QED
      BY <1>1, <2>2, <3>1 DEF DeleteMeans, OfCluster, OfEntry, OfFAT
  <2> QED
    BY <2>1, <2>2 DEF Signed
<1> HIDE DEF t
<1>5. PICK ch \in SeqUpTo(Data, MaxFragments) :
        /\ IsChain(fat, ch) /\ ch[1] = HeadOf(t)
        /\ EntryAt(t).dir => ch = <<HeadOf(t)>>
  BY <1>2, <1>3, <1>4, EntryChain
<1>6. GoneBy(EntryAt(t)) \subseteq Range(ch) \cup {EOF}
  BY <1>2, <1>3, <1>4, <1>5, GoneInChain
<1>7. 0 \notin Range(ch)
  <2>1. \A i \in DOMAIN ch : ch[i] \in Data
    BY <1>5 DEF SeqUpTo
  <2> QED
    BY <2>1, Numbers DEF Range, EMPTY
<1> QED
  BY <1>3, <1>6, <1>7 DEF EOF

LEMMA NextSigned ==
    Typed /\ Signed /\ [NextWrites]_allVars => Signed' /\ (signature /\ SavedSound => signature')
<1> SUFFICES ASSUME Typed, Signed, [NextWrites]_allVars
             PROVE  Signed' /\ (signature /\ SavedSound => signature')
  OBVIOUS
<1>1. CASE WriteNext
  <2>1. PICK w \in Range(pending) :
             /\ WellMade(w) /\ Applied(w)
             /\ Range(pending') \subseteq Range(pending)
             /\ exhausted' = exhausted
             /\ \/ pending' = <<>>
                \/ saved' = saved /\ call' = call
    BY <1>1, NextWriteFacts
  <2>2. Signed'
    <3>1. CASE pending' = <<>>
      BY <3>1, SeqNone DEF Signed
    <3>2. CASE saved' = saved /\ call' = call
      <4>1. SavedSound' = SavedSound
        BY <2>1, <3>2, SavedKept
      <4> QED
        BY <2>1, <4>1 DEF Signed
    <3> QED
      BY <2>1, <3>1, <3>2
  <2>3. signature /\ SavedSound => signature'
    BY <2>1 DEF Applied, Signed
  <2> QED
    BY <2>2, <2>3
<1>2. CASE LoadAgain \/ Stop
  <2>1. signature' = signature /\ pending' = <<>>
    BY <1>2 DEF LoadAgain, Load, Stop
  <2> QED
    BY <2>1, SeqNone DEF Signed
<1>3. CASE UNCHANGED allVars
  <2>1. saved' = saved /\ call' = call /\ exhausted' = exhausted
        /\ pending' = pending /\ signature' = signature
    BY <1>3 DEF allVars, vars
  <2>2. SavedSound' = SavedSound
    BY <2>1, SavedKept
  <2> QED
    BY <2>1, <2>2 DEF Signed
<1>4. CASE StartFormat
  <2>1. signature' = signature
    BY <1>4, FormatCall DEF vars
  <2>2. ASSUME NEW w \in Range(pending'), w.to = "boot"
        PROVE  w.value = TRUE
    <3>1. w.to # "fat" /\ w # ToCluster(ROOT, DirTable(NoName, ROOT))
      BY <2>2 DEF ToCluster
    <3>2. w = ToBoot(TRUE)
      BY <1>4, <3>1, FormatCall
    <3> QED
      BY <3>2 DEF ToBoot
  <2> QED
    BY <2>1, <2>2 DEF Signed
<1>5. ASSUME NEW parent \in Parents, NEW name \in Names, NEW buf \in Buffers,
             StartWrite(parent, name, buf)
      PROVE  Signed' /\ signature' = signature
  <2>1. PICK s, cl : WriteMeans(parent, name, buf, s, cl)
    BY <1>5, WriteCall
  <2>2. \A w \in Range(pending') : w.to # "boot"
    BY <2>1 DEF WriteMeans, OfPayload, OfCluster, OfNew, OfEntry, OfLinks, OfFAT
  <2>3. signature' = signature
    BY <2>1 DEF WriteMeans, vars
  <2> QED
    BY <2>2, <2>3 DEF Signed
<1>6. ASSUME NEW parent \in Parents, NEW name \in Names, StartDelete(parent, name)
      PROVE  Signed' /\ signature' = signature
  <2>1. signature' = signature
    BY <1>6, DeleteCall DEF DeleteMeans, vars
  <2> QED
    BY <1>6, <2>1, SignedDelete
<1> QED
  BY <1>1, <1>2, <1>3, <1>4, <1>5, <1>6 DEF NextWrites

LEMMA SignedInit == InitWrites => Signed
BY SeqNone DEF InitWrites, Signed

\* A call that found a disk without damage never erases the signature of the boot
\* sector, whatever stops came before: the chain that its delete follows is inside
\* the data clusters and ends there.
THEOREM SoundCallsSign == SpecWrites => SignatureStays
<1>1. Typed /\ Signed /\ [NextWrites]_allVars
        => [signature /\ SavedSound => signature']_allVars
  BY NextSigned
<1>2. Typed /\ Signed /\ [NextWrites]_allVars => Signed'
  BY NextSigned
<1> QED
  BY <1>1, <1>2, TypedInit, SignedInit, NextTyped, PTL DEF SpecWrites, SignatureStays

----------------------------------------------------------------------------
(* A disk without the signature is as it was made. *)

Untouched(d) == \A c \in Clusters : d[c] = Blank

\* The signature is written before any cluster is.
SignsFirst ==
    \E i \in DOMAIN pending :
        /\ pending[i].to = "boot"
        /\ \A j \in DOMAIN pending : pending[j].to = "disk" => j > i

Unspoilt ==
    /\ mounted => signature
    /\ ~signature => Untouched(disk)
    /\ ~signature /\ pending # <<>> => SignsFirst
    /\ call.op = "mount" => Untouched(saved.disk)

LEMMA FormatSigns ==
    ASSUME StartFormat
    PROVE  SignsFirst'
<1> DEFINE a == ToBoot(TRUE)
           b == ToCluster(ROOT, DirTable(NoName, ROOT))
           X == FatWrites(FirstTable)
           M == <<a, b>>
           G == FatWrites(FormattedTable)
<1>1. pending' = (X \o M) \o G
  BY FormatCall DEF FormatWrites
<1>2. /\ IsSeq(X) /\ IsSeq(M) /\ IsSeq(G)
      /\ \A w \in Range(X) : w.to = "fat"
      /\ \A w \in Range(G) : w.to = "fat"
  BY FatWritesShape, SeqTwo
<1>3. Len(M) = 2 /\ M[1] = a /\ M[2] = b /\ a.to = "boot"
  BY DEF ToBoot
<1> HIDE DEF X, M, G, a, b
<1>4. /\ Len(X) \in Nat /\ DOMAIN X = 1 .. Len(X)
      /\ Len(X \o M) = Len(X) + 2
      /\ \A i \in 1 .. Len(X) + 2 :
           (X \o M)[i] = IF i <= Len(X) THEN X[i] ELSE M[i - Len(X)]
      /\ IsSeq(X \o M)
  <2>1. IsSeq(X \o M)
    BY <1>2, SeqJoin
  <2>2. /\ Len(X) \in Nat /\ Len(M) \in Nat /\ DOMAIN X = 1 .. Len(X)
        /\ Len(X \o M) = Len(X) + Len(M)
        /\ \A i \in 1 .. Len(X) + Len(M) :
             (X \o M)[i] = IF i <= Len(X) THEN X[i] ELSE M[i - Len(X)]
    BY <1>2, SeqParts
  <2> QED
    BY <1>3, <2>1, <2>2
<1> DEFINE Y == X \o M
<1> HIDE DEF Y
<1>y. IsSeq(Y) /\ Len(Y) = Len(X) + 2 /\ pending' = Y \o G
  BY <1>1, <1>4 DEF Y
<1>5. /\ Len(G) \in Nat /\ DOMAIN G = 1 .. Len(G)
      /\ DOMAIN pending' = 1 .. (Len(X) + 2 + Len(G))
      /\ \A i \in 1 .. Len(X) + 2 + Len(G) :
           pending'[i] = IF i <= Len(X) + 2 THEN (X \o M)[i] ELSE G[i - (Len(X) + 2)]
  <2>1. /\ Len(G) \in Nat /\ DOMAIN G = 1 .. Len(G)
        /\ DOMAIN (Y \o G) = 1 .. (Len(Y) + Len(G))
        /\ \A i \in 1 .. Len(Y) + Len(G) :
             (Y \o G)[i] = IF i <= Len(Y) THEN Y[i] ELSE G[i - Len(Y)]
    BY <1>2, <1>y, SeqParts
  <2> QED
    BY <1>y, <2>1 DEF Y
<1> DEFINE i == Len(X) + 1
<1>6. i \in DOMAIN pending' /\ pending'[i] = a
  <2>1. i \in 1 .. Len(X) + 2 /\ i \in 1 .. Len(X) + 2 + Len(G) /\ ~(i <= Len(X))
        /\ i <= Len(X) + 2 /\ i - Len(X) = 1
    BY <1>4, <1>5
  <2> HIDE DEF i
  <2> QED
    BY <1>3, <1>4, <1>5, <2>1
<1>7. ASSUME NEW j \in DOMAIN pending', j <= Len(X)
      PROVE  pending'[j].to = "fat"
  <2>1. /\ j \in 1 .. Len(X) + 2 /\ j <= Len(X) + 2 /\ j \in 1 .. Len(X)
        /\ j \in 1 .. Len(X) + 2 + Len(G)
    BY <1>4, <1>5, <1>7
  <2>2. pending'[j] = X[j]
    BY <1>4, <1>5, <1>7, <2>1
  <2> QED
    BY <1>2, <1>4, <2>1, <2>2, InRange
<1>8. ASSUME NEW j \in DOMAIN pending', pending'[j].to = "disk"
      PROVE  j > i
  <2>1. ~(j <= Len(X))
    BY <1>7, <1>8
  <2>2. j # i
    BY <1>3, <1>6, <1>8
  <2> QED
    BY <1>4, <1>5, <2>1, <2>2
<1> HIDE DEF i
<1> QED
  BY <1>3, <1>6, <1>8 DEF SignsFirst

LEMMA UnspoiltWrite ==
    ASSUME Typed, Signed, SavedSound, Unspoilt, WriteNext
    PROVE  Unspoilt'
<1> DEFINE w == pending[1]
           n == Len(pending)
<1>1. /\ Applied(w) /\ n \in Nat \ {0} /\ DOMAIN pending = 1 .. n
      /\ DOMAIN pending' = 1 .. (n - 1)
      /\ \A i \in 1 .. n - 1 : pending'[i] = pending[i + 1]
      /\ \/ saved' = Image' /\ call' = NoCall /\ pending' = <<>>
         \/ saved' = saved /\ call' = call
  BY NextHead
<1>2. pending # <<>> /\ (signature => signature')
  BY NextSigned DEF WriteNext, NextWrites
<1>3. w \in Range(pending)
  BY <1>1 DEF Range
<1>4. ASSUME ~signature'
      PROVE  /\ Untouched(disk') /\ SignsFirst' /\ pending' # <<>>
  <2>1. ~signature /\ Untouched(disk)
    BY <1>2, <1>4 DEF Unspoilt
  <2>2. PICK i \in 1 .. n :
          /\ pending[i].to = "boot"
          /\ \A j \in 1 .. n : pending[j].to = "disk" => j > i
    BY <1>1, <1>2, <2>1 DEF Unspoilt, SignsFirst
  <2>3. w.to # "boot"
    BY <1>1, <1>3, <1>4 DEF Applied, Signed
  <2>4. i # 1 /\ i - 1 \in 1 .. n - 1 /\ (i - 1) + 1 = i
    BY <1>1, <2>2, <2>3
  <2>5. w.to # "disk"
    BY <1>1, <2>2
  <2>6. disk' = disk
    BY <1>1, <2>5 DEF Applied
  <2>7. pending'[i - 1] = pending[i]
    BY <1>1, <2>4
  <2>8. ASSUME NEW j \in 1 .. n - 1, pending'[j].to = "disk"
        PROVE  j > i - 1
    <3>1. pending'[j] = pending[j + 1] /\ j + 1 \in 1 .. n
      BY <1>1
    <3>2. j + 1 > i
      BY <2>2, <2>8, <3>1
    <3> QED
      BY <3>2
  <2>9. SignsFirst'
    BY <1>1, <2>2, <2>4, <2>7, <2>8 DEF SignsFirst
  <2>10. pending' # <<>>
    BY <1>1, <2>4
  <2> QED
    BY <2>1, <2>6, <2>9, <2>10
<1>5. mounted' => signature'
  <2>1. CASE n = 1
    <3>1. DOMAIN pending' = 1 .. 0
      BY <1>1, <2>1
    <3>2. ~SignsFirst'
      BY <3>1 DEF SignsFirst
    <3> QED
      BY <1>4, <3>2
  <2>2. CASE n # 1
    <3>1. mounted' = mounted
      BY <2>2 DEF WriteNext
    <3> QED
      BY <1>2, <3>1 DEF Unspoilt
  <2> QED
    BY <2>1, <2>2
<1>6. call'.op = "mount" => Untouched(saved'.disk)
  <2>1. NoCall.op # "mount"
    BY DEF NoCall
  <2> QED
    BY <1>1, <2>1 DEF Unspoilt
<1> QED
  BY <1>4, <1>5, <1>6 DEF Unspoilt, Untouched

LEMMA NextUnspoilt ==
    Typed /\ Signed /\ SavedSound /\ Unspoilt /\ [NextWrites]_allVars => Unspoilt'
<1> SUFFICES ASSUME Typed, Signed, SavedSound, Unspoilt, [NextWrites]_allVars
             PROVE  Unspoilt'
  OBVIOUS
<1>1. CASE LoadAgain
  <2>1. /\ signature /\ signature' = signature /\ pending' = <<>> /\ call' = NoCall
    BY <1>1 DEF LoadAgain, Load
  <2> QED
    BY <2>1 DEF Unspoilt, NoCall
<1>2. CASE Stop
  <2>1. /\ signature' = signature /\ disk' = disk /\ pending' = <<>> /\ call' = call
        /\ saved' = saved /\ mounted' = FALSE
    BY <1>2 DEF Stop
  <2> QED
    BY <2>1 DEF Unspoilt, Untouched
<1>3. CASE UNCHANGED allVars
  BY <1>3 DEF allVars, vars, Unspoilt, Untouched, SignsFirst
<1>4. CASE StartFormat
  <2>1. /\ saved'.disk = disk /\ signature' = signature /\ mounted' = mounted
        /\ disk' = disk /\ ~signature
    BY <1>4, FormatCall DEF Image, vars, StartFormat, Unformatted
  <2>2. SignsFirst'
    BY <1>4, FormatSigns
  <2> QED
    BY <2>1, <2>2 DEF Unspoilt, Untouched
<1>5. CASE \E parent \in Parents, name \in Names :
             \/ \E buf \in Buffers : StartWrite(parent, name, buf)
             \/ StartDelete(parent, name)
  <2>1. UNCHANGED vars /\ call'.op \in {"write", "delete"}
    BY <1>5, StartFacts
  <2>2. mounted
    BY <1>5 DEF StartWrite, StartDelete, Idle
  <2>3. signature' = signature /\ signature /\ mounted' = mounted
    BY <2>1, <2>2 DEF vars, Unspoilt
  <2> QED
    BY <2>1, <2>3 DEF Unspoilt
<1> QED
  BY <1>1, <1>2, <1>3, <1>4, <1>5, UnspoiltWrite DEF NextWrites

LEMMA UnspoiltInit == InitWrites => Unspoilt
BY DEF InitWrites, Init, NoCall, Unspoilt, Untouched

\* No disk that has files is formatted, as long as every call has found a disk
\* without damage, whatever stops came before: the signature comes before the
\* first cluster, and then nothing erases it.
THEOREM FormatsSpareFiles == SpecWrites /\ []SavedSound => []FormatsEmptyOnly
<1>1. Unspoilt => FormatsEmptyOnly
  <2> SUFFICES ASSUME Unspoilt, call.op = "mount", NEW e \in Saved!Live
               PROVE  FALSE
    BY DEF FormatsEmptyOnly
  <2>1. saved.disk[e[1]].dir /\ e[1] \in Parents
    <3>1. Saved!Parents = Parents
      BY SavedOperators, Zenon DEF Saved!Parents, Parents, Saved!SUGAR_PARENT, SUGAR_PARENT
    <3> QED
      BY <3>1 DEF Saved!Live
  <2>2. saved.disk[e[1]] = Blank
    BY <2>1, Numbers DEF Unspoilt, Untouched
  <2> QED
    BY <2>1, <2>2, BlankType
<1> QED
  BY <1>1, TypedInit, SignedInit, UnspoiltInit, NextTyped, NextSigned, NextUnspoilt, PTL
     DEF SpecWrites

----------------------------------------------------------------------------
(* The two refinements together. *)

\* No machine has stopped inside a call.
Unstopped == resets = 0

\* The blocks, written one by one, add up to the tree of FileTree, as long as the
\* count stays within the clusters of the index and no machine has stopped inside
\* a call: the disk that the calls leave, seen as directories and named files,
\* changes by what FileTree allows.
THEOREM BlocksMakeTree == SpecWrites /\ []IndexRoom /\ []Unstopped => SavedDisk!TreeSpec
<1>1. InitWrites => Typed /\ Backed /\ Recorded
  BY TypedInit, RecordedInit
<1>2. InitWrites => SavedDisk!Init /\ Steady
  BY <1>1, SteadyInit, InitSaved
<1>3. /\ Typed /\ Typed' /\ Backed /\ Backed' /\ IndexRoom /\ IndexRoom' /\ Steady
      /\ [NextWrites]_allVars
      => Steady' /\ (Unstopped' => [SavedDisk!Next]_(SavedDisk!vars))
  BY NextSteady DEF SavedStep, Unstopped
<1>4. Steady /\ Unstopped => SavedDisk!IndexRoom
  <2>1. SavedDisk!INDEX = INDEX
    BY DEF SavedDisk!INDEX, INDEX
  <2> QED
    BY <2>1 DEF Steady, Unstopped, Count, SavedDisk!IndexRoom
<1>5. SavedDisk!Spec /\ []SavedDisk!IndexRoom => SavedDisk!TreeSpec
  <2>1. /\ N \in Nat /\ N > SavedDisk!FIRST_DATA /\ N < SavedDisk!CLUSTER_0
        /\ DirLength \in Nat \ {0} /\ IndexCapacity \in Nat /\ IndexCapacity <= N
        /\ MaxFragments \in Nat \ {0}
    BY SizesAssumption
       DEF SavedDisk!FIRST_DATA, SavedDisk!CLUSTER_0, FIRST_DATA, CLUSTER_0
  <2> QED
    BY SavedDisk!DriverImplementsTree, <2>1, NamesAssumption, BuffersAssumption
<1> QED
  BY <1>1, <1>2, <1>3, <1>4, <1>5, NextTyped, NextRecorded, PTL
     DEF SpecWrites, SavedDisk!Spec

----------------------------------------------------------------------------
(* That there is room in the index follows from the number of files.        *)

\* Between the calls, there are fewer files and directories than the index has
\* records: there is room for the one that a running write makes.
FewerFiles == Unstopped => Cardinality(SavedDisk!Starts) < IndexCapacity

\* The count stays within the clusters of the index, and so does any that is
\* still to be stored.
Roomy ==
    /\ exhausted = FALSE
    /\ Unstopped =>
         /\ Backed /\ Recorded /\ IndexRoom
         /\ \A w \in Range(pending) : w.to = "fat" => w.value[INDEX] <= IndexCapacity
         /\ SavedDisk!Catalogued

LEMMA SavedStartsFinite ==
    /\ \A S : SavedDisk!Cardinality(S) = Cardinality(S)
    /\ Cardinality(SavedDisk!Starts) \in Nat
    /\ Cardinality(SavedDisk!Starts') \in Nat
<1>0. \A S : SavedDisk!Cardinality(S) = Cardinality(S)
  BY DEF SavedDisk!Cardinality, Cardinality
<1>1. /\ N \in Nat /\ N > SavedDisk!FIRST_DATA /\ N < SavedDisk!CLUSTER_0
      /\ DirLength \in Nat \ {0} /\ IndexCapacity \in Nat /\ IndexCapacity <= N
      /\ MaxFragments \in Nat \ {0}
  BY SizesAssumption
     DEF SavedDisk!FIRST_DATA, SavedDisk!CLUSTER_0, FIRST_DATA, CLUSTER_0
<1>2. /\ SavedDisk!Cardinality(SavedDisk!Starts) \in Nat
      /\ SavedDisk!Cardinality(SavedDisk!Starts') \in Nat
  BY SavedDisk!StartsFinite, <1>1, NamesAssumption, BuffersAssumption
<1> QED
  BY <1>0, <1>2

LEMMA StartCounts ==
    ASSUME Typed, Backed,
           \/ StartFormat
           \/ \E parent \in Parents, name \in Names :
                \/ \E buf \in Buffers : StartWrite(parent, name, buf)
                \/ StartDelete(parent, name)
    PROVE  \A w \in Range(pending') :
             w.to = "fat" => w.value[INDEX] \in 0 .. fat[INDEX] + 1
<1>1. fat[INDEX] \in Nat
  BY CountTypes
<1>2. SUFFICES ASSUME NEW w \in Range(pending'), w.to = "fat"
               PROVE  \E n \in 0 .. fat[INDEX] + 1 : Plain(w, n)
  BY <1>1 DEF Plain
<1>3. PICK q \in DOMAIN pending' : w = pending'[q]
  BY DEF Range
<1>4. CASE StartFormat
  <2>1. Plain(w, 0)
    BY <1>3, <1>4, FormatPlain
  <2> QED
    BY <1>1, <2>1
<1>5. ASSUME NEW parent \in Parents, NEW name \in Names, NEW buf \in Buffers,
             StartWrite(parent, name, buf)
      PROVE  \E n \in 0 .. fat[INDEX] + 1 : Plain(w, n)
  <2>1. PICK L : AppendMeans(L)
    BY <1>5, WriteRecords
  <2>2. q \in Nat /\ L \in Nat
    BY <2>1, SeqShape DEF AppendMeans
  <2>3. q # L + 1
    BY <1>2, <1>3, <2>1 DEF AppendMeans
  <2>4. Plain(w, fat[INDEX]) \/ Plain(w, fat[INDEX] + 1)
    BY <1>3, <2>1, <2>2, <2>3 DEF AppendMeans
  <2> QED
    BY <1>1, <2>4
<1>6. ASSUME NEW parent \in Parents, NEW name \in Names, StartDelete(parent, name)
      PROVE  \E n \in 0 .. fat[INDEX] + 1 : Plain(w, n)
  <2>1. CASE \A v \in Range(pending') : Plain(v, fat[INDEX])
    BY <1>1, <2>1
  <2>2. CASE \E a : RemoveMeans(a, name, parent)
    <3>1. PICK a : RemoveMeans(a, name, parent)
      BY <2>2
    <3>2. fat[INDEX] - 1 \in 0 .. fat[INDEX] + 1
      BY <1>1, <3>1 DEF RemoveMeans
    <3>3. ~(q <= fat[INDEX] - a)
      BY <1>2, <1>3, <3>1, WriteFields DEF RemoveMeans
    <3>4. Plain(w, fat[INDEX] - 1)
      BY <1>3, <3>1, <3>3 DEF RemoveMeans
    <3> QED
      BY <3>2, <3>4
  <2> QED
    BY <1>6, <2>1, <2>2, DeleteRecords
<1> QED
  BY <1>4, <1>5, <1>6

\* The count and the counts still to come, after a step.
LEMMA CountsNext ==
    ASSUME Typed, Steady, Roomy, FewerFiles, Unstopped, [NextWrites]_allVars
    PROVE  /\ IndexRoom'
           /\ \A w \in Range(pending') : w.to = "fat" => w.value[INDEX] <= IndexCapacity
<1>1. /\ Backed /\ IndexRoom /\ SavedDisk!IndexFits /\ exhausted = FALSE
      /\ IndexCapacity \in Nat
      /\ \A w \in Range(pending) : w.to = "fat" => w.value[INDEX] <= IndexCapacity
  BY SizesAssumption DEF Roomy, SavedDisk!Catalogued
<1>2. fat[INDEX] \in Nat /\ Count \in Nat
  BY CountTypes
<1>3. Count < IndexCapacity
  <2>1. Count <= Cardinality(SavedDisk!Starts)
    <3>1. SavedDisk!INDEX = INDEX
      BY DEF SavedDisk!INDEX, INDEX
    <3> QED
      BY <1>1, <3>1, SavedStartsFinite DEF SavedDisk!IndexFits, Count
  <2>2. Cardinality(SavedDisk!Starts) \in Nat
    BY SavedStartsFinite
  <2> QED
    BY <1>1, <1>2, <2>1, <2>2 DEF FewerFiles
<1>4. CASE \/ StartFormat
           \/ \E parent \in Parents, name \in Names :
                \/ \E buf \in Buffers : StartWrite(parent, name, buf)
                \/ StartDelete(parent, name)
  <2>1. pending = <<>> /\ fat' = fat
    BY <1>4, StartFacts DEF vars
  <2>2. fat[INDEX] = Count
    BY <2>1 DEF Steady, Unstopped, Image, Count
  <2>3. \A w \in Range(pending') :
          w.to = "fat" => w.value[INDEX] \in 0 .. fat[INDEX] + 1
    BY <1>1, <1>4, StartCounts
  <2>4. ASSUME NEW w \in Range(pending'), w.to = "fat"
        PROVE  w.value[INDEX] <= IndexCapacity
    BY <1>1, <1>2, <1>3, <2>2, <2>3, <2>4
  <2> QED
    BY <1>1, <2>1, <2>4 DEF IndexRoom
<1>5. CASE WriteNext
  <2>1. /\ WellMade(pending[1]) /\ Applied(pending[1])
        /\ Len(pending) \in Nat \ {0} /\ DOMAIN pending = 1 .. Len(pending)
        /\ DOMAIN pending' = 1 .. (Len(pending) - 1)
        /\ \A i \in 1 .. Len(pending) - 1 : pending'[i] = pending[i + 1]
    BY <1>5, NextHead
  <2>2. pending[1] \in Range(pending)
    BY <2>1, InRange
  <2>3. IndexRoom'
    BY <1>1, <2>1, <2>2, AppliedCount DEF IndexRoom
  <2>4. ASSUME NEW w \in Range(pending')
        PROVE  w \in Range(pending)
    <3>1. PICK i \in DOMAIN pending' : w = pending'[i]
      BY DEF Range
    <3>2. i + 1 \in DOMAIN pending /\ w = pending[i + 1]
      BY <2>1, <3>1
    <3> QED
      BY <3>2, InRange
  <2> QED
    BY <1>1, <2>3, <2>4
<1>6. CASE LoadAgain \/ Stop \/ UNCHANGED allVars
  <2>1. fat' = fat /\ (pending' = pending \/ pending' = <<>>)
    BY <1>6 DEF LoadAgain, Load, Stop, allVars, vars
  <2> QED
    BY <1>1, <2>1, SeqNone DEF IndexRoom
<1> QED
  BY <1>4, <1>5, <1>6 DEF NextWrites

LEMMA ResetsGrow ==
    ASSUME Steady, [NextWrites]_allVars
    PROVE  resets \in Nat /\ resets' \in Nat /\ (resets' = 0 => resets = 0)
<1>1. UNCHANGED allVars => resets' = resets
  BY DEF allVars
<1>2. LoadAgain \/ Stop \/ WriteNext => resets' = resets \/ resets' = resets + 1
  BY Zenon DEF LoadAgain, Stop, WriteNext
<1>3. resets' = resets \/ resets' = resets + 1
  BY <1>1, <1>2, StartFacts DEF NextWrites
<1> QED
  BY <1>3 DEF Steady

LEMMA NeverExhausted ==
    ASSUME exhausted = FALSE, [NextWrites]_allVars
    PROVE  exhausted' = FALSE
<1>1. UNCHANGED allVars \/ LoadAgain \/ Stop \/ WriteNext => exhausted' = exhausted
  BY DEF allVars, vars, LoadAgain, Load, Stop, WriteNext
<1>2. UNCHANGED vars => exhausted' = exhausted
  BY DEF vars
<1> QED
  BY <1>1, <1>2, StartFacts DEF NextWrites

LEMMA NextRoomy ==
    ASSUME Typed, Typed', Steady, Roomy, FewerFiles, FewerFiles', [NextWrites]_allVars
    PROVE  Steady' /\ Roomy' /\ (resets' = 0 => SavedStep)
<1>1. resets \in Nat /\ resets' \in Nat /\ (resets' = 0 => resets = 0)
  BY ResetsGrow
<1>2. exhausted = FALSE /\ exhausted' = FALSE
  BY NeverExhausted DEF Roomy
<1>3. CASE resets' # 0
  BY <1>1, <1>2, <1>3 DEF Steady, Roomy, Unstopped
<1>4. CASE resets' = 0
  <2>1. Unstopped /\ Unstopped'
    BY <1>1, <1>4 DEF Unstopped
  <2>2. Backed /\ Recorded /\ IndexRoom /\ SavedDisk!Catalogued
    BY <2>1 DEF Roomy
  <2>3. /\ IndexRoom'
        /\ \A w \in Range(pending') : w.to = "fat" => w.value[INDEX] <= IndexCapacity
    BY <2>1, CountsNext
  <2>4. Backed' /\ Recorded'
    BY <2>2, <2>3, NextRecorded
  <2>5. Steady' /\ SavedStep
    BY <1>4, <2>2, <2>3, <2>4, NextSteady
  <2>6. SavedDisk!Consistent /\ SavedDisk!Consistent'
    <3>1. Saved!Consistent /\ Saved!Consistent'
      BY <2>1, <2>5 DEF Steady, Unstopped
    <3>2. Saved!Consistent' <=> SavedDisk!Consistent'
      BY SameConsistent, PTL
    <3> QED
      BY <3>1, <3>2, SameConsistent
  <2>7. SavedDisk!FewFiles /\ SavedDisk!FewFiles'
    <3>1. /\ \A S : SavedDisk!Cardinality(S) = Cardinality(S)
          /\ Cardinality(SavedDisk!Starts) \in Nat
          /\ Cardinality(SavedDisk!Starts') \in Nat
      BY SavedStartsFinite
    <3> QED
      BY <2>1, <3>1, SizesAssumption DEF FewerFiles, SavedDisk!FewFiles
  <2>8. SavedDisk!Catalogued'
    <3>1. /\ N \in Nat /\ N > SavedDisk!FIRST_DATA /\ N < SavedDisk!CLUSTER_0
          /\ DirLength \in Nat \ {0} /\ IndexCapacity \in Nat /\ IndexCapacity <= N
          /\ MaxFragments \in Nat \ {0}
      BY SizesAssumption
         DEF SavedDisk!FIRST_DATA, SavedDisk!CLUSTER_0, FIRST_DATA, CLUSTER_0
    <3>2. [SavedDisk!Next]_(SavedDisk!vars)
      BY <2>5 DEF SavedStep
    <3> QED
      BY SavedDisk!NextCatalogued, <2>2, <2>6, <2>7, <3>1, <3>2, NamesAssumption,
         BuffersAssumption
  <2> QED
    BY <1>2, <2>3, <2>4, <2>5, <2>8 DEF Roomy
<1> QED
  BY <1>3, <1>4

LEMMA RoomyInit == InitWrites => Typed /\ Steady /\ Roomy /\ SavedDisk!Init
<1> SUFFICES ASSUME InitWrites
             PROVE  Typed /\ Steady /\ Roomy /\ SavedDisk!Init
  OBVIOUS
<1>1. Typed /\ Backed /\ Recorded
  BY TypedInit, RecordedInit
<1>2. Steady /\ SavedDisk!Init
  BY <1>1, SteadyInit, InitSaved
<1>3. exhausted = FALSE /\ pending = <<>> /\ fat = ZeroTable
  BY DEF InitWrites, Init
<1>4. IndexRoom
  BY <1>3, SizesAssumption, Numbers DEF IndexRoom, ZeroTable, EMPTY
<1>5. SavedDisk!Catalogued
  <2>1. /\ N \in Nat /\ N > SavedDisk!FIRST_DATA /\ N < SavedDisk!CLUSTER_0
        /\ DirLength \in Nat \ {0} /\ IndexCapacity \in Nat /\ IndexCapacity <= N
        /\ MaxFragments \in Nat \ {0}
    BY SizesAssumption
       DEF SavedDisk!FIRST_DATA, SavedDisk!CLUSTER_0, FIRST_DATA, CLUSTER_0
  <2> QED
    BY SavedDisk!CataloguedInit, <1>2, <2>1, NamesAssumption, BuffersAssumption
<1> QED
  BY <1>1, <1>2, <1>3, <1>4, <1>5, SeqNone DEF Roomy

\* Block by block, a call does what it does in one step of Fat32, as long as no
\* machine has stopped inside a call and there are, between the calls, fewer
\* files and directories than the index has records: the condition is about the
\* files, and not about the count, which the code keeps.
THEOREM FewFilesAtomic == SpecWrites /\ []FewerFiles => CallsAreAtomic
<1>1. InitWrites => Saved!Init
  BY TypedInit, RecordedInit, SteadyInit
<1>2. /\ Typed /\ Typed' /\ Steady /\ Roomy /\ FewerFiles /\ FewerFiles'
      /\ [NextWrites]_allVars
      => Steady' /\ Roomy' /\ (resets' = 0 => Saved!Next \/ UNCHANGED Saved!vars)
  BY NextRoomy DEF SavedStep
<1> QED
  BY <1>1, <1>2, RoomyInit, NextTyped, PTL DEF SpecWrites, CallsAreAtomic

\* With fewer files and directories than the index has records, the blocks add up
\* to the tree of FileTree as well, as long as no machine has stopped inside a
\* call.
THEOREM FewFilesBlocks ==
    SpecWrites /\ []FewerFiles /\ []Unstopped => SavedDisk!TreeSpec
<1>1. /\ Typed /\ Typed' /\ Steady /\ Roomy /\ FewerFiles /\ FewerFiles'
      /\ [NextWrites]_allVars
      => Steady' /\ Roomy' /\ (Unstopped' => [SavedDisk!Next]_(SavedDisk!vars))
  BY NextRoomy DEF SavedStep, Unstopped
<1>2. Steady /\ Unstopped => SavedDisk!IndexRoom
  <2>1. SavedDisk!INDEX = INDEX
    BY DEF SavedDisk!INDEX, INDEX
  <2> QED
    BY <2>1 DEF Steady, Unstopped, Count, SavedDisk!IndexRoom
<1>3. SavedDisk!Spec /\ []SavedDisk!IndexRoom => SavedDisk!TreeSpec
  <2>1. /\ N \in Nat /\ N > SavedDisk!FIRST_DATA /\ N < SavedDisk!CLUSTER_0
        /\ DirLength \in Nat \ {0} /\ IndexCapacity \in Nat /\ IndexCapacity <= N
        /\ MaxFragments \in Nat \ {0}
    BY SizesAssumption
       DEF SavedDisk!FIRST_DATA, SavedDisk!CLUSTER_0, FIRST_DATA, CLUSTER_0
  <2> QED
    BY SavedDisk!DriverImplementsTree, <2>1, NamesAssumption, BuffersAssumption
<1> QED
  BY <1>1, <1>2, <1>3, RoomyInit, NextTyped, PTL DEF SpecWrites, SavedDisk!Spec

\* With fewer files and directories than the index has records, every record that
\* a call is not about is found at whatever write the first machine stops: any
\* step before that, and the stop itself, leaves a disk that lists it.
THEOREM FewFilesStayListed ==
    SpecWrites /\ []FewerFiles => OthersListed /\ [][Unstopped => OthersListed']_allVars
<1>1. InitWrites => OthersListed
  BY TypedInit, RecordedInit, RecordedMeans
<1>2. /\ Typed /\ Typed' /\ Steady /\ Roomy /\ FewerFiles /\ FewerFiles'
      /\ [NextWrites]_allVars
      => Steady' /\ Roomy'
  BY NextRoomy
<1>3. /\ Typed /\ Typed' /\ Steady /\ Roomy /\ Roomy' /\ [NextWrites]_allVars /\ Unstopped
      => OthersListed'
  <2> SUFFICES ASSUME Typed, Typed', Steady, Roomy, Roomy', [NextWrites]_allVars,
                      Unstopped
               PROVE  OthersListed'
    OBVIOUS
  <2>1. Backed /\ Recorded
    BY DEF Roomy
  <2>2. CASE Stop
    <3>1. Backed' /\ Recorded'
      BY <2>1, <2>2, RecordedIdle
    <3>2. Typed' /\ Backed' /\ Recorded' => OthersListed'
      BY RecordedMeans, PTL
    <3> QED
      BY <3>1, <3>2
  <2>3. CASE ~Stop
    <3>1. resets' = 0
      <4>1. UNCHANGED allVars => resets' = resets
        BY DEF allVars
      <4>2. LoadAgain \/ WriteNext => resets' = resets
        BY DEF LoadAgain, WriteNext
      <4> QED
        BY <2>3, <4>1, <4>2, StartFacts DEF NextWrites, Unstopped
    <3>2. Backed' /\ Recorded'
      BY <3>1 DEF Roomy, Unstopped
    <3>3. Typed' /\ Backed' /\ Recorded' => OthersListed'
      BY RecordedMeans, PTL
    <3> QED
      BY <3>2, <3>3
  <2> QED
    BY <2>2, <2>3
<1> QED
  BY <1>1, <1>2, <1>3, RoomyInit, NextTyped, PTL DEF SpecWrites

=============================================================================

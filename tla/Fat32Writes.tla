---------------------------- MODULE Fat32Writes ----------------------------
(***************************************************************************)
(* The calls of filesystem/fat32.c that change the disk, block by block,   *)
(* with a machine that may stop between any two of them.                   *)
(*                                                                         *)
(* A call works out its writes in memory (Start...) and they reach the     *)
(* disk one per step, in the order of the code (WriteNext).  Without a     *)
(* stop inside a call this module implements Fat32, whose calls are one    *)
(* step each: the disk that Fat32 sees is `saved`, the disk as the last    *)
(* call that returned has left it.                                         *)
(***************************************************************************)
EXTENDS Fat32

CONSTANTS
    BlockCells,     \* cells of the FAT in one block (128): a write of the FAT
                    \* reaches the disk block by block
    MaxResets       \* bound: stops inside a call

ASSUME WritesAssumption == BlockCells \in Nat \ {0} /\ MaxResets \in Nat

VARIABLES
    pending,    \* the writes that the running call has still to make
    call,       \* the running call: its operation, parent and name
    saved,      \* the disk as the last call that returned left it (history)
    resets      \* stops inside a call so far

allVars == <<vars, pending, call, saved, resets>>

Image  == [signature |-> signature, fat |-> fat, disk |-> disk, index |-> index]
NoCall == [op |-> "none", parent |-> 0, name |-> NoName]

----------------------------------------------------------------------------
(* Writes of one block, or of blocks that nothing tells apart. *)

ToBoot(sign)         == [to |-> "boot", value |-> sign]
ToCluster(c, value)  == [to |-> "disk", at |-> c, value |-> value]
ToRecord(i, record)  == [to |-> "index", at |-> i, value |-> record]
ToFAT(block, table)  == [to |-> "fat", at |-> block, value |-> table]

\* The loop has left the table: no write follows.
Lost == [to |-> "nowhere"]

FatWrites(table) ==
    [b \in 1 .. ((N + BlockCells - 1) \div BlockCells) |-> ToFAT(b - 1, table)]

\* Mutant: the old table is erased before the new one is written.
EntryWrites_Erase(parent, table) ==
    <<ToCluster(parent, Blank), ToCluster(parent, table)>>

\* The header of a table is in its first block, the slot may be in a later one.
EntryWrites(parent, table) ==
    <<ToCluster(parent, [disk[parent] EXCEPT !.notempty = table.notempty]),
      ToCluster(parent, table)>>

\* Mutant: the loop stops one record early.
ShiftWrites_Short(i) ==
    [j \in 1 .. (fat[INDEX] - i - 1) |-> ToRecord(i + j - 1, index[i + j])]

\* The records from place i on move down by one; the last one stays behind.
ShiftWrites(i) ==
    [j \in 1 .. (fat[INDEX] - i) |-> ToRecord(i + j - 1, index[i + j])]

\* What one write does to the disk.  The three clusters of the index end with
\* record IndexCapacity: what comes after it is not stored.
Applied(w) ==
    /\ signature' = IF w.to = "boot" THEN w.value ELSE signature
    /\ fat' = [c \in Clusters |->
                 IF w.to = "fat" /\ c \div BlockCells = w.at THEN w.value[c]
                                                             ELSE fat[c]]
    /\ disk' = IF w.to = "disk" THEN [disk EXCEPT ![w.at] = w.value] ELSE disk
    /\ index' = IF w.to # "index" \/ w.at > IndexCapacity THEN index
                ELSE [i \in 1 .. (IF w.at > Len(index) THEN w.at ELSE Len(index))
                        |-> IF i = w.at THEN w.value ELSE index[i]]

----------------------------------------------------------------------------
(* The calls.  None starts before the one before it has returned. *)

Begin(op, parent, name, writes) ==
    /\ pending' = writes
    /\ call' = [op |-> op, parent |-> parent, name |-> name]
    /\ saved' = Image
    /\ UNCHANGED <<vars, resets>>

Idle == mounted /\ pending = <<>>

\* Mutant: the clusters of the new entry are written after its parent's table.
WriteOrder_EntryFirst(payload, entry, table, counted) ==
    entry \o payload \o FatWrites(table) \o counted

\* write: payload, the parent's table, the FAT, then insert_index.
WriteOrder(payload, entry, table, counted) ==
    payload \o entry \o FatWrites(table) \o counted

StartWrite(parent, name, buf) ==
    /\ Idle
    /\ disk[parent].dir
    /\ ~IsDuplicate(disk[parent], name)
    /\ Cardinality(Available(fat)) >= Len(buf)
    /\ fat[INDEX] < N
    /\ \E s \in FirstFree(disk[parent]), cl \in [1 .. ClustersFor(buf) -> Data] :
         LET table   == Linked(fat, cl)
             content == [i \in DOMAIN cl |-> IF buf = <<>> THEN DirTable(name, parent)
                                                          ELSE FileBlock(buf[i])]
         IN  /\ IsAllocation(fat, cl)
             /\ Begin("write", parent, name, WriteOrder(
                  [i \in DOMAIN cl |-> ToCluster(cl[i], content[i])],
                  EntryWrites(parent,
                     WithEntry(disk[parent], s, name, buf = <<>>, cl[1])),
                  table,
                  <<ToRecord(fat[INDEX] + 1, <<name, parent>>)>>
                     \o FatWrites([table EXCEPT ![INDEX] = fat[INDEX] + 1])))

\* Mutant: the loop empties a cell before it takes the next cluster from it.
Steps_EmptiedFirst(first) == [i \in 1 .. N |-> IF i = 1 THEN first ELSE EMPTY]

\* The clusters that the loop of delete visits: it goes on while a cell is no
\* end mark, and it leaves the table when a cell is no cluster.  The loop empties
\* the cells behind it, which no walk meets again: see LinksAscend.
Steps(first) ==
    LET step[i \in 1 .. N] ==
            IF i = 1 THEN first
            ELSE LET c == step[i - 1]
                 IN  IF c \in Clusters /\ fat[c] # EOF THEN fat[c] ELSE EOF
    IN  step

\* The part of a walk that is in S: nothing is after the first step outside it.
WithinOf(way, S) == SubSeq(way, 1, Cardinality({i \in DOMAIN way : way[i] \in S}))

Visits(entry) ==
    LET way == Steps(entry.cl)
    IN  WithinOf(way, Range(way) \ {EOF})

\* A zeroed cluster.  Cluster 0 holds the boot sector.
ZeroWrite(c) == IF c = 0 THEN ToBoot(FALSE) ELSE ToCluster(c, Blank)

\* Mutant: the count of the index is stored before the records are.
DeleteOrder_CountFirst(records, counted, rest) == counted \o records \o rest

\* delete_index: the records, then the count.  delete goes on with the rest.
DeleteOrder(records, counted, rest) == records \o counted \o rest

StartDelete(parent, name) ==
    /\ Idle
    /\ disk[parent].dir
    /\ \E s \in FirstNamed(disk[parent], name) :
         LET entry == disk[parent].slot[s]
             table == Loaded(NoRecord)
             found == FirstRecord(table, <<name, parent>>)
             count == IF found = {} THEN fat[INDEX] ELSE fat[INDEX] - 1
             at    == IF found = {} THEN fat[INDEX] ELSE CHOOSE i \in found : TRUE
             gone  == IF entry.dir THEN <<entry.cl>> ELSE Visits(entry)
             inside == WithinOf(gone, Clusters)
             zeros == [i \in DOMAIN inside |-> ZeroWrite(inside[i])]
         IN  /\ ~RefusesDelete(entry)
             /\ Begin("delete", parent, name, DeleteOrder(
                  ShiftWrites(at),
                  IF found = {} THEN <<>>
                                ELSE FatWrites([fat EXCEPT ![INDEX] = count]),
                  zeros \o
                  IF inside # gone THEN <<Lost>>
                  ELSE EntryWrites(parent, [disk[parent] EXCEPT !.slot[s] = Reset(@)])
                       \o FatWrites([Freed(fat, Range(gone)) EXCEPT ![INDEX] = count])))

\* Mutant: the boot sector is not compared with the signature.
Unformatted_Always == pending = <<>> /\ ~mounted

\* is_empty_storage.
Unformatted == pending = <<>> /\ ~mounted /\ ~signature

\* create_fat32, initialize_root, init_index_file.
StartFormat ==
    /\ Unformatted
    /\ Begin("mount", 0, NoName,
         FatWrites([c \in Clusters |-> IF c \in {4, 5} THEN EMPTY
                                                       ELSE FormattedTable[c]])
           \o <<ToBoot(TRUE), ToCluster(ROOT, DirTable(NoName, ROOT))>>
           \o FatWrites(FormattedTable))

----------------------------------------------------------------------------
(* Steps. *)

\* The next write would be outside the disk.
Hangs == pending # <<>> /\ Head(pending) = Lost

\* The last write is made and the call returns.
Return ==
    /\ mounted' = TRUE
    /\ fat_table' = fat'
    /\ reply' = IF call.op = "mount" THEN reply ELSE Reply(call.op, 0, <<>>)
    /\ saved' = Image'
    /\ call' = NoCall

WriteNext ==
    /\ pending # <<>>
    /\ ~Hangs
    /\ Applied(Head(pending))
    /\ pending' = Tail(pending)
    /\ IF Len(pending) = 1 THEN Return
                           ELSE UNCHANGED <<mounted, fat_table, reply, saved, call>>
    /\ UNCHANGED <<exhausted, resets>>

\* initialize_filesystem_fat32 on a disk with the signature: nothing is repaired.
LoadAgain ==
    /\ pending = <<>>
    /\ Load
    /\ saved' = Image
    /\ call' = NoCall
    /\ UNCHANGED <<pending, resets>>

\* The machine stops, between two calls or inside one, or is reset because the
\* loop of a delete does not end.
Stop ==
    /\ \/ (Idle \/ Hangs) /\ resets' = resets
       \/ pending # <<>> /\ ~Hangs /\ resets < MaxResets /\ resets' = resets + 1
    /\ pending' = <<>>
    /\ mounted' = FALSE
    /\ fat_table' = ZeroTable
    /\ reply' = NoReply
    /\ UNCHANGED <<signature, fat, disk, index, exhausted, call, saved>>

InitWrites == Init /\ pending = <<>> /\ call = NoCall /\ saved = Image /\ resets = 0

NextWrites ==
    \/ StartFormat \/ LoadAgain \/ Stop \/ WriteNext
    \/ \E parent \in Parents, name \in Names :
        \/ \E buf \in Buffers : StartWrite(parent, name, buf)
        \/ StartDelete(parent, name)

SpecWrites == InitWrites /\ [][NextWrites]_allVars

----------------------------------------------------------------------------
(* Properties. *)

\* The disk of the calls that have returned.  The records past the count are
\* leftovers of a shift.
Saved == INSTANCE Fat32 WITH
    signature <- saved.signature,
    fat       <- saved.fat,
    disk      <- saved.disk,
    index     <- SubSeq(saved.index, 1, saved.fat[INDEX])

\* Block by block, a call does what it does in one step of Fat32, as long as no
\* machine has stopped inside one.
CallsAreAtomic ==
    Saved!Init /\ [][resets' = 0 => Saved!Next \/ UNCHANGED Saved!vars]_allVars

\* Entries that the running call is about: its target, and what is inside it.
Target(e) == e[1] = call.parent /\ Saved!EntryAt(e).name = call.name

Concerned ==
    {e \in Saved!Live : \/ Target(e)
                        \/ \E t \in Saved!Live : Target(t) /\ Saved!HeadOf(t) = e[1]}

Bystanders == Saved!Live \ Concerned

\* No earlier stop has left damage behind: the disk is one that Fat32 can reach.
SavedSound == Saved!NoCrossLink /\ Saved!EntriesLead /\ Saved!FreeIsBlank

\* Wherever a call is interrupted, every other entry is still there, its chain
\* is the one it had, and its clusters hold what they held.
OthersSurvive ==
    call.op # "mount" /\ SavedSound =>
        \A e \in Bystanders :
            /\ e \in Live /\ EntryAt(e) = Saved!EntryAt(e)
            /\ EntryAt(e).dir =>
                 LET c == HeadOf(e)
                 IN  /\ disk[c].dir /\ disk[c].up = e[1]
                     /\ fat[c] = EOF
            /\ ~EntryAt(e).dir =>
                 \A ch \in SeqUpTo(Data, MaxFragments) \ {<<>>} :
                    Saved!IsChain(saved.fat, ch) /\ ch[1] = HeadOf(e) =>
                        /\ IsChain(fat, ch)
                        /\ Payload(ch) = Saved!Payload(ch)

\* Wherever a call is interrupted, whereis still finds every other entry.
OthersListed ==
    call.op # "mount" /\ SavedSound /\ Saved!IndexRoom /\ Saved!IndexComplete =>
        \A e \in Bystanders : \E i \in 1 .. fat[INDEX] :
            index[i] = <<Saved!EntryAt(e).name, e[1]>>

\* A name that a write has entered in a table leads to what was written, even
\* if the machine stops before the FAT is stored: a directory to its own table,
\* a file to payloads as far as its chain goes.
NoNameBeforeData ==
    call.op = "write" /\ SavedSound =>
        \A e \in Live \ Saved!Live :
            IF EntryAt(e).dir
            THEN disk[HeadOf(e)].dir /\ disk[HeadOf(e)].up = e[1]
            ELSE \A ch \in SeqUpTo(Data, MaxFragments) \ {<<>>} :
                    /\ disk[HeadOf(e)].data \in Blocks
                    /\ ch[1] = HeadOf(e) /\ IsChain(fat, ch) =>
                         \A i \in DOMAIN ch : disk[ch[i]].data \in Blocks

\* "if is_empty_storage() then create_fat32()": a disk that has files is not
\* formatted, as long as every call has found a disk without damage.  (A delete
\* that follows a damaged chain can erase the boot sector with its signature,
\* and what the next formatting leaves behind can look sound in the end.)
FormatsEmptyOnly == call.op = "mount" /\ SavedSound => Saved!Live = {}

\* A call that found a disk without damage never erases the signature, which
\* would make the next start format the disk: the loop of delete, which takes
\* the next cluster from a cell that it empties, never arrives at cluster 0.
SignatureStays == [][signature /\ SavedSound => signature']_allVars

\* The links of the FAT lead to higher clusters, wherever a machine has stopped
\* and whatever the damage: the loop of delete, which looks for an end mark and
\* has no other bound, may leave the data clusters at the end of a torn chain
\* (Visits), but never comes to one of them twice.
LinksAscend == \A c \in Data : fat[c] \in Data => fat[c] > c

=============================================================================

------------------------------ MODULE AtaDisk ------------------------------
(***************************************************************************)
(* The disk driver, disk.c: read_blocks and write_blocks over the ports of *)
(* an ATA device.  The device runs beside the driver: it takes a command,  *)
(* is busy, offers or asks for one block word by word, is busy again, and  *)
(* still has the last block of a write to store when write_blocks returns. *)
(*                                                                         *)
(* Some devices are not what the driver was written for: a "late" one      *)
(* raises the busy bit only some time after a command, and one with        *)
(* "errors" breaks commands off.                                           *)
(***************************************************************************)
EXTENDS Integers, Sequences

CONSTANTS
    Blocks,           \* the addresses of the device
    Words,
    HALF_BLOCK_SIZE,  \* words in a block
    Base,             \* values of an address port (256)
    HighBase,         \* values of the highest one, which has four bits (16)
    MaxCount          \* bound: blocks in a call

\* block_count is a byte; the device has no more blocks than the ports address.
ASSUME DiskAssumption ==
    /\ HALF_BLOCK_SIZE \in Nat \ {0}
    /\ Base \in Nat \ {0} /\ HighBase \in Nat \ {0}
    /\ Blocks \subseteq 0 .. (Base * (Base * (Base * HighBase)) - 1)
    /\ MaxCount \in 1 .. 255

VARIABLES
    pc, call,     \* where the driver is, and its arguments
    i, j,         \* loop counters of the driver
    target,       \* the words read so far, or those to be written
    answer,       \* what the last read_blocks left at ptr (history)
    ports,        \* the address ports, lowest byte first
    faults,       \* what this device does that the driver does not expect
    device,       \* the device's command, block, and words of it
    disk,         \* what is stored
    named         \* blocks that the last command writes (history)

driverVars == <<pc, call, i, j, target, answer>>
vars == <<driverVars, ports, faults, device, disk, named>>

BlockContents == [1 .. HALF_BLOCK_SIZE -> Words]

\* Mutant: the first and second port swapped.
Digits_Swapped(lba) ==
    <<(lba \div Base) % Base, lba % Base, ((lba \div Base) \div Base) % Base,
      (((lba \div Base) \div Base) \div Base) % HighBase>>

\* The address is cut into four ports.
Digits(lba) ==
    <<lba % Base, (lba \div Base) % Base, ((lba \div Base) \div Base) % Base,
      (((lba \div Base) \div Base) \div Base) % HighBase>>

Address == ports[1] + Base * (ports[2] + Base * (ports[3] + Base * ports[4]))

----------------------------------------------------------------------------
(* The device. *)

Resting == [phase |-> "idle", op |-> "read", block |-> 0, left |-> 0, buffer |-> <<>>]

Bsy == device.phase = "busy"

\* Mutant: the test that the name of ATA_DRQ_wait speaks of.
Rdy_DataRequest == device.phase = "data"

Rdy == ~Bsy

\* The command port.  A device that is busy ignores it, and the address ports.
TakeCommand(op, count) ==
    device' = IF Bsy THEN device
              ELSE [phase |-> IF "late" \in faults THEN "late" ELSE "busy", op |-> op,
                    block |-> Address, left |-> count, buffer |-> <<>>]

Notice ==
    /\ device.phase = "late"
    /\ device' = [device EXCEPT !.phase = "busy"]
    /\ UNCHANGED <<driverVars, ports, disk, named, faults>>

\* A block that has been passed on: the next one, or the end of the command.
Passed == [device EXCEPT !.left = @ - 1, !.block = @ + 1, !.buffer = <<>>]

\* The device gets a block, stores one, or breaks the command off: for a block
\* that it does not have, always.
Work ==
    /\ Bsy
    /\ \/ /\ device.op = "read" /\ device.block \in Blocks
          /\ device' = [device EXCEPT !.phase = "data", !.buffer = disk[device.block]]
          /\ UNCHANGED disk
       \/ /\ device.op = "write" /\ device.buffer = <<>>
          /\ device' = [device EXCEPT !.phase = "data"]
          /\ UNCHANGED disk
       \/ /\ device.op = "write" /\ device.buffer # <<>> /\ device.block \in Blocks
          /\ disk' = [disk EXCEPT ![device.block] = device.buffer]
          /\ device' = [Passed EXCEPT !.phase = IF device.left = 1 THEN "idle" ELSE "data"]
       \/ /\ "errors" \in faults \/ device.block \notin Blocks
          /\ device' = Resting
          /\ UNCHANGED disk
    /\ UNCHANGED <<driverVars, ports, named, faults>>

\* The data port.  A device that has no data gives anything.
InWord(word) ==
    IF device.phase = "data" /\ device.op = "read"
    THEN /\ word = Head(device.buffer)
         /\ device' = IF Len(device.buffer) > 1
                      THEN [device EXCEPT !.buffer = Tail(@)]
                      ELSE [Passed EXCEPT !.phase = IF device.left = 1 THEN "idle" ELSE "busy"]
    ELSE UNCHANGED device

OutWord(word) ==
    device' = IF device.phase = "data" /\ device.op = "write"
              THEN [device EXCEPT !.buffer = Append(@, word),
                        !.phase = IF Len(device.buffer) + 1 = HALF_BLOCK_SIZE
                                  THEN "busy" ELSE "data"]
              ELSE device

----------------------------------------------------------------------------
(* The driver. *)

Goto(label) == pc' = label /\ UNCHANGED <<call, answer>>

NoCall == [op |-> "read", lba |-> 0, count |-> 0]

Span(lba, count) == lba .. (lba + count - 1)

Call ==
    /\ pc = "idle"
    /\ \E lba \in Blocks, count \in 1 .. MaxCount, op \in {"read", "write"} :
         /\ Span(lba, count) \subseteq Blocks
         /\ call' = [op |-> op, lba |-> lba, count |-> count]
         /\ target' \in IF op = "read" THEN {<<>>} ELSE [1 .. count * HALF_BLOCK_SIZE -> Words]
    /\ pc' = "start"
    /\ answer' = <<>>
    /\ UNCHANGED <<i, j, ports, device, disk, named, faults>>

\* Mutant: no wait for what the device has still to do.
StartWait_None == pc = "start"

StartWait == pc = "start" /\ ~Bsy

SetPorts ==
    /\ StartWait
    /\ ports' = IF Bsy THEN ports ELSE Digits(call.lba)
    /\ Goto("command")
    /\ UNCHANGED <<i, j, target, device, disk, named, faults>>

Command ==
    /\ pc = "command"
    /\ TakeCommand(call.op, call.count)
    /\ named' = IF call.op = "write" THEN Span(call.lba, call.count) ELSE {}
    /\ Goto("busy wait")
    /\ UNCHANGED <<i, j, target, ports, disk, faults>>

BusyWait ==
    /\ pc = "busy wait" /\ i < call.count
    /\ ~Bsy
    /\ Goto("ready wait")
    /\ UNCHANGED <<i, j, target, ports, device, disk, named, faults>>

\* ATA_DRQ_wait tests the ready bit.
ReadyWait ==
    /\ pc = "ready wait"
    /\ Rdy
    /\ Goto("words")
    /\ UNCHANGED <<i, j, target, ports, device, disk, named, faults>>

\* Mutant: every block is written from the start of the buffer.
Word_FirstBlock ==
    /\ pc = "words"
    /\ \E word \in Words :
         IF call.op = "read"
         THEN InWord(word) /\ target' = Append(target, word)
         ELSE /\ word = target[j + 1]
              /\ OutWord(word)
              /\ UNCHANGED target
    /\ IF j + 1 < HALF_BLOCK_SIZE
       THEN j' = j + 1 /\ i' = i /\ Goto("words")
       ELSE j' = 0 /\ i' = i + 1 /\ Goto("busy wait")
    /\ UNCHANGED <<ports, disk, named, faults>>

\* One word in or out, and the next one or the next block.
Word ==
    /\ pc = "words"
    /\ \E word \in Words :
         IF call.op = "read"
         THEN InWord(word) /\ target' = Append(target, word)
         ELSE /\ word = target[HALF_BLOCK_SIZE * i + j + 1]
              /\ OutWord(word)
              /\ UNCHANGED target
    /\ IF j + 1 < HALF_BLOCK_SIZE
       THEN j' = j + 1 /\ i' = i /\ Goto("words")
       ELSE j' = 0 /\ i' = i + 1 /\ Goto("busy wait")
    /\ UNCHANGED <<ports, disk, named, faults>>

\* The blocks in a sequence of words.
InBlocks(words) ==
    [b \in 1 .. (Len(words) \div HALF_BLOCK_SIZE) |->
        SubSeq(words, (b - 1) * HALF_BLOCK_SIZE + 1, b * HALF_BLOCK_SIZE)]

\* Nothing is waited for after the last word.
Return ==
    /\ pc = "busy wait" /\ i = call.count
    /\ pc' = "idle" /\ call' = NoCall
    /\ answer' = IF call.op = "read" THEN InBlocks(target) ELSE answer
    /\ i' = 0 /\ target' = <<>>
    /\ UNCHANGED <<j, ports, device, disk, named, faults>>

\* The machine stops, and starts again.
PowerCycle ==
    /\ pc' = "idle" /\ call' = NoCall /\ answer' = <<>>
    /\ i' = 0 /\ j' = 0 /\ target' = <<>>
    /\ device' = Resting
    /\ UNCHANGED <<ports, disk, named, faults>>

Init ==
    /\ pc = "idle" /\ call = NoCall
    /\ i = 0 /\ j = 0 /\ target = <<>> /\ answer = <<>>
    /\ ports = Digits(0)
    /\ faults \in SUBSET {"late", "errors"}
    /\ device = Resting
    /\ named = {}
    /\ \E word \in Words : disk = [b \in Blocks |-> [k \in 1 .. HALF_BLOCK_SIZE |-> word]]

Driver == SetPorts \/ Command \/ BusyWait \/ ReadyWait \/ Word \/ Return

Next == Call \/ Driver \/ Notice \/ Work \/ PowerCycle

Spec == Init /\ [][Next]_vars

\* The processor goes on, and so does the device.
FairSpec == Spec /\ WF_vars(Driver) /\ WF_vars(Work) /\ WF_vars(Notice)

----------------------------------------------------------------------------
(* Properties. *)

\* What a read will give: a block that the device has in whole counts as stored.
Stored ==
    IF device.op = "write" /\ Len(device.buffer) = HALF_BLOCK_SIZE
    THEN [disk EXCEPT ![device.block] = device.buffer]
    ELSE disk

\* The store of a device without faults; nothing is promised of another.
Promised(content) == IF faults = {} THEN content ELSE CHOOSE d \in [Blocks -> BlockContents] : TRUE

Abstract == INSTANCE BlockStore WITH
    Addresses <- Blocks,             Contents <- BlockContents,
    store     <- Promised(Stored),   durable  <- Promised(disk),
    answer    <- IF faults = {} THEN answer ELSE <<>>

\* read_blocks gives what was written last, and a machine that stops loses no
\* more than one block of what write_blocks has taken.
BlocksKept == Abstract!Spec

\* When write_blocks returns, each block it was to write will be read back as
\* what the caller passed, though the device may still have the last one.
WritesArrive ==
    faults = {} /\ pc = "busy wait" /\ i = call.count /\ call.op = "write" =>
        \A b \in 1 .. call.count : Stored[call.lba + b - 1] = InBlocks(target)[b]

\* Only a write changes a block, and only the blocks it names, though it has
\* returned and the next call has begun: also with a device that breaks commands
\* off.  (A late one may take the next command's words for this one's.)
OnlyAddressed ==
    [][\A b \in Blocks : "late" \notin faults /\ disk'[b] # disk[b] => b \in named]_vars

\* Every call returns.  No call looks at the error bit, so it returns as well
\* when the device has broken the command off.
CallsReturn == (pc # "idle") ~> (pc = "idle")

=============================================================================

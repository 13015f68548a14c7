# TLA+ models of ded-os-is-ded

A 32-bit teaching kernel: it boots on one processor, keeps its files on one ATA
disk in a FAT32-like format, reads lines from a PS/2 keyboard, and runs one user
program, the shell, in user mode.  These modules model the parts of it that have
behaviour: the file system driver, call by call and disk write by disk write; the
disk driver below it and the shell above it; the path of a line of input from the
keyboard to the shell; the page directory; the way into the kernel and back.
Paths below are relative to `src/src/`.

## 1. Inventory

| Component | Source | State | Operations |
|---|---|---|---|
| File system driver | `filesystem/fat32.c` | on disk: boot signature, FAT (cluster 1), root table (2), name index (3 to 5), data clusters (8 on); in memory: `driver_state` with a copy of the FAT and two buffers | `initialize_filesystem_fat32`, `write`, `delete`, `read`, `read_directory`, `move_to_child_directory`, `move_to_parent_directory`, `get_children`, `get_dir_path`, `insert_index`, `delete_index`, `search_index` |
| Keyboard driver | `keyboard/keyboard.c` | `keyboard_input_on`, `buffer_index`, a buffer of 256 characters | `keyboard_isr`, activate, deactivate, `get_keyboard_buffer`, `is_keyboard_blocking` |
| Interrupt handling | `interrupt/` | the masks, requests and lines in service of the interrupt controller; gates; the stack in the TSS | `pic_remap`, `initialize_idt`, `main_interrupt_handler`, `syscall` (13 calls), `pic_ack` |
| Framebuffer | `framebuffer.c` | 80 x 25 cells, the hardware cursor | cursor moves, `puts`, `framebuffer_clear`, `show_file` |
| Boot | `kernel.c`, `kernel_loader.s` | none of its own | `kernel_setup`, the order in which the others start, four file requests |
| Shell | `user-shell.c` | working directory, request, line buffer | `cd`, `ls`, `mkdir`, `cat`, `cp`, `rm`, `mv`, `whereis`, `clear` |
| Disk driver | `filesystem/disk.c` | the ports of the ATA controller | `read_blocks`, `write_blocks`, two waits |
| Paging | `paging/paging.c` | page directory, the next free frame | `allocate_single_user_page_frame` |
| Host inserter | `inserter/external-inserter.c` | a disk image | `write` on the build machine |
| Segments, ports, memory functions | `gdt.c`, `portio.c`, `stdmem.c` | constants | none with behaviour |

**How they interact.**  The shell calls the kernel with `int 0x30`; the gate
turns interrupts off, so a file system call runs to its end alone.  The only call
during which interrupts are on is number 4, which waits for a line: there
`keyboard_isr` interrupts the loop, and the two share `keyboard_input_on` and the
buffer.  User code runs with interrupts on, so keys and ticks arrive between
calls too.  The calls of the file system share the disk and the copy of the FAT
in `driver_state`: `write`, `delete` and the index calls load it anew, `read`
follows whatever copy is there.  Keyboard and system calls share the screen.

**What is hard to test.**
- Long sequences of legal calls: allocation and release of chains, the two marks
  of a free entry, the index kept beside the directories.
- The edges: a full disk, a full directory, a full index, a line as long as the
  buffer, the last cell of the screen.
- The cached FAT and the FAT on disk.
- Interrupts in orders nobody typed: a key while no line is read, between Enter
  and the copy of the buffer, a tick during the boot.
- A machine that stops between two calls, two disk writes, or two blocks.
- Commands of several system calls, each of which may fail, with results of which
  some bytes are never initialised.
- A disk that is slow to say it is busy, or breaks a command off; the last block of
  a write, which the device still has when the call returns.
- Interrupts between the instructions that restore the registers.
- Translations that the processor keeps of a page entry that is half written.

**What makes each component correct.**
- *File system*: chains are disjoint and end; an entry leads to what was stored
  under it; a name occurs once in a directory; free clusters carry nothing of an
  old owner; the cache is current; the index lists every entry; calls answer as
  an abstract tree of names would.
- *Keyboard and interrupts*: the buffer, the echo and the line the shell gets are
  the line the user edited; a read ends; an activated keyboard is heard.
- *Framebuffer*: the cursor stays on the screen.
- *Shell*: only `rm` and `mv` take anything away, `mv` not the only copy; the working
  directory is a directory, and where the command should have left it.
- *Disk*: what is read is what was written last; a stop loses one block at most.
- *Paging*: no frame is mapped twice, no stale translation is used, code stays mapped.
- *Interrupts*: what is interrupted goes on as if nothing had happened.

## 2. Modules

```
Fat32            the driver, one action per outcome of a call
  Fat32Proofs    types, the inductive invariant, what follows from it; the name
                 index, while it has room (TLAPS)
  Fat32Tree      the refinement mapping to FileTree
    Fat32TreeProofs  that every step maps to a step (TLAPS)
  MCFat32        an instance for TLC
    MCFat32Tree  the same for the refinement
  Fat32Writes    the same calls, one disk write a step; a stop at any of them
    Fat32WritesProofs  what a stop inside a call leaves alone; that without one
                 the blocks add up to Fat32 and to FileTree (TLAPS)
    MCFat32Writes  instances; the refinement to Fat32
FileTree         what the driver promises: directories, names, contents
  Shell          the user program's commands over it, one system call a step
    ShellProofs  what its commands leave alone, and where they lead (TLAPS)
    MCShell      an instance
BlockStore       what the disk driver promises: blocks that keep their content
AtaDisk          disk.c and the ATA device beside it; implements BlockStore
  AtaDiskProofs  that it does, and its invariants (TLAPS)
  MCAtaDisk      an instance
Framebuffer      the screen, as operators on a value
  Keyboard       boot, interrupt controller, driver, system call 4
    KeyboardProofs  the line that is read is the line that was typed (TLAPS)
    MCKeyboard   an instance for TLC
Paging           page directory, frames, translation cache
  PagingProofs   its invariants (TLAPS)
  MCPaging       an instance
Traps            stubs, stack and registers
  TrapsProofs    what is interrupted goes on (TLAPS)
  MCTraps        an instance
```

The layers meet in their promises: `Shell` runs over `FileTree`, which `Fat32` is shown
to implement (`fat32_tree`, and proved); `Fat32Writes` is shown to implement `Fat32`
(`fat32_writes`, and proved) with writes that reach the disk in order, which is what
`BlockStore` and so `AtaDisk` (`disk`) give, but for the last block when the machine stops: a stop after
that block is a stop before it.

### Fat32

One action is one call, from its entry to its return: system calls run with
interrupts off, and the boot and the host tool call the driver alone.  `Write` has an action
per answer (`WriteInvalidParent` 2, `WriteAlreadyExists` 1, `WriteNoRoom` -1,
`WriteEntry` 0), `Delete` and `Read` likewise; `Browse` holds the calls that look
at directories and at the index; `Format`, `Load` and `PowerOff` are
`initialize_filesystem_fat32` on an empty and on a formatted disk, and the machine
stopping between two calls.

| Variable | Code |
|---|---|
| `signature` | `fs_signature` in the boot sector |
| `fat` | the FAT on disk; cell `INDEX` is the count of index records, as in the code |
| `disk` | all other clusters: a directory table, a payload, or zeros |
| `index` | clusters 3 to 5, cut at `IndexCapacity` as the three stored clusters cut it |
| `fat_table` | `driver_state.fat_table` |
| `reply` | the return value and what is put in the caller's buffer |
| `exhausted` | history: an allocation failed inside a `write` |

Abstractions, each with its reason:
- A payload is a model value; buffers are whole clusters (the last cluster of a
  file carries padding).  `Blocks` are payloads whose byte at the place of a
  table's attribute is not 0x10: a file that has it there can be named as a
  parent directory by a caller who asks for its cluster, which no command of the
  shell does.  In the same way cluster 3, the first of the index, is left out of
  the parents a request names.
- A request names as its parent the root, a data cluster, or cluster 5, which
  `kernel.c` uses; each is checked by the code's own test of the attribute.
- The allocator `get_empty_cluster` gives the lowest free cluster from 8 on and
  is called once per cluster; `IsAllocation` states the sequence of its results.
- A `write` that runs out of clusters uses the error value -1 as a cluster number
  and writes outside its tables.  `exhausted` records it and the model makes no
  further call: what follows is undefined.  That it happens is a finding.
- `delete` can never answer 2: the guard is in the model (`RefusesDelete`), and
  no state satisfies it, because nothing sets the flag it reads.  This is the first
  finding.
- Names are in `Names`; `NoName` is the eleven zero bytes.  The shell's `cat .`
  does ask for it (`ReadEmptyName`), and then reads through a reset entry, whose
  cluster number is 0: no walk from there ends within the buffer, and the answer
  is "too large".
- The index is a sequence of records.  The `IndexTable` on the stack has 512
  records, three clusters hold 409 whole ones.  `Garbage` and `Loaded` model what
  a call finds beyond them.  An insertion at a count of 512 or more writes past the table,
  over the stack (line 509): the model has no step for it (the guard of `InsertIndex`;
  N stands for the 512, as many as there are clusters).

### FileTree and Fat32Tree

FileTree knows directories, names and contents.  It states the answer of every
call from these alone.  `Fat32Tree` maps a directory to its cluster and a
file to the payloads along its chain.  `TreeSpec` then says that chains, tables,
cache and restarts never show: a read returns what was written under the name, a
refused call changes nothing, a call on one name leaves every other name alone, a
restart loses nothing, `whereis` misses nothing.  Two things FileTree has to grant
the driver: deleting a directory takes its entries along (finding 1), and a write
may report success and break the disk (`LoseWrite`, finding 2).  A refusal for
want of room (-1) is allowed at any time, since free clusters are not in the tree.

`get_dir_path` names the directories on the way down to one (`Path`).  Where the way
up does not end at the root, because an ancestor was deleted, the code's loop does
not end: in Fat32 the call then has no step.

### Fat32Writes

A call works its writes out in memory (`StartWrite`, `StartDelete`, `StartFormat`) and
stores them in the code's order, one per step (`WriteNext`): `pending` is what is still
to come.  `Stop` may come before any of them and loses `pending` and the memory;
`LoadAgain` is the next boot, which repairs nothing.  `saved` is the disk as the last
call that returned has left it: with `saved` for the disk, the steps of a call are
stutters of Fat32 and its last one is Fat32's action (`CallsAreAtomic`).

- `write_clusters` stores four blocks.  A payload, or a new table, is stored in one
  step: nothing refers to it yet.  The parent's table is stored in two (`EntryWrites`),
  the header's block and the rest; the FAT block by block (`FatWrites`, `BlockCells`
  cells each); the index record by record.
- `Visits` is the loop of `delete` on a FAT that a stop has left behind: a cell that is
  0 leads to cluster 0, whose "value" is no cluster at all, and `Lost` is where the loop
  is then.

### Shell

One action is one system call of a command; `pc` is the call that comes next.  The
machine may stop in between (`PowerOff`, `LoadShell`), and files appear while it is off
(`OtherWrites`: the boot and the host's tool).

| Variable | Code |
|---|---|
| `cwd`, `temp_cwd` | `cwd_cluster_number`, and the copy that `copy` and `cd` keep |
| `line` | command and arguments, cut into words and path components |
| `todo` | what `relative_cd` has still to enter |
| `file_buffer` | the buffer of `copy` |
| `places` | the directories that `whereis` has still to print |
| `copied` | history: what became of the write of a copy |

- The kernel stores one byte into `int retcode`, the rest of which is uninitialised:
  whether a command sees a result for what it is is a choice (`\E seen`, and the
  second branches of `CopyRead`, `MkdirLook`, `LookDown`).  `ret` of `cd` is
  uninitialised after ".." in the root and after -1: both outcomes are modelled.
- Every write of the shell, the boot and the host's tool may meet a full disk, report
  success and store nothing (`WriteLost`, which is FileTree's `LoseWrite`).  A `mv` goes on
  to remove its source, which the model follows.  No command after that one is followed
  (`~failed`): the entry that is left names cluster -1, and where `mkdir` has made it, a
  `cd` into it would take that for the working directory and leave the tree.
- `mv` compares the length of its argument with itself, so a path that leads nowhere
  does not stop it (`Walked`); a copy that was refused is followed by the removal all
  the same (`AfterCopy`).
- Names are values: how `remove`, `copy` and `cd` cut a name into eight and three
  bytes is left out, with the uninitialised index that `remove` uses for a name without
  a dot among its first eight characters, and the bytes that `memset(request.name + i,
  0, 3 - i)` clears after a short extension.  `cp` without a second argument is left out
  for the same reason, and the read of an empty name that a failed `cp` or `mv` may make
  finds nothing.

### AtaDisk and BlockStore

The driver's steps are the port accesses that matter: the waits, the address ports
(`SetPorts`, cut by `Digits`: three of a byte, the highest of four bits, `HighBase`), the
command, each word.  The device is external and runs
beside it: idle, (late,) busy, data, and after the words of a block busy again with
storing it, also after `write_blocks` has returned.  `faults` says what kind of device
it is, from the start on: a "late" one raises the busy bit only some time after the
command, one with "errors" breaks commands off; the driver was written for neither, and
each property says for which devices it holds.
`BlockStore` has the blocks as reads see them and as the device has them for good;
they differ in one block at most, and that is what a stop loses.

### Paging

From the loader's first instruction with paging on: page 0 and the kernel's page on
frame 0, the jump, the removal of the identity mapping and its flush, then
`allocate_single_user_page_frame` in four steps (`Allocate`, `SetFlag`, `SetAddress`,
`FlushPage`), as many as the memory has frames.  The processor may keep a translation of any
present entry at any moment, and forget it (`Keep`, `Forget`).  Addresses are counted
in units of 4 MiB, so `page_index` and `lower_address` are the numbers themselves.

### Traps

The kernel's stack is a sequence, its length the stack pointer.  `Enter` is what the
processor pushes, the stub's number and `call_generic_handler`'s pushes; the pops are
one instruction a step, since after system call 4 interrupts are on there.  `Handler`
is `main_interrupt_handler` for everything but what it does elsewhere in these
modules; C code may change `eax`, `ecx` and `edx` (`Clobber`).  `interrupted` is a
history of what was interrupted, and the properties compare with it.  `Stub` gives the
numbers with an error code the stub that expects one.  The table of `intsetup.s` does so
but for 21 and 29, exceptions of processor features that this machine does not have; on a
processor that raises them the word too many would be returned through.

### Framebuffer and Keyboard

`Framebuffer` translates the routines of `framebuffer.c` into operators on
`[cursor, cells]`; colours are left out, nothing scrolls.  `Keyboard` keeps a
screen, `keyboard_state`, the interrupt controller (`irr`, `isr`, `mask`), the
scancode queue of the keyboard controller (external), and where the program is:
the steps of the boot that matter for interrupts, then the shell's loop of
prompt, system call 4 and command.

- A handler runs with interrupts off, so it is one step, acknowledgement included.
  An interrupt that is due is served before the program's next step (`Goes`): the
  processor looks for one between any two instructions.
- `KeyIgnored` is `keyboard_isr` while nobody reads: it neither reads the port nor
  acknowledges.  `TimerInterrupt` is the handler's missing case.
- `LeaveLoop` and `TakeLine` are two steps: a key may come between the loop's last
  test and the copy of the buffer.
- The loader's masks are arbitrary (`Init`); `Edited` is the history variable that
  says what the user means by a key: a character more, one less, end of line.
- The index of the buffer is a byte, and the buffer has 256 characters: `% Size`.

## 3. What is checked

| Run | Shows | Result |
|---|---|---|
| `fat32_safety` (`MCFat32.cfg`) | after every sequence of calls and restarts: chains disjoint (`NoCrossLink`) and whole (`EntriesLead`), free clusters blank (`FreeIsBlank`), names unique, marks in agreement, cache current, and, while the index has had room, every entry listed (`IndexComplete`) and no more records counted than there are files (`IndexFits`); `Consistent` is the proofs' invariant | holds, 154,275 states |
| `fat32_tree` (`MCFat32Tree.cfg`) | the driver implements FileTree | holds, 261,593 states |
| `fat32_delete` (`MCFat32Delete.cfg`) | "delete a file or empty directory" | violated |
| `fat32_full` (`MCFat32Full.cfg`) | "check if number of cluster avail in storage suffice" | violated |
| `keyboard_safety` (`MCKeyboard.cfg`) | the buffer, the echo and the line handed over are what was typed, with keys, releases and ticks at any time from the boot on | holds, 3,109,496 states |
| `keyboard_patient` (`MCKeyboardPatient.cfg`) | for a patient typist, system call 4 ends | holds, 12,448 states |
| `keyboard_deaf` (`MCKeyboardDeaf.cfg`) | "start listen keyboard & save to buffer" | violated |
| `fat32_writes` (`MCFat32Writes.cfg`) | the single writes of a call add up to the call of Fat32 (`CallsAreAtomic`); with a stop at any write, all other entries are whole (`OthersSurvive`) and listed (`OthersListed`), no name is there before what it names (`NoNameBeforeData`), links never go back (`LinksAscend`), a call on a sound disk does not erase the signature (`SignatureStays`), and only a disk without files is formatted (`FormatsEmptyOnly`) | holds, 332,500 states or so: a view |
| `shell` (`MCShell.cfg`) | the working directory (`CwdStands`, `CdWholeWay`, `CopyComesBack`), what commands destroy (`OnlyRmAndMvDestroy`, `MvKeepsTheFile`), full disks included, and that every command but `whereis` ends (`CommandsEnd`) | holds, 296,971 states |
| `disk` (`MCAtaDisk.cfg`) | the driver implements BlockStore, stops included (`BlocksKept`); when a write returns, each of its blocks reads back as it was passed (`WritesArrive`); with commands broken off no block changes that was not named (`OnlyAddressed`); calls return with a late and failing device too (`CallsReturn`) | holds, 257,480 states |
| `paging` (`MCPaging.cfg`) | code mapped, user pages apart, nothing stale | holds, 1,552 states |
| `traps` (`MCTraps.cfg`) | handlers see the registers (`HandlerSees`), the stack is bounded, what was interrupted goes on (`ProgramGoesOn`) | holds, 14,272 states |

**Bounds.**  `fat32_safety`: 12 clusters, of which 4 carry data, tables of two
entries, directories and files of two clusters.  That is enough for two files, for a
directory in a directory with a file in it, for reuse of a cluster by either kind, and for
running out, also in the middle of a file; two entries fill a table and leave a hole
before a used one.  `IndexCapacity` is 3, below the number of data clusters as in the
code, where 409 records stand against 504: the run fills the index and goes one record
past it.  There `CONSTRAINT IndexRoom` stops, because the properties of the index hold
only as long as it has always had room: past it, an insertion is not stored, a delete
does not find its record, and the count stays ahead of the files.  The other properties
need no such condition; section 4 proves them up to the end of the table in memory.
The other runs of Fat32 have 11 clusters, 3 of them for data, an index with room for all,
and files of one cluster as well, of different lengths side by side.
`fat32_tree` uses one file name: the tree compares
answers of every call, and the second name changes the size only.  Keyboard: a
screen of 3 x 2, a buffer of 3 (4 in the liveness run), two scancodes queued,
two characters.  A line wraps at the right edge, reaches the last cell, and
overruns the buffer within these bounds; the properties about content speak of
lines that fit (`longest < Size`).

*Fat32Writes*: the disk of `fat32_tree`, the FAT in two blocks, so that a stop can
come between the block with the count of the index and the block with the chain.
A directory and a file of two clusters are written.  There is one stop inside a call
(`MaxResets`), and after it (`AfterStop`) calls on disks that the stop has not damaged,
with at most one entry: the properties speak of one call on a sound disk.  A chain of
two clusters is enough for the last two properties: with any free cluster in place of
the first one a link goes back, and a loop that empties a cell before it follows it
arrives at the boot sector.
*Shell*: three directories, a file name and a directory name, contents that fit the
buffer and that do not, paths of two components, of which ".." may be any; a directory in a
directory, a copy to a place of the same name, and a move in a circle are within
these, and any write may be refused or, as on a full disk, be lost.
*AtaDisk*: two blocks of two words, calls of one or two; the addresses 5 and 6 use three
of the ports, with bits that a mix-up of the ports makes the other block's.
*Paging*: four pages, five frames: every page can be allocated, one again, and the last
frame is refused.
*Traps*: two values for a register, one exception with error code, one device, the
system call; the stack is 24 words at most, which `StackBounded` shows.

**Reductions.**  `SYMMETRY` permutes two file names, or two characters: nothing
tells them apart, and no liveness is checked with it.  `DiskView` leaves out
`reply`: no action reads it, and the invariants do not mention it; TreeSpec's
condition on `reply'` is evaluated on each step.  `WritesView` leaves out `reply` and the
index records past the count, which no step reads before it has written them;
`MCView` of the shell leaves out `reply`, which every system call sets anew.

**Fairness.**  `FairShell` and `FairSpec` of AtaDisk: the processor executes (`WF(Step)`,
`WF(Driver)`), and a device that works gets on with it (`WF(Work)`, `WF(Notice)`).  In
`FairShell` `WF` is on the disjunction of a command's steps: the shell is one thread.
Nothing makes the user type.  `PatientSpec` of Keyboard: the processor executes (`WF(Program)`) and
a due interrupt is delivered (`WF(Interrupt)`): hardware.  Commands end and the
prompt is printed again (`SF(PrintPrompt)`): the commands of the shell are bounded
loops, but for `get_word` and `get_dir_path` on input the model leaves out.  The
typist ends every line (`SF(PressPatiently(Newline))`) and types only while a line
is read, one key at a time: the run shows that with this patience the loop of
`interrupt.c:76` ends, and `keyboard_deaf` what one key at another time does.

### Findings

1. `delete` removes a directory that still has entries
   (`filesystem/fat32.c:331`): `write` sets "not empty" in the header of the
   parent's own table (line 274), `delete` reads it from the entry in the
   grandparent.  The files in the directory keep their clusters for ever.
2. On a full disk `write` can report success (`filesystem/fat32.c:246`): the count
   of free clusters includes 3, 6 and 7, which are never handed out, and a
   directory is counted as needing none.  `mv` believes the answer and removes its
   source (`user-shell.c:217` and 362): the file is lost with nothing refused
   (`MvKeepsTheFile`, "lost").
3. A key event while no line is read makes the keyboard deaf
   (`keyboard/keyboard.c:57`): the interrupt stays in service, and the next
   activation hears nothing.
What the models have a step for, and no run states as a property:
- A reset while the disk is formatted, between the signature (`filesystem/fat32.c:73`)
  and the root (line 83), leaves a disk that every later boot takes for formatted,
  without a root.
- A reset between the table and the FAT of a `write` (`filesystem/fat32.c:302`) leaves an
  entry whose FAT cell is empty.  Deleting it (line 350) walks to cluster 0, zeroes the
  boot sector, and does not end; the next boot formats the disk with all its files.
  Nothing less does: a call that found a disk without damage never erases the
  signature (`SignatureStays`), and as long as every call has found one, no disk with
  files is formatted (`FormatsEmptyOnly`), whatever the number of stops.  The condition
  on every call is needed, and in the run it is the constraint `AfterStop`.  What comes
  after damage may look sound and yet lose files, and one stop is enough for it: a file
  in a directory `a`, stopped before the FAT, then deleted, takes the signature along, and
  the next boot formats without clearing the table of `a`, which a later file with the
  parent `a` is entered in; deleting what that table names zeroes it, and the boot
  sector again, next to a new directory of the root: a disk that looks sound, is not
  empty, and is formatted.
- `write_blocks` returns while the device still has the last block
  (`filesystem/disk.c:68`).  The next call's wait makes up for it; a power cut does not.
- `ATA_DRQ_wait` tests the ready bit (`filesystem/disk.c:9`) and nothing gives the device
  time to raise the busy bit: with one that needs it, a read returns other words
  than the block's, and a write's words may go to the block of the command before.
- With more than 409 files the index loses records; a deletion that does not find its own
  does not count down, and the count runs ahead of the files for good.  Nothing keeps it
  below 512, where `insert_index` writes over the stack (`filesystem/fat32.c:509`).  The
  models stop there, and no property covers it.
- No exception has an ISR (`interrupt/interrupt.c:116`): the stub returns to the
  instruction that faulted, for ever.

The model of the shell shows as well: `mv a x` with
an `x` that does not exist, or a rename, is refused in the same directory and then removes
the file (`MvKeepsTheFile`, "refused here"); `mv` of a file to a place that holds a
directory of its name removes that directory with its contents ("refused there"), and
one that holds a file of its name removes that file and leaves the shell there;
`whereis` of a name in a directory whose parent was deleted hangs (`pc = "stuck"`).

## 4. What is proved

For every value of the constants that satisfies the modules' assumptions: a disk
of any size above cluster 8, tables of any length, an index of any capacity, any names
and payloads; any tree and paths of any length; blocks, calls and addresses of any
size; any screen and texts; any number of pages, frames, registers and devices.
Behaviours of Fat32 end before an insertion past the index's table, and those of Shell
follow no command after a lost write (section 2): what the theorems say ends there too.

| Theorem | Module | States |
|---|---|---|
| `TypeCorrect` | Fat32Proofs | `Spec => []TypeOK` |
| `DiskStaysConsistent` | Fat32Proofs | `Spec => []Consistent` |
| `ClustersNotShared` | Fat32Proofs | `Spec => []NoCrossLink` |
| `EntriesStayWhole` | Fat32Proofs | `Spec => []EntriesLead` |
| `FreeStaysBlank` | Fat32Proofs | `Spec => []FreeIsBlank` |
| `NamesStayUnique` | Fat32Proofs | `Spec => []NamesUnique` |
| `MarksStayInStep` | Fat32Proofs | `Spec => []MarksAgree` |
| `CacheStaysCurrent` | Fat32Proofs | `Spec => []CacheCoherent` |
| `NothingUnlisted` | Fat32Proofs | `Spec /\ []IndexRoom => []IndexComplete` |
| `CountStaysDown` | Fat32Proofs | `Spec /\ []IndexRoom => []IndexFits` |
| `FewFilesAreListed` | Fat32Proofs | `Spec /\ []FewFiles => []IndexComplete` |
| `DriverImplementsTree` | Fat32TreeProofs | `Spec /\ []IndexRoom => TreeSpec`: the driver implements FileTree |
| `FewFilesMakeTree` | Fat32TreeProofs | `Spec /\ []FewFiles => TreeSpec` |
| `OthersAreSpared` | Fat32WritesProofs | `SpecWrites => []OthersSurvive` |
| `NamesComeLast` | Fat32WritesProofs | `SpecWrites => []NoNameBeforeData` |
| `OthersStayListed` | Fat32WritesProofs | `SpecWrites /\ []IndexRoom => []OthersListed` |
| `CallsActAtomically` | Fat32WritesProofs | `SpecWrites /\ []IndexRoom => CallsAreAtomic`: without a stop, Fat32Writes implements Fat32 |
| `NoLinkGoesBack` | Fat32WritesProofs | `SpecWrites => []LinksAscend` |
| `SoundCallsSign` | Fat32WritesProofs | `SpecWrites => SignatureStays` |
| `FormatsSpareFiles` | Fat32WritesProofs | `SpecWrites /\ []SavedSound => []FormatsEmptyOnly` |
| `BlocksMakeTree` | Fat32WritesProofs | `SpecWrites /\ []IndexRoom /\ []Unstopped => SavedDisk!TreeSpec`: without a stop, Fat32Writes implements FileTree |
| `FewFilesAtomic` | Fat32WritesProofs | `SpecWrites /\ []FewerFiles => CallsAreAtomic` |
| `FewFilesBlocks` | Fat32WritesProofs | `SpecWrites /\ []FewerFiles /\ []Unstopped => SavedDisk!TreeSpec` |
| `FewFilesStayListed` | Fat32WritesProofs | `SpecWrites /\ []FewerFiles => OthersListed /\ [][Unstopped => OthersListed']_allVars`: up to and with the first stop |
| `OthersDestroyNothing` | ShellProofs | `SpecShell => OnlyRmAndMvDestroy` |
| `MvKeepsItsFile` | ShellProofs | `SpecShell => []MvKeepsTheFile`: but for two refusals and a full disk |
| `CopiesComeBack` | ShellProofs | `SpecShell => []CopyComesBack` |
| `ShellStands` | ShellProofs | `SpecShell => []CwdStands` |
| `CdGoesTheWholeWay` | ShellProofs | `SpecShell => []CdWholeWay` |
| `DriverImplementsBlocks` | AtaDiskProofs | `Spec => BlocksKept`: the disk driver implements BlockStore |
| `WritesReachTheDevice` | AtaDiskProofs | `Spec => []WritesArrive` |
| `NothingElseWritten` | AtaDiskProofs | `Spec => OnlyAddressed` |
| `StaysTyped` | KeyboardProofs | `Spec => []TypeOK` |
| `BufferFollows` | KeyboardProofs | `Spec => []LineFaithful` |
| `ShellGetsLine` | KeyboardProofs | `Spec => []LineReturned` |
| `EchoFollows` | KeyboardProofs | `Spec => []EchoMatches` |
| `Seeing` | TrapsProofs | `Spec => []HandlerSees` |
| `Bounded` | TrapsProofs | `Spec => []StackBounded` |
| `GoesOn` | TrapsProofs | `Spec => ProgramGoesOn` |
| `PagesTyped` | PagingProofs | `Spec => []TypeOK`: frames of the machine only |
| `TranslationsFresh` | PagingProofs | `Spec => []NothingStale` |
| `CodeIsMapped` | PagingProofs | `Spec => []CodeStays` |
| `UserPagesApart` | PagingProofs | `Spec => []UserApart` |

**Assumptions**, which TLC evaluates on every run of their module:
- `SizesAssumption`, `NamesAssumption`, `BuffersAssumption` of Fat32: the disk has a
  data cluster and fewer clusters than the reserved values, the stored index is no longer
  than its table in memory (409 against 512), `NoName` is no name, a buffer has at most `MaxFragments` clusters.
- `ShellAssumption`: the bound of a path's length is 1 or more.
- `DiskAssumption` of AtaDisk: the device has no more blocks than its address ports can
  name, a call asks for 1 to 255 (its count is a byte).
- `KeyboardAssumption`: the text buffer is no larger than the screen has cells (256
  against 2000), so that a line that fits the one fits the other; newline, backspace and
  the key without a character are different keys, and none of them, nor the empty cell,
  is a character.
- `TrapsAssumption`: the system call's number is not that of an exception with an error
  code, and the number of system call 4 fits a register.
- `PagesAssumption` of Paging: the kernel's page is not page 0.

**The argument for Fat32.**  `Consistent` is inductive; none of the properties is alone.
- `NoCrossLink` survives an allocation only if a free cell is the target of no
  link and the start of no entry: `LinksLead` (links go to cells in use) and
  `EntriesLead` (an entry starts in one) say so.
- `EntriesLead` survives a delete only if the freed chain contains no cluster of
  another entry: two chains that start at different clusters without predecessor
  are disjoint (`ChainsDisjoint`), and nothing outside a chain links into it
  (`ChainClosed`).
- Reusing a cluster keeps `NamesUnique` and `MarksAgree` because a freed cluster is
  `Blank`; that the parent of a delete is not among the erased clusters is
  `TablesPlain` (no directory is an entry of itself; a table is no payload).
- `Fresh` covers the disk before it is formatted; `CacheCoherent` ties the copy in
  memory to the table.
- Statements about positions in a chain go by the least counterexample
  (`LeastNumber`, from the well-ordering of the naturals).

`WriteEffects` and `EraseEffects` say, cluster by cluster, what the two calls that
change the disk do; `WriteTables`, `WriteLinks`, `WriteLeads` and their
counterparts for a delete each preserve one part; `NextConsistent` collects the
actions.

**The argument for the index.**  Past `IndexCapacity` records a call loads whatever its
stack held, so the theorems suppose `[]IndexRoom`: the count in the FAT has stayed within it
at all times (409 records for 504 possible files).  The strengthening, `Listed`, is that the count is
the length of the index, which is where an insertion goes.  A deletion takes no record of
another entry along because two entries in use never have both name and directory in
common (`NamesUnique`).  The count stays below the number of chains because a write adds
the start of one, and a delete, which takes at most one start away, always finds its
record (`NothingUnlisted`) and so counts down.  So the condition on the count may be
one on the files: `FewFiles` says that there are no more chains than the index stores
records, and gives `IndexRoom` at every step (`NextCatalogued`).

**The argument for the tree.**  Each action of Fat32 is shown to be one of FileTree's, or a
stutter (`Format`, `Load`).
- `Rooted`: the formatted root is there and is its own parent, a table names its
  parent and itself, and nothing else has a name.  It makes `Mapped` a mapping: distinct
  entries in use have distinct keys, and the key of an entry leads to its node.
- A refused call and a call that reads leave the tree alone (`TreeKeep`, `TreeLookup`).  What
  a read gives is unique, because a chain from a cluster is (`ChainUnique`); a path is
  unique because two ways up from a directory are one (`ClimbsOnce`), and it is no
  longer than there are directories, since a way that ends at the root meets none twice.
- `whereis` is the index listing the entries, and the count being that of the records.
- `WriteAddsNode` and `WriteDirectories` give `Create`, `EraseGone`, `EraseLive` and
  `EraseKeepsNode` give `Remove`; a write that runs out of clusters is `LoseWrite`, after
  which the tree promises nothing; a stop is `Restart`.

**The argument for Fat32Writes.**  It holds for any number of stops, but for the two
refinements and what supposes `FewerFiles`, which are about calls without one.  Seven
invariants:
- `Typed`: the disk keeps its types at every write, and what is still to be written is
  of the kind that the calls work out (`WellMade`).
- `Spared`: while a call that found a sound disk (`SavedSound`) is under way, or after a
  stop inside it, each cluster that a bystander owns, its FAT cell, and its entry are
  what they were, and every write still to come is `Harmless` to all three.  This
  holds when the call starts: a `write` takes free cells, which are `Blank` and in no
  chain, and one free entry (`WriteMeans`); a `delete` stays in the chain of its own
  entry, which is disjoint from the others (`DeleteMeans`), because the walk on
  a sound chain cannot leave it.
- `Named`: a `write` has taken an entry and clusters that were free (`Entered`), and the
  entry is not in the table before every one of these clusters holds what was
  written.  Until then the contents that are missing are still to come, and nothing
  else comes before them (`Waiting`).  A chain that starts in these clusters stays in
  them (`ChainWithin`), whichever blocks of the FAT have been stored.
- `Recorded`, with `Backed`: a `write` touches no record that the count takes in
  (`Appending`); a `delete` has moved m of the records behind its own down by one place
  (`Shifting`), so that each of the others is at its old place or the one before, and stores
  the count after the last of them.  The count never runs ahead of the stored records
  (`Backed`): a greater one is preceded by the write of its record.  `IndexRoom` is
  supposed, as for Fat32.

- `Ascending`: the links of the FAT, and of every block of it that is still to come, lead
  to higher clusters.  `get_empty_cluster` takes the first free one each time
  (`AllocationAscends`), and a `delete` only takes links away (`Unlinks`); a FAT of which a
  stop has left some blocks old and some new is ascending because both are.  The
  property is that invariant's first half; the second is what a stop needs.
- `Signed`: no call on a sound disk has a write of zeros to the boot sector to come.
  Cluster 0 is where `delete` arrives through a cell that is 0, and the chain of an entry
  has none (`DeleteMeans`).
- `Unspoilt`, as long as each call has found a sound disk: a disk without signature is
  untouched, and its formatting stores the signature before the first cluster
  (`SignsFirst`); a mounted one is signed.  So the disk that a formatting finds has no
  table and no entry.  `[]SavedSound` is supposed, not shown: a stop does leave damage,
  and `FormatsEmptyOnly` is false after a call on it (section 3).

`CallsActAtomically` adds another, `Steady`: as long as no machine has stopped inside a
call, the disk that the running call found is `Consistent`, and the writes that are left
lead to one disk (`Leads`), which is the disk of one step of Fat32 from the one found.
- What will be at a cluster, in a FAT cell or in a record when all writes are made is read
  off their sequence (`Due`): the last write about it puts the value (`Lasts`), or the
  value is there and no write puts another (`Leaves`).  A write made takes nothing
  from what is due.
- `AimsToWrite`, `AimsToDelete` and `AimsToFormat` compare it with `WriteEntry`,
  `EraseEntry` and `Format`.  For a `delete` this is where the loop over the FAT is shown
  to visit the chain, each cluster once and no other (`VisitsChain`), which holds because a
  chain meets no cluster twice (`ChainOnce`) and is no longer than the disk (`ChainShort`),
  and the records behind the deleted one, moved one by one, to be the index without it.
- The last write of a call is the step, and the writes before it are stutters.  That the
  disk stays `Consistent` is Fat32's theorem, used once more for the disk between calls
  (`SavedStays`, through the instance `SavedDisk`).
- `IndexRoom` is supposed because records past the index's clusters are not stored.

`BlocksMakeTree` composes the two refinements.  `SavedDisk` is the module Fat32TreeProofs
for the disk of the calls that have returned, so that its theorems hold of it; every
step of Fat32Writes is a step of that Fat32 or a stutter (`SavedStep`), and so one of
FileTree.  It speaks of `write`, `delete`, the formatting and restarts, the calls that
have writes; a read changes nothing, and its answer is `DriverImplementsTree`'s.
`Unstopped` (no machine has stopped inside a call) is supposed: after a stop the disk need
not be one that Fat32 can reach.

`IndexRoom` is a condition on a cell that the code keeps.  `FewerFiles` is one on the
files: between the calls there are fewer of them, directories included, than the index
has records.  It gives `IndexRoom` at every write (`Roomy`): the count between calls is at
most the number of chains (`Catalogued`, Fat32's invariant, for the saved disk), a call
stores it, one less or one more (`StartCounts`), and one more has room.  Fat32's
`FewFiles` allows one file more: there the write of that file is one step, here its
count is stored before the call has returned.  After a stop the count may stay ahead of
the files: an entry that is left without a chain shares its cluster with the next file,
and deleting it takes that file's chain but not its record.  So these theorems reach
up to the first stop, the disk that it leaves included.

**The argument for Shell.**  Every call but `delete` keeps what is there (`Kept`,
`StepKeeps`), and `delete` is called by `rm` and `mv` only (`RemoveIsAsked`).  For a move
that is not enough: `MvIsSafe` says where the file is at each `pc`.  Until the write it
is where it was read (`Held(temp_cwd)`); a write that succeeds cannot be in the same
directory, since the name is taken there, so at the removal either there are two
copies in two directories, or the removal is in another directory than the file, or the
copy was refused where the file is, or it was lost, and then the file is there until the
removal and gone after it.  That removing the copy, or the file of the
same name that caused the refusal, takes no directory along needs `NamesSound`: only
names of directories stand for directories, and names are in directories that exist.
- `CopyComesBack`: `CopyInv` says at each label of the command where it is and which
  directory it has kept.
- `CwdStands` needs that the directories are a finite tree in which each has one name
  (`TreeSound`); `Standing` adds a way from the root to the working directory and, while a
  command walks, to the one it has kept.  A way meets no directory twice, so
  none is longer than there are directories, and a delete in a directory leaves the ways
  to it.
- `CdWholeWay`: `CdInv` says that the shell has gone the first n names of the path
  (`OnTheWay`); two walks along the same names agree (`WalksAgree`), so a name that is no
  directory means that the path leads nowhere, and a ".." that stays where it is that the
  path tries to leave the root (`LeavesHere`).

**The argument for AtaDisk.**  `IInv` has three parts.  `Shape`, for any device: when the
command is given, the ports hold the call's address, from which the device gets it back
(`AddressOf`, by division).  `Aimed`, for one that is busy in time: a write has nothing
left but blocks that were named, which is `NothingElseWritten`.  `InStep`, for one
without faults: driver and device are at the same word of the same block.  There `Copies`
and `Writing` say that what has been moved is equal word by word, across the end of a
block (`Places`: a place in a sequence of blocks is in one block only), and `Quiet`
that between calls the device has at most one block left, in whole.  The refinement
needs no more: the last word of a block is `WriteBlock`, the device's store is `Settle`,
a return of `read_blocks` is `ReadBlocks`, a stop is `Crash`, and the rest stutters
(`StepKinds`).

**The argument for Keyboard.**  `IInv` is `Typed`, `Places` (what the boot has set up at each
point of the program), `Listens`, `Ended` and `LineReturned`.  While the driver listens it is
either `Stuck`, a scancode waits and no interrupt will ever fetch it, or `Live`: the texts
that the waiting scancodes stand for lead from what the buffer and the screen hold
to what the user means.  A key adds a text at one end of that run, an
interrupt takes one from the other, and the echo of a text that fits is that text in
the cells from the cursor on, across the edge of the screen.

**The argument for Traps.**  The inductive invariant is `Typed` and one of `Level0`, `Level1`,
`Level2`: nothing is interrupted, the program is, or the handler of system call 4 is as
well.  Each says, instruction by instruction, which words of the stack still hold the
interrupted state and which registers already do.  A third level cannot be: interrupts
are on only in system call 4's loop and on the way out of it.

**The argument for Paging.**  The inductive invariant adds to the properties: frames from
the next free one on are in no entry and no translation (`Owned`), two present entries
have different frames but for the kernel's (`Distinct`), a translation is the entry's or
that of an entry being replaced (`Fresh`), and the kernel's page is never given away
(`KernelKept`).

**Only model-checked**: the violations, and the liveness properties `ReadLineEnds`,
`CommandsEnd`, `CallsReturn`.  Every other property of a run is a theorem.  Out
of the prover's reach are liveness under fairness and ENABLED, induction whose
predicate is a parameter, and RECURSIVE operators (there are none in these modules).

## 5. Not modelled

- How the shell cuts a line into words and a word into name and extension, and what
  it prints; `show_file`, colours, and the layout of what `ls` prints.
- Two stops in one call's aftermath (`AfterStop`), a table torn at other block borders
  than its header's, and blocks that reach the medium out of order: the device of
  AtaDisk stores one block before it asks for the next.
- The words of the gates, the segments and the TSS, which are constants; exceptions
  beyond what the stub does with them; exceptions in the kernel.
- The four file requests of the boot in their order: they are among the inputs of Fat32
  and Shell.  The request for `sugar` names cluster 5, which is the index's, and is
  refused unless index records there look like a table.
- The host inserter, a build tool around `write`; `stdmem.c` and `portio.c`, used as what
  they do.

## 6. Plan

1. `Kernel`: the boot's requests composed with Fat32, on fresh and used disks.
2. An index past its capacity: a run that goes on where `IndexRoom` ends, for what is still
   true of an index that loses records.

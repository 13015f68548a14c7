------------------------------- MODULE Paging -------------------------------
(***************************************************************************)
(* The page directory, from the loader that turns paging on to the user    *)
(* program: paging.c, and kernel_loader.s where it deals with pages.  The  *)
(* processor keeps translations of its own (tlb): of any entry that says   *)
(* "present", from any moment on, until they are flushed.                  *)
(*                                                                         *)
(* Addresses are counted in PAGE_FRAME_SIZE, 4 MiB: page_index is the      *)
(* virtual address, lower_address the physical one.                        *)
(***************************************************************************)
EXTENDS Integers

CONSTANTS
    PAGE_ENTRY_COUNT,   \* pages (1024)
    Memory,             \* frames of the machine (32: 128 MiB)
    Kernel              \* page of KERNEL_VIRTUAL_BASE (0x300)

Pages  == 0 .. (PAGE_ENTRY_COUNT - 1)
Frames == 0 .. (Memory - 1)

ASSUME PagesAssumption ==
    /\ PAGE_ENTRY_COUNT \in Nat /\ Memory \in Nat \ {0}
    /\ Kernel \in Pages \ {0}

VARIABLES
    directory,                      \* _paging_kernel_page_directory
    last_available_physical_addr,   \* page_driver_state
    tlb,                            \* translations the processor has kept
    pc,
    code,                           \* page that is executed from
    at                              \* page that is being mapped

vars == <<directory, last_available_physical_addr, tlb, pc, code, at>>

Entry  == [present : BOOLEAN, user : BOOLEAN, frame : Frames]
Absent == [present |-> FALSE, user |-> FALSE, frame |-> 0]
System == [present |-> TRUE, user |-> FALSE, frame |-> 0]
Mapped(frame) == [present |-> TRUE, user |-> TRUE, frame |-> frame]

\* Frames of the machine, and no others, are in the directory.
TypeOK ==
    /\ directory \in [Pages -> Entry]
    /\ last_available_physical_addr \in Nat
    /\ tlb \in [Pages -> Entry]
    /\ pc \in {"low", "high", "flush identity", "kernel", "flag", "address", "flush", "user"}
    /\ code \in Pages /\ at \in Pages

----------------------------------------------------------------------------
(* The processor. *)

\* A translation is kept, or forgotten.
Keep(page) ==
    /\ directory[page].present
    /\ tlb' = [tlb EXCEPT ![page] = directory[page]]
    /\ UNCHANGED <<directory, last_available_physical_addr, pc, code, at>>

Forget(page) ==
    /\ tlb' = [tlb EXCEPT ![page] = Absent]
    /\ UNCHANGED <<directory, last_available_physical_addr, pc, code, at>>

\* Mutant: no invlpg.
Flushed_Kept(page) == tlb

Flushed(page) == [tlb EXCEPT ![page] = Absent]

\* What a page may be translated to.
Translations(page) == {e \in {directory[page], tlb[page]} : e.present}

----------------------------------------------------------------------------
(* The loader. *)

\* Paging comes on with page 0 and the kernel's page on the same frame.
Init ==
    /\ directory = [p \in Pages |-> IF p \in {0, Kernel} THEN System ELSE Absent]
    /\ last_available_physical_addr = 1
    /\ tlb = [p \in Pages |-> Absent]
    /\ pc = "low"
    /\ code = 0 /\ at = 0

JumpHigh ==
    /\ pc = "low" /\ pc' = "high"
    /\ code' = Kernel
    /\ UNCHANGED <<directory, last_available_physical_addr, tlb, at>>

\* Mutant: the identity mapping goes while it is still executed from.
DropFrom_Low == "low"

DropFrom == "high"

DropIdentity ==
    /\ pc = DropFrom
    /\ directory' = [directory EXCEPT ![0] = Absent]
    /\ pc' = "flush identity"
    /\ UNCHANGED <<last_available_physical_addr, tlb, code, at>>

FlushIdentity ==
    /\ pc = "flush identity"
    /\ tlb' = Flushed(0)
    /\ pc' = "kernel"
    /\ UNCHANGED <<directory, last_available_physical_addr, code, at>>

----------------------------------------------------------------------------
(* allocate_single_user_page_frame, a statement that matters at a time. *)

Next_physical_addr == last_available_physical_addr + 1

\* Mutant: the limit forgotten.
MemoryLeft_Always == TRUE

MemoryLeft == Next_physical_addr < Memory

\* Mutant: the frame stays available.
Taken_Nothing == last_available_physical_addr

Taken == Next_physical_addr

Allocate(page) ==
    /\ pc = "kernel"
    /\ MemoryLeft
    /\ last_available_physical_addr' = Taken
    /\ at' = page
    /\ pc' = "flag"
    /\ UNCHANGED <<directory, tlb, code>>

\* -1: nothing is left.
AllocateRefused ==
    /\ pc = "kernel"
    /\ ~MemoryLeft
    /\ UNCHANGED vars

SetFlag ==
    /\ pc = "flag"
    /\ directory' = [directory EXCEPT ![at] = Mapped(@.frame)]
    /\ pc' = "address"
    /\ UNCHANGED <<last_available_physical_addr, tlb, code, at>>

SetAddress ==
    /\ pc = "address"
    /\ directory' = [directory EXCEPT ![at] = Mapped(last_available_physical_addr - 1)]
    /\ pc' = "flush"
    /\ UNCHANGED <<last_available_physical_addr, tlb, code, at>>

FlushPage ==
    /\ pc = "flush"
    /\ tlb' = Flushed(at)
    /\ pc' = "kernel"
    /\ UNCHANGED <<directory, last_available_physical_addr, code, at>>

\* The kernel leaves for the user program, and comes back for a system call.
Leave ==
    /\ pc = "kernel" /\ pc' = "user"
    /\ UNCHANGED <<directory, last_available_physical_addr, tlb, code, at>>

Return ==
    /\ pc = "user" /\ pc' = "kernel"
    /\ UNCHANGED <<directory, last_available_physical_addr, tlb, code, at>>

Next ==
    \/ \E page \in Pages : Keep(page) \/ Forget(page)
    \/ JumpHigh \/ DropIdentity \/ FlushIdentity
    \/ \E page \in Pages \ {Kernel} : Allocate(page)
    \/ AllocateRefused
    \/ SetFlag \/ SetAddress \/ FlushPage
    \/ Leave \/ Return

Spec == Init /\ [][Next]_vars

----------------------------------------------------------------------------
(* Properties. *)

\* Where the processor fetches its instructions is always translated, and to
\* the kernel: page 0 until the jump, the kernel's page ever after.
CodeStays == Translations(code) = {System}

\* While the user program runs, none of its pages reaches the kernel's frame or
\* another page's, whatever the processor has kept: though for a moment the
\* entry of a new page is the user's and has frame 0.
UserApart ==
    pc = "user" =>
        \A p, q \in Pages : \A e \in Translations(p), f \in Translations(q) :
            e.user => e.frame # 0 /\ (p # q => e.frame # f.frame)

\* A page that was mapped anew is never seen with its old frame again.
NothingStale ==
    pc \in {"kernel", "user"} =>
        \A p \in Pages : tlb[p].present => tlb[p] = directory[p]

=============================================================================

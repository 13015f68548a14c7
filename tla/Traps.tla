------------------------------- MODULE Traps -------------------------------
(***************************************************************************)
(* How the processor gets into the kernel and back: the stubs of           *)
(* intsetup.s, main_interrupt_handler, and kernel_execute_user_program.    *)
(* The stack is the kernel's, upwards; user programs have their own.       *)
(*                                                                         *)
(* System call 4 turns interrupts on and waits; from there to the end of   *)
(* the stub an interrupt may come between any two instructions, and finds  *)
(* some of the registers restored already.                                 *)
(***************************************************************************)
EXTENDS Integers, Sequences, SequencesExt

CONSTANTS
    Values,     \* of a register
    ReadLine,   \* the value of eax that stands for system call 4
    Numbers,    \* of the interrupts that this machine raises
    SystemCall, \* 0x30
    Errors      \* those with an error code, for the processor and for the stub

ASSUME TrapsAssumption ==
    ReadLine \in Values /\ SystemCall \in Numbers \ Errors /\ Errors \subseteq Numbers

VARIABLES
    regs,        \* general registers
    stack,       \* the kernel's stack; its length is esp
    user,        \* privilege: cs
    interrupts,  \* the interrupt flag
    at,          \* eip; in the stub, the register that is popped next
    faulting,    \* the user's next instruction cannot be executed
    interrupted  \* history: what was interrupted, innermost last

vars == <<regs, stack, user, interrupts, at, faulting, interrupted>>

\* Mutant: two fields of CPURegister in another order than they are pushed in.
Fields_Swapped == <<"eax", "ecx", "ebx", "edx", "ebp">>

\* CPURegister, without esp.
Fields == <<"eax", "ebx", "ecx", "edx", "ebp">>

General == Range(Fields)

\* The order in which the stub pushes, and pops.
Pushes == <<"ebp", "edx", "ecx", "ebx", "eax">>

\* Mutant: popped in the order pushed.
Pops_Same == Pushes

Pops == <<"eax", "ebx", "ecx", "edx", "ebp">>

----------------------------------------------------------------------------
(* Into the kernel. *)

Word(n) == stack[Len(stack) - n]

\* What the processor pushes; from a user program it takes esp0 first.
Pushed(number) ==
    (IF user THEN <<"ss", "user esp">> ELSE stack)
        \o <<interrupts, user, at>>
        \o IF number \in Errors THEN <<"error code">> ELSE <<>>

\* The two stub macros.  The table of stubs uses the second one for the numbers
\* with an error code but two: 21 and 29 have the first one, and the word too
\* many would be returned through.  This machine has neither of the features that
\* raise them, so they are not in Errors (nor in Numbers).
Stub(number) == IF number \in Errors THEN <<number>> ELSE <<"0", number>>

Enter(number) ==
    LET entry == Pushed(number) \o Stub(number)
    IN  /\ stack' = entry \o <<Len(entry)>> \o [k \in 1 .. 5 |-> regs[Pushes[k]]]
        /\ user' = FALSE /\ interrupts' = FALSE
        /\ at' = "handler"
        /\ interrupted' = Append(interrupted,
              [regs |-> regs, height |-> IF user THEN 0 ELSE Len(stack), user |-> user,
               interrupts |-> interrupts, at |-> at, number |-> number])
        /\ UNCHANGED <<regs, faulting>>

\* A device interrupts.
Irq ==
    /\ interrupts
    /\ \E number \in Numbers \ (Errors \cup {SystemCall}) : Enter(number)

Fault == user /\ faulting /\ \E number \in Errors : Enter(number)

Syscall == user /\ ~faulting /\ Enter(SystemCall)

----------------------------------------------------------------------------
(* The handler, and out of the kernel. *)

Cpu == [f \in General |-> Word(CHOOSE k \in 0 .. 4 : Fields[k + 1] = f)]
IntNumber == Word(6)

\* C code leaves other values in some registers.
Clobber == \E values \in [{"eax", "ecx", "edx"} -> Values] :
    regs' = [r \in General |-> IF r \in DOMAIN values THEN values[r] ELSE regs[r]]

\* Mutant: interrupts come on before the registers are restored.
StubFlag_On == TRUE

StubFlag == interrupts

\* main_interrupt_handler.  System call 4 waits with interrupts on; no other
\* case, and no exception, does anything about what was interrupted.
Handler ==
    /\ at = "handler"
    /\ Clobber
    /\ IF IntNumber = SystemCall /\ Cpu["eax"] = ReadLine
       THEN at' = "wait" /\ interrupts' = TRUE
       ELSE at' = Pops[1] /\ interrupts' = StubFlag
    /\ UNCHANGED <<stack, user, faulting, interrupted>>

Wait ==
    /\ at = "wait"
    /\ Clobber
    /\ at' \in {"wait", Pops[1]}
    /\ UNCHANGED <<stack, user, interrupts, faulting, interrupted>>

\* The pops of the stub, one instruction each.
Pop ==
    /\ \E k \in DOMAIN Pops :
         /\ at = Pops[k]
         /\ at' = IF k = Len(Pops) THEN "esp" ELSE Pops[k + 1]
    /\ regs' = [regs EXCEPT ![at] = Last(stack)]
    /\ stack' = Front(stack)
    /\ UNCHANGED <<user, interrupts, faulting, interrupted>>

PopEsp ==
    /\ at = "esp"
    /\ stack' = SubSeq(stack, 1, Last(stack))
    /\ at' = "add esp"
    /\ UNCHANGED <<regs, user, interrupts, faulting, interrupted>>

AddEsp ==
    /\ at = "add esp"
    /\ stack' = SubSeq(stack, 1, Len(stack) - 2)
    /\ at' = "sti"
    /\ UNCHANGED <<regs, user, interrupts, faulting, interrupted>>

Iret ==
    /\ at' = Word(0)
    /\ user' = Word(1)
    /\ interrupts' = Word(2)
    /\ stack' = IF Word(1) THEN SubSeq(stack, 1, Len(stack) - 5)
                           ELSE SubSeq(stack, 1, Len(stack) - 3)

\* sti holds interrupts back for one instruction more, and that is iret.
StiIret ==
    /\ at = "sti"
    /\ Iret
    /\ interrupted' = Front(interrupted)
    /\ UNCHANGED <<regs, faulting>>

----------------------------------------------------------------------------
(* The boot and the user program. *)

\* kernel_execute_user_program makes a stack as an interrupt would have.
Execute ==
    /\ at = "boot"
    /\ stack' = <<"ss", "user esp", interrupts, TRUE, "user">>
    /\ at' = "launch"
    /\ UNCHANGED <<regs, user, interrupts, faulting, interrupted>>

Launch ==
    /\ at = "launch"
    /\ Iret
    /\ UNCHANGED <<regs, faulting, interrupted>>

\* The program computes, and may come to an instruction that faults.
Compute ==
    /\ at = "user" /\ ~faulting
    /\ \E r \in General, v \in Values : regs' = [regs EXCEPT ![r] = v]
    /\ faulting' \in BOOLEAN
    /\ UNCHANGED <<stack, user, interrupts, at, interrupted>>

Init ==
    /\ \E v \in Values : regs = [r \in General |-> v]
    /\ stack = <<>>
    /\ user = FALSE /\ interrupts = TRUE
    /\ at = "boot"
    /\ faulting = FALSE
    /\ interrupted = <<>>

Kernel == Handler \/ Wait \/ Pop \/ PopEsp \/ AddEsp \/ StiIret \/ Execute \/ Launch

Next == Irq \/ Fault \/ Syscall \/ Kernel \/ Compute

Spec == Init /\ [][Next]_vars

----------------------------------------------------------------------------
(* Properties. *)

\* Whatever interrupts whatever, and wherever: the interrupted program goes on
\* with its registers, stack, privilege and interrupt flag as they were.
ProgramGoesOn ==
    [][Len(interrupted') < Len(interrupted) =>
          LET was == Last(interrupted)
          IN  /\ regs' = was.regs /\ user' = was.user /\ at' = was.at
              /\ interrupts' = was.interrupts /\ Len(stack') = was.height]_vars

\* main_interrupt_handler is given the registers and the number of the
\* interrupt that called it, by the fields of the structures it declares.
HandlerSees ==
    at = "handler" => Cpu = Last(interrupted).regs /\ IntNumber = Last(interrupted).number

\* The kernel's stack is empty whenever a user program runs, and never holds more
\* than a system call and one interrupt of it.
StackBounded ==
    /\ user => stack = <<>> /\ interrupted = <<>>
    /\ Len(stack) <= 13 + 11

=============================================================================

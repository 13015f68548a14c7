------------------------------ MODULE Keyboard ------------------------------
(***************************************************************************)
(* How a line of input reaches the shell: the keyboard driver              *)
(* (keyboard/keyboard.c), the interrupt controller and the system call 4   *)
(* (interrupt/interrupt.c), the steps of the boot that turn interrupts on  *)
(* (kernel.c, idt.c) and the echo on the screen (framebuffer.c).           *)
(*                                                                         *)
(* An interrupt gate runs with interrupts off, so the handler is one step; *)
(* the program it interrupts takes a step only when no interrupt is due.   *)
(***************************************************************************)
EXTENDS Framebuffer, FiniteSets

CONSTANTS
    Size,       \* KEYBOARD_BUFFER_SIZE; the index is a byte and wraps at it
    Chars,      \* characters keys map to, without Newline and backspace
    Backspace,
    NoChar,     \* what a scancode without character maps to: key releases
    QueueSize,  \* scancodes the keyboard controller holds
    Prompt,     \* what the shell prints before it reads a line
    Texts       \* what the commands of the shell print

ASSUME KeyboardAssumption ==
    /\ Size \in Nat \ {0}
    /\ Size <= Width * Height   \* 256 and 2000: the screen holds a line
    /\ QueueSize \in Nat \ {0}
    /\ {Newline, Backspace, NoChar, Nul} \cap Chars = {}
    /\ Newline # Backspace /\ NoChar \notin {Newline, Backspace}
    /\ \A text \in {Prompt} \cup Texts : Len(text) \in Nat

TIMER    == 0   \* IRQ_TIMER
KEYBOARD == 1   \* IRQ_KEYBOARD
Keys     == Chars \cup {Newline, Backspace, NoChar}

VARIABLES
    at,         \* where the program is between two interrupts
    interrupts, \* the interrupt flag of the processor
    irr,        \* interrupt controller: lines that ask to be served
    isr,        \* lines in service, until they are acknowledged
    mask,       \* lines switched off
    queue,      \* scancodes in the keyboard controller
    keyboard_input_on, buffer_index, keyboard_buffer,  \* keyboard_state
    screen,
    line,       \* the shell's keyboard_buf
    typed,      \* history: the line as the user edits it, Newline included
    longest,    \* history: the most characters it has had
    start       \* history: cursor where the line begins

kernel  == <<at, interrupts>>
pic     == <<irr, isr, mask>>
driver  == <<keyboard_input_on, buffer_index, keyboard_buffer>>
history == <<typed, longest, start>>
vars    == <<kernel, pic, queue, driver, screen, line, history>>

ZeroBuffer == [i \in 1 .. Size |-> Nul]

----------------------------------------------------------------------------
(* The interrupt controller. *)

\* A line in service holds back itself and the lines of lower priority.
Deliverable ==
    IF interrupts
    THEN {l \in irr \ mask : \A m \in isr : l < m}
    ELSE {}

\* The timer's period ends.
Tick ==
    /\ irr' = irr \cup {TIMER}
    /\ UNCHANGED <<kernel, isr, mask, queue, driver, screen, line, history>>

\* What the user means: a character more, one less, or the end of the line.
Edited(text, key) ==
    IF text # <<>> /\ text[Len(text)] = Newline THEN text
    ELSE CASE key = Backspace -> IF text = <<>> THEN text ELSE Front(text)
           [] key = NoChar    -> text
           [] key = Newline   -> Append(text, key)
           [] OTHER           -> IF Len(text) < Size - 1 THEN Append(text, key)
                                                         ELSE text

\* A key goes down, or up.  The controller asks for an interrupt when a
\* scancode becomes the first one; it drops what its queue cannot hold.
Press(key) ==
    /\ IF Len(queue) < QueueSize
       THEN queue' = Append(queue, key)
       ELSE queue' = queue
    /\ irr' = IF queue = <<>> THEN irr \cup {KEYBOARD} ELSE irr
    /\ IF keyboard_input_on /\ Len(queue) < QueueSize
       THEN /\ typed' = Edited(typed, key)
            /\ longest' = IF key \notin Chars \/ Len(typed) < longest
                          THEN longest
                          ELSE IF longest < Size THEN longest + 1 ELSE longest
       ELSE UNCHANGED <<typed, longest>>
    /\ UNCHANGED <<kernel, isr, mask, driver, screen, line, start>>

----------------------------------------------------------------------------
(* The interrupt handlers. *)

\* main_interrupt_handler has no case for the timer: no acknowledgement.
TimerInterrupt ==
    /\ TIMER \in Deliverable
    /\ irr' = irr \ {TIMER}
    /\ isr' = isr \cup {TIMER}
    /\ UNCHANGED <<kernel, mask, queue, driver, screen, line, history>>

\* keyboard_isr while nobody reads: the scancode stays in the controller and
\* the interrupt is not acknowledged.
KeyIgnored ==
    /\ KEYBOARD \in Deliverable
    /\ ~keyboard_input_on
    /\ buffer_index' = 0
    /\ irr' = irr \ {KEYBOARD}
    /\ isr' = isr \cup {KEYBOARD}
    /\ UNCHANGED <<kernel, mask, queue, keyboard_input_on, keyboard_buffer,
                   screen, line, history>>

Stored(ch) == [keyboard_buffer EXCEPT ![buffer_index + 1] = ch]

\* Mutant: the input stays on.
KeyNewline_KeepsOn ==
    /\ keyboard_buffer' = Stored(Newline)
    /\ screen' = IF Row(screen) < Height - 1
                 THEN WriteHere(MostLeft(Down(screen)), Space)
                 ELSE screen
    /\ UNCHANGED <<keyboard_input_on, buffer_index>>

KeyNewline ==
    /\ keyboard_buffer' = Stored(Newline)
    /\ keyboard_input_on' = FALSE
    /\ buffer_index' = buffer_index
    /\ screen' = IF Row(screen) < Height - 1
                 THEN WriteHere(MostLeft(Down(screen)), Space)
                 ELSE screen

\* Mutant: the index is not moved back.
KeyBackspace_Forward ==
    /\ keyboard_buffer' = Stored(Nul)
    /\ screen' = IF buffer_index = 0 THEN WriteHere(screen, Space)
                 ELSE WriteHere(Left(WriteHere(screen, Nul)), Space)
    /\ UNCHANGED <<keyboard_input_on, buffer_index>>

KeyBackspace ==
    /\ \/ /\ buffer_index = 0
          /\ keyboard_buffer' = Stored(Nul)
          /\ screen' = WriteHere(screen, Space)
          /\ buffer_index' = buffer_index
       \/ /\ buffer_index > 0 /\ (Row(screen) > 0 \/ Col(screen) > 0)
          /\ keyboard_buffer' = Stored(Nul)
          /\ buffer_index' = buffer_index - 1
          /\ screen' = WriteHere(Left(WriteHere(screen, Nul)), Space)
       \/ /\ buffer_index > 0 /\ Row(screen) = 0 /\ Col(screen) = 0
          /\ UNCHANGED <<keyboard_buffer, buffer_index, screen>>
    /\ UNCHANGED keyboard_input_on

\* Mutant: the index does not wrap.
KeyChar_NoWrap(ch) ==
    /\ keyboard_buffer' = [keyboard_buffer EXCEPT ![buffer_index + 1] = ch]
    /\ buffer_index' = buffer_index + 1
    /\ screen' = WriteHere(Right(WriteHere(screen, ch)), Space)
    /\ UNCHANGED keyboard_input_on

KeyChar(ch) ==
    /\ keyboard_buffer' = Stored(ch)
    /\ buffer_index' = (buffer_index + 1) % Size
    /\ screen' = WriteHere(Right(WriteHere(screen, ch)), Space)
    /\ UNCHANGED keyboard_input_on

\* keyboard_isr while a line is read: one scancode leaves the controller,
\* which asks again when it holds another.  pic_ack ends the same handler, so
\* that the line is not in service after it.
KeyTaken ==
    /\ KEYBOARD \in Deliverable
    /\ keyboard_input_on
    /\ queue # <<>>
    /\ queue' = Tail(queue)
    /\ irr' = IF Len(queue) > 1 THEN irr ELSE irr \ {KEYBOARD}
    /\ CASE Head(queue) = NoChar    -> UNCHANGED <<driver, screen>>
         [] Head(queue) = Newline   -> KeyNewline
         [] Head(queue) = Backspace -> KeyBackspace
         [] OTHER                   -> KeyChar(Head(queue))
    /\ UNCHANGED <<kernel, isr, mask, line, history>>

Interrupt == TimerInterrupt \/ KeyIgnored \/ KeyTaken

----------------------------------------------------------------------------
(* The program: the boot, then the shell. *)

Goes(from, to) == at = from /\ at' = to /\ Deliverable = {}

\* pic_remap starts the controller anew and puts the BIOS's masks back.
PicRemap ==
    /\ Goes("pic_remap", "initialize_idt")
    /\ irr' = {} /\ isr' = {}
    /\ UNCHANGED <<interrupts, mask, queue, driver, screen, line, history>>

InitializeIdt ==
    /\ Goes("initialize_idt", "activate")
    /\ interrupts' = TRUE
    /\ UNCHANGED <<pic, queue, driver, screen, line, history>>

OnlyKeyboard == mask' = {TIMER}   \* activate_keyboard_interrupt

ActivateKeyboardInterrupt ==
    /\ Goes("activate", "clear")
    /\ OnlyKeyboard
    /\ UNCHANGED <<interrupts, irr, isr, queue, driver, screen, line, history>>

FramebufferClear ==
    /\ Goes("clear", "shell")
    /\ screen' = Cleared
    /\ UNCHANGED <<interrupts, pic, queue, driver, line, history>>

\* System calls of a command: 5 and 7 print, 11 clears.
Command ==
    /\ Goes("shell", "shell")
    /\ \/ \E text \in Texts : screen' = Puts(screen, text)
       \/ screen' = Cleared
    /\ UNCHANGED <<interrupts, pic, queue, driver, line, history>>

\* The head of the shell's loop: its buffers are cleared, the prompt printed.
PrintPrompt ==
    /\ Goes("shell", "prompted")
    /\ screen' = Puts(screen, Prompt)
    /\ line' = ZeroBuffer
    /\ typed' = <<>> /\ longest' = 0 /\ start' = 0
    /\ UNCHANGED <<interrupts, pic, queue, driver>>

\* System call 4 up to its loop.
ReadLine ==
    /\ Goes("prompted", "waiting")
    /\ OnlyKeyboard
    /\ keyboard_input_on' = TRUE
    /\ interrupts' = TRUE
    /\ start' = screen.cursor
    /\ UNCHANGED <<irr, isr, queue, buffer_index, keyboard_buffer, screen, line,
                   typed, longest>>

\* The loop ends when the handler has switched the input off.
LeaveLoop ==
    /\ Goes("waiting", "copying")
    /\ ~keyboard_input_on
    /\ UNCHANGED <<interrupts, pic, queue, driver, screen, line, history>>

\* Mutant: the buffer is not cleared.
TakeLine_NotCleared ==
    /\ Goes("copying", "shell")
    /\ line' = keyboard_buffer
    /\ keyboard_input_on' = FALSE
    /\ buffer_index' = 0
    /\ UNCHANGED <<interrupts, pic, queue, keyboard_buffer, screen, history>>

\* keyboard_state_deactivate, get_keyboard_buffer, the copy into the shell's.
TakeLine ==
    /\ Goes("copying", "shell")
    /\ keyboard_input_on' = FALSE
    /\ line' = keyboard_buffer
    /\ buffer_index' = 0
    /\ keyboard_buffer' = ZeroBuffer
    /\ UNCHANGED <<interrupts, pic, queue, screen, history>>

Program ==
    \/ PicRemap \/ InitializeIdt \/ ActivateKeyboardInterrupt
    \/ FramebufferClear \/ Command \/ PrintPrompt
    \/ ReadLine \/ LeaveLoop \/ TakeLine

----------------------------------------------------------------------------
(* The specification. *)

\* The loader leaves interrupts off and any lines masked.
Init ==
    /\ at = "pic_remap"
    /\ interrupts = FALSE
    /\ irr = {} /\ isr = {}
    /\ mask \in SUBSET {TIMER, KEYBOARD}
    /\ queue = <<>>
    /\ keyboard_input_on = FALSE
    /\ buffer_index = 0
    /\ keyboard_buffer = ZeroBuffer
    /\ screen = Cleared
    /\ line = ZeroBuffer
    /\ typed = <<>> /\ longest = 0 /\ start = 0

Next == Tick \/ (\E key \in Keys : Press(key)) \/ Interrupt \/ Program

Spec == Init /\ [][Next]_vars

\* A patient typist: a key goes down, or up, only while a line is read and the
\* key before it has been taken.  The timer stays masked by the loader.
PressPatiently(key) == keyboard_input_on /\ queue = <<>> /\ Press(key)

NextPatient ==
    (\E key \in Keys : PressPatiently(key)) \/ Interrupt \/ Program

\* The processor runs, a due interrupt is delivered, commands end, and the
\* typist ends every line at some time.
Fairness ==
    /\ WF_vars(Interrupt)
    /\ WF_vars(Program)
    /\ SF_vars(PrintPrompt)
    /\ SF_vars(PressPatiently(Newline))

InitPatient == Init /\ mask = {TIMER}

PatientSpec == InitPatient /\ [][NextPatient]_vars /\ Fairness

----------------------------------------------------------------------------
(* Properties. *)

\* Every variable keeps its type; the index stays inside the buffer.
TypeOK ==
    /\ at \in {"pic_remap", "initialize_idt", "activate", "clear", "shell",
               "prompted", "waiting", "copying"}
    /\ interrupts \in BOOLEAN /\ keyboard_input_on \in BOOLEAN
    /\ irr \subseteq {TIMER, KEYBOARD}
    /\ isr \subseteq {TIMER, KEYBOARD}
    /\ mask \subseteq {TIMER, KEYBOARD}
    /\ queue \in Seq(Keys) /\ Len(queue) <= QueueSize
    /\ buffer_index \in 0 .. (Size - 1)
    /\ Len(keyboard_buffer) = Size /\ Len(line) = Size
    /\ screen.cursor \in Cells /\ DOMAIN screen.cells = Cells
    /\ longest \in 0 .. Size /\ start \in Cells

Padded(text) ==
    [i \in 1 .. Size |-> IF i <= Len(text) THEN text[i] ELSE Nul]

\* A line that fits is edited in the buffer as the user edits it: whatever was
\* typed and erased before, the buffer is that line, then zeros.
LineFaithful ==
    keyboard_input_on /\ queue = <<>> /\ longest < Size =>
        /\ buffer_index = Len(typed)
        /\ \A i \in 1 .. Len(typed) : keyboard_buffer[i] = typed[i]
        /\ \A i \in (Len(typed) + 2) .. Size : keyboard_buffer[i] = Nul

\* What system call 4 hands to the shell is the line, its end, and nothing of
\* an earlier one.
LineReturned ==
    at = "shell" /\ typed # <<>> /\ longest < Size => line = Padded(typed)

\* The screen shows the line that is typed, and the cursor stands after it, as
\* long as it fits between the prompt and the last cell.
EchoMatches ==
    keyboard_input_on /\ queue = <<>> /\ longest < Size
      /\ start + longest < Width * Height =>
        /\ screen.cursor = start + Len(typed)
        /\ \A i \in 1 .. Len(typed) : screen.cells[start + i - 1] = typed[i]

\* For a patient typist, reading a line ends.
ReadLineEnds == at = "waiting" ~> at = "shell"

\* "Activate keyboard ISR / start listen keyboard": while the input is on, the
\* controller can deliver the keyboard's interrupt.
ActivatedListens ==
    keyboard_input_on => KEYBOARD \notin mask /\ KEYBOARD \notin isr

=============================================================================

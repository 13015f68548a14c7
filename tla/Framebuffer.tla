---------------------------- MODULE Framebuffer ----------------------------
(***************************************************************************)
(* The text screen, framebuffer.c: cells of a character each, and one      *)
(* hardware cursor that every routine reads back before it moves it.       *)
(* Colours are left out.  A screen is a value, [cursor, cells]; Keyboard   *)
(* keeps one and applies these operators to it.                            *)
(***************************************************************************)
EXTENDS Integers, SequencesExt

CONSTANTS
    Width, Height,  \* BUFFER_WIDTH (80) and BUFFER_HEIGHT (25)
    Nul,            \* character 0, what a cleared cell holds
    Space,
    Newline

ASSUME ScreenAssumption ==
    /\ Width \in Nat \ {0} /\ Width <= 255
    /\ Height \in Nat \ {0} /\ Height <= 255
    /\ Width * Height <= 65536

Cells == 0 .. (Width * Height - 1)

Row(fb) == fb.cursor \div Width   \* framebuffer_get_row
Col(fb) == fb.cursor % Width      \* framebuffer_get_col

SetCursor(fb, r, c) == [fb EXCEPT !.cursor = r * Width + c]

\* framebuffer_clear
Cleared == [cursor |-> 0, cells |-> [i \in Cells |-> Nul]]

\* framebuffer_write_curCursor: the cell under the cursor, nothing else.
WriteHere(fb, ch) == [fb EXCEPT !.cells[fb.cursor] = ch]

MostLeft(fb)  == SetCursor(fb, Row(fb), 0)
MostRight(fb) == SetCursor(fb, Row(fb), Width - 1)

Up(fb) ==
    IF Row(fb) > 0 THEN SetCursor(fb, Row(fb) - 1, Col(fb)) ELSE fb

Down(fb) ==
    IF Row(fb) < Height - 1 THEN SetCursor(fb, Row(fb) + 1, Col(fb)) ELSE fb

\* Mutant: the cursor stops at the left edge.
Left_StopsAtEdge(fb) ==
    IF Col(fb) > 0 THEN SetCursor(fb, Row(fb), Col(fb) - 1) ELSE fb

Left(fb) ==
    IF Col(fb) > 0 THEN SetCursor(fb, Row(fb), Col(fb) - 1)
    ELSE IF Row(fb) > 0 THEN Up(MostRight(fb)) ELSE fb

\* At the last cell the cursor stays: nothing scrolls.
Right(fb) ==
    IF Col(fb) < Width - 1 THEN SetCursor(fb, Row(fb), Col(fb) + 1)
    ELSE IF Row(fb) < Height - 1 THEN Down(MostLeft(fb)) ELSE fb

PutChar(fb, ch) ==
    IF ch = Newline THEN MostLeft(Down(fb)) ELSE Right(WriteHere(fb, ch))

\* The characters of text, one after the other.
Puts(fb, text) ==
    LET shown[i \in 0 .. Len(text)] ==
          IF i = 0 THEN fb ELSE PutChar(shown[i - 1], text[i])
    IN  shown[Len(text)]

=============================================================================

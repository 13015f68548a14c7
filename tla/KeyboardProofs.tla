--------------------------- MODULE KeyboardProofs ---------------------------
(***************************************************************************)
(* What Keyboard promises, proved for every size of the screen, of the     *)
(* buffer and of the controller's queue, and for all characters.           *)
(*                                                                         *)
(* The scancodes that wait in the controller are the difference between    *)
(* the line as the user has typed it and the line as the driver holds it:  *)
(* a run of the queue leads from the one to the other, text by text.  As   *)
(* long as the driver listens, the buffer and the screen hold the first    *)
(* text of such a run.                                                     *)
(***************************************************************************)
EXTENDS Keyboard, FiniteSetTheorems, SequenceTheorems, TLAPS

----------------------------------------------------------------------------
(* The invariant. *)

\* What a user can have typed: characters, and nothing after a Newline.
Lines ==
    {text \in Seq(Chars \cup {Newline}) :
        \A i \in 1 .. Len(text) : i < Len(text) => text[i] # Newline}

Ends(text) == text # <<>> /\ text[Len(text)] = Newline

\* A cursor on the screen, and a character in every cell.
IsScreen(fb) ==
    /\ fb = [cursor |-> fb.cursor, cells |-> fb.cells]
    /\ fb.cells = [i \in Cells |-> fb.cells[i]]
    /\ fb.cursor \in Cells

Typed ==
    /\ at \in {"pic_remap", "initialize_idt", "activate", "clear", "shell",
               "prompted", "waiting", "copying"}
    /\ interrupts \in BOOLEAN /\ keyboard_input_on \in BOOLEAN
    /\ irr \subseteq {TIMER, KEYBOARD}
    /\ isr \subseteq {TIMER, KEYBOARD}
    /\ mask \subseteq {TIMER, KEYBOARD}
    /\ queue \in Seq(Keys) /\ Len(queue) <= QueueSize
    /\ buffer_index \in 0 .. (Size - 1)
    /\ keyboard_buffer \in [1 .. Size -> Keys \cup {Nul}]
    /\ line \in [1 .. Size -> Keys \cup {Nul}]
    /\ IsScreen(screen)
    /\ typed \in Lines
    /\ longest \in 0 .. Size /\ start \in Cells

Booting == at \in {"pic_remap", "initialize_idt", "activate", "clear"}

\* Where the program is tells what has been set up and what is empty.
Places ==
    /\ at \notin {"pic_remap", "initialize_idt"} => interrupts
    /\ at \notin {"pic_remap", "initialize_idt", "activate"} => mask = {TIMER}
    /\ keyboard_input_on => at = "waiting"
    /\ at \notin {"waiting", "copying"} =>
           buffer_index = 0 /\ keyboard_buffer = ZeroBuffer
    /\ Booting \/ at = "prompted" => typed = <<>>
    /\ at = "prompted" => longest = 0

\* The texts that the scancodes of the queue make of the line, the last one
\* being what the user has typed; the driver holds the first one.
Leads(run) ==
    /\ run[Len(queue)] = typed
    /\ \A i \in 1 .. Len(queue) : run[i] = Edited(run[i - 1], queue[i])
    /\ ~Ends(run[0])
    /\ \A i, j \in 0 .. Len(queue) :
           Ends(run[i]) /\ i <= j => run[j] = run[i]

\* The line fits, whatever of it still waits.
Fits(run) ==
    /\ \A i \in 1 .. Len(queue) :
           queue[i] \in Chars /\ ~Ends(run[i - 1]) => Len(run[i - 1]) < longest
    /\ ~Ends(typed) => Len(typed) <= longest

\* The buffer holds the text; the cell after it may hold what was erased.
Buffered(text) ==
    /\ buffer_index = Len(text)
    /\ \A i \in 1 .. Len(text) : keyboard_buffer[i] = text[i]
    /\ \A i \in (Len(text) + 2) .. Size : keyboard_buffer[i] = Nul

Echoed(text) ==
    /\ screen.cursor = start + Len(text)
    /\ \A i \in 1 .. Len(text) : screen.cells[start + i - 1] = text[i]

Holds(run) ==
    longest < Size =>
        /\ Fits(run)
        /\ Buffered(run[0])
        /\ screen.cursor >= Len(run[0])
        /\ start + longest < Width * Height => Echoed(run[0])

Live == \E run \in [0 .. Len(queue) -> Lines] : Leads(run) /\ Holds(run)

\* A scancode waits and no interrupt will ever fetch it.
Stuck == queue # <<>> /\ (KEYBOARD \notin irr \/ isr # {})

Listens == keyboard_input_on => Live \/ Stuck

\* Between the end of the line and the copy of it.
Ended ==
    (at = "copying" \/ (at = "waiting" /\ ~keyboard_input_on))
      /\ longest < Size => keyboard_buffer = Padded(typed)

IInv == Typed /\ Places /\ Listens /\ Ended /\ LineReturned

----------------------------------------------------------------------------
(* The screen. *)

\* A cell in rows and columns: the division the cursor routines rely on.
LEMMA Division ==
    ASSUME NEW w \in Nat \ {0}, NEW c \in Nat
    PROVE  /\ c \div w \in Nat
           /\ c % w \in 0 .. (w - 1)
           /\ c = (c \div w) * w + (c % w)
  <1>1. PICK q \in Int, m \in Int : q = c \div w /\ m = c % w
    BY SMT
  <1>2. c = w * q + m /\ q \in Nat /\ m \in 0 .. (w - 1)
    BY <1>1, SMT
  <1>3. w * q = q * w
    BY SMT
  <1> QED
    BY <1>1, <1>2, <1>3

\* The product of two numbers grows with the first of them.
LEMMA ProductGrows ==
    ASSUME NEW w \in Nat, NEW a \in Nat, NEW b \in Nat, a <= b
    PROVE  a * w <= b * w /\ a * w \in Nat /\ b * w \in Nat
  <1>1. (b - a) * w >= 0
    BY SMT
  <1>2. (b - a) * w = b * w - a * w
    BY SMT
  <1> QED
    BY <1>1, <1>2, SMT

\* A cell of the last row is followed by cells of that row only.
LEMMA RowBelow ==
    ASSUME NEW w \in Nat \ {0}, NEW h \in Nat, NEW c \in 0 .. (w * h - 1)
    PROVE  c \div w < h
  <1> DEFINE q == c \div w
  <1>1. q \in Nat /\ c = q * w + (c % w) /\ c % w >= 0
    BY Division
  <1>2. SUFFICES ASSUME q >= h PROVE FALSE
    BY <1>1
  <1>3. h * w <= q * w /\ h * w \in Nat /\ q * w \in Nat
    BY <1>1, <1>2, ProductGrows
  <1>4. w * h = h * w
    BY SMT
  <1> HIDE DEF q
  <1> QED
    BY <1>1, <1>3, <1>4, SMT

\* What a cell of row r and column k is.
LEMMA CellAt ==
    ASSUME NEW w \in Nat \ {0}, NEW h \in Nat \ {0},
           NEW r \in 0 .. (h - 1), NEW k \in 0 .. (w - 1)
    PROVE  r * w + k \in 0 .. (w * h - 1)
  <1>1. (r + 1) * w <= h * w /\ (r + 1) * w \in Nat /\ h * w \in Nat
    BY ProductGrows
  <1>2. (r + 1) * w = r * w + w
    BY SMT
  <1>3. w * h = h * w
    BY SMT
  <1>4. r * w \in Nat
    BY ProductGrows
  <1> QED
    BY <1>1, <1>2, <1>3, <1>4, SMT

\* Rows and columns of the cursor.
LEMMA Place ==
    ASSUME NEW fb, IsScreen(fb)
    PROVE  /\ Row(fb) \in 0 .. (Height - 1)
           /\ Col(fb) \in 0 .. (Width - 1)
           /\ fb.cursor = Row(fb) * Width + Col(fb)
           /\ fb.cursor \in Nat
  <1>1. Width \in Nat \ {0} /\ Height \in Nat
    BY ScreenAssumption
  <1>2. fb.cursor \in 0 .. (Width * Height - 1)
    BY DEF IsScreen, Cells
  <1>3. PICK c \in 0 .. (Width * Height - 1) : c = fb.cursor
    BY <1>2
  <1>4. c \in Nat
    BY <1>1
  <1>5. /\ c \div Width \in Nat
        /\ c % Width \in 0 .. (Width - 1)
        /\ c = (c \div Width) * Width + (c % Width)
    BY <1>1, <1>4, Division
  <1>6. c \div Width < Height
    BY <1>1, RowBelow
  <1>7. Row(fb) = c \div Width /\ Col(fb) = c % Width
    BY <1>3 DEF Row, Col
  <1>8. PICK q, m : q = c \div Width /\ m = c % Width
    OBVIOUS
  <1>9. q \in 0 .. (Height - 1) /\ m \in 0 .. (Width - 1)
        /\ c = q * Width + m
    BY <1>1, <1>5, <1>6, <1>8
  <1> QED
    BY <1>3, <1>4, <1>7, <1>8, <1>9

\* A routine that moves the cursor leaves the cells.
LEMMA Moved ==
    ASSUME NEW fb, IsScreen(fb), NEW c \in Cells
    PROVE  LET to == [fb EXCEPT !.cursor = c]
           IN  IsScreen(to) /\ to.cursor = c /\ to.cells = fb.cells
  <1>1. PICK x, y : fb = [cursor |-> x, cells |-> y]
    BY DEF IsScreen
  <1>2. [fb EXCEPT !.cursor = c] = [cursor |-> c, cells |-> y]
    BY <1>1
  <1>3. y = [i \in Cells |-> y[i]]
    BY <1>1 DEF IsScreen
  <1> QED
    BY <1>1, <1>2, <1>3 DEF IsScreen

\* A row and a column of the screen can be the cursor's.
LEMMA CursorSet ==
    ASSUME NEW fb, IsScreen(fb),
           NEW r \in 0 .. (Height - 1), NEW k \in 0 .. (Width - 1)
    PROVE  /\ IsScreen(SetCursor(fb, r, k))
           /\ SetCursor(fb, r, k).cursor = r * Width + k
           /\ SetCursor(fb, r, k).cells = fb.cells
           /\ Row(SetCursor(fb, r, k)) = r
           /\ Col(SetCursor(fb, r, k)) = k
  <1>1. Width \in Nat \ {0} /\ Height \in Nat \ {0}
    BY ScreenAssumption
  <1>2. r * Width + k \in Cells
    BY <1>1, CellAt DEF Cells
  <1>3. SetCursor(fb, r, k) = [fb EXCEPT !.cursor = r * Width + k]
    BY DEF SetCursor
  <1>4. (r * Width + k) \div Width = r /\ (r * Width + k) % Width = k
    <2>1. PICK c \in Nat : c = r * Width + k
      BY <1>1, ProductGrows
    <2>2. PICK q, m : q = c \div Width /\ m = c % Width
      OBVIOUS
    <2>3. q \in Nat /\ m \in 0 .. (Width - 1) /\ c = q * Width + m
      BY <1>1, <2>2, Division
    <2>4. q = r
      <3>1. CASE q < r
        <4>1. (q + 1) * Width <= r * Width
          BY <1>1, <2>3, <3>1, ProductGrows
        <4> QED
          BY <1>1, <2>1, <2>3, <4>1
      <3>2. CASE r < q
        <4>1. (r + 1) * Width <= q * Width
          BY <1>1, <2>3, <3>2, ProductGrows
        <4> QED
          BY <1>1, <2>1, <2>3, <4>1
      <3> QED
        BY <2>3, <3>1, <3>2
    <2>5. m = k
      BY <1>1, <2>1, <2>3, <2>4
    <2> QED
      BY <2>1, <2>2, <2>4, <2>5
  <1>5. /\ IsScreen(SetCursor(fb, r, k))
        /\ SetCursor(fb, r, k).cursor = r * Width + k
        /\ SetCursor(fb, r, k).cells = fb.cells
    BY <1>2, <1>3, Moved
  <1> QED
    BY <1>4, <1>5 DEF Row, Col

\* Writing at the cursor changes the cell there.
LEMMA Written ==
    ASSUME NEW fb, IsScreen(fb), NEW ch
    PROVE  /\ IsScreen(WriteHere(fb, ch))
           /\ WriteHere(fb, ch).cursor = fb.cursor
           /\ WriteHere(fb, ch).cells[fb.cursor] = ch
           /\ \A i \in Cells \ {fb.cursor} :
                  WriteHere(fb, ch).cells[i] = fb.cells[i]
  <1>1. PICK x, y : fb = [cursor |-> x, cells |-> y]
    BY DEF IsScreen
  <1>2. WriteHere(fb, ch)
          = [cursor |-> x, cells |-> [y EXCEPT ![x] = ch]]
    BY <1>1 DEF WriteHere
  <1>3. y = [i \in Cells |-> y[i]] /\ x \in Cells
    BY <1>1 DEF IsScreen
  <1>4. [y EXCEPT ![x] = ch] = [i \in Cells |-> IF i = x THEN ch ELSE y[i]]
    BY <1>3
  <1>5. WriteHere(fb, ch).cursor = x
        /\ WriteHere(fb, ch).cells = [y EXCEPT ![x] = ch]
    BY <1>2
  <1>6. IsScreen(WriteHere(fb, ch))
    BY <1>2, <1>3, <1>4, <1>5, Zenon DEF IsScreen
  <1> QED
    BY <1>1, <1>3, <1>4, <1>5, <1>6

\* One cell back: to the row above from the first column.
LEMMA LeftMoves ==
    ASSUME NEW fb, IsScreen(fb)
    PROVE  /\ IsScreen(Left(fb))
           /\ Left(fb).cells = fb.cells
           /\ fb.cursor > 0 => Left(fb).cursor = fb.cursor - 1
  <1>1. Width \in Nat \ {0} /\ Height \in Nat \ {0}
    BY ScreenAssumption
  <1>2. PICK r \in 0 .. (Height - 1), k \in 0 .. (Width - 1) :
            r = Row(fb) /\ k = Col(fb) /\ fb.cursor = r * Width + k
    BY Place
  <1>3. CASE k > 0
    <2>1. Left(fb) = SetCursor(fb, r, k - 1)
      BY <1>2, <1>3 DEF Left
    <2>2. k - 1 \in 0 .. (Width - 1)
      BY <1>1, <1>3
    <2>3. r * Width + (k - 1) = (r * Width + k) - 1
      BY <1>1, ProductGrows
    <2> QED
      BY <1>2, <2>1, <2>2, <2>3, CursorSet
  <1>4. CASE k = 0 /\ r > 0
    <2> DEFINE end == SetCursor(fb, r, Width - 1)
    <2>1. Width - 1 \in 0 .. (Width - 1) /\ r - 1 \in 0 .. (Height - 1)
      BY <1>1, <1>4
    <2>2. /\ IsScreen(end) /\ Row(end) = r /\ Col(end) = Width - 1
          /\ end.cells = fb.cells
      BY <2>1, CursorSet
    <2>3. Left(fb) = SetCursor(end, r - 1, Width - 1)
      BY <1>2, <1>4, <2>2 DEF Left, Up, MostRight
    <2>4. (r - 1) * Width + (Width - 1) = (r * Width + k) - 1
      BY <1>1, <1>4
    <2> HIDE DEF end
    <2>5. /\ IsScreen(Left(fb)) /\ Left(fb).cells = fb.cells
          /\ Left(fb).cursor = (r - 1) * Width + (Width - 1)
      <3>1. PICK a, b : a = r - 1 /\ b = Width - 1
        OBVIOUS
      <3>2. a \in 0 .. (Height - 1) /\ b \in 0 .. (Width - 1)
        BY <2>1, <3>1
      <3>3. Left(fb) = SetCursor(end, a, b)
        BY <2>3, <3>1, Zenon
      <3>4. /\ IsScreen(Left(fb)) /\ Left(fb).cells = end.cells
            /\ Left(fb).cursor = a * Width + b
        <4>1. /\ IsScreen(SetCursor(end, a, b))
              /\ SetCursor(end, a, b).cells = end.cells
              /\ SetCursor(end, a, b).cursor = a * Width + b
          BY <2>2, <3>2, CursorSet
        <4> QED
          BY <3>3, <4>1, Zenon
      <3> QED
        BY <2>2, <3>1, <3>4, Zenon
    <2> QED
      BY <1>2, <2>4, <2>5
  <1>5. CASE k = 0 /\ r = 0
    <2>1. Left(fb) = fb
      BY <1>2, <1>5 DEF Left
    <2>2. fb.cursor = 0
      BY <1>1, <1>2, <1>5
    <2> QED
      BY <2>1, <2>2
  <1> QED
    BY <1>1, <1>3, <1>4, <1>5

\* One cell on: to the row below from the last column; at the last cell the
\* cursor stays.
LEMMA RightMoves ==
    ASSUME NEW fb, IsScreen(fb)
    PROVE  /\ IsScreen(Right(fb))
           /\ Right(fb).cells = fb.cells
           /\ Right(fb).cursor = IF fb.cursor < Width * Height - 1
                                 THEN fb.cursor + 1 ELSE fb.cursor
  <1>1. Width \in Nat \ {0} /\ Height \in Nat \ {0}
    BY ScreenAssumption
  <1>2. PICK r \in 0 .. (Height - 1), k \in 0 .. (Width - 1) :
            r = Row(fb) /\ k = Col(fb) /\ fb.cursor = r * Width + k
    BY Place
  <1>3. r * Width + k \in 0 .. (Width * Height - 1)
    BY <1>1, CellAt
  <1>4. CASE k < Width - 1
    <2>1. Right(fb) = SetCursor(fb, r, k + 1)
      BY <1>2, <1>4 DEF Right
    <2>2. k + 1 \in 0 .. (Width - 1)
      BY <1>1, <1>4
    <2>3. r * Width + (k + 1) = (r * Width + k) + 1
      BY <1>1, ProductGrows
    <2>4. r * Width + (k + 1) \in 0 .. (Width * Height - 1)
      BY <1>1, <2>2, CellAt
    <2>5. r * Width + k < Width * Height - 1
      BY <1>1, <1>3, <2>3, <2>4
    <2> QED
      BY <1>2, <2>1, <2>2, <2>3, <2>5, CursorSet
  <1>5. CASE k = Width - 1 /\ r < Height - 1
    <2> DEFINE begin == SetCursor(fb, r, 0)
    <2>1. 0 \in 0 .. (Width - 1) /\ r + 1 \in 0 .. (Height - 1)
      BY <1>1, <1>5
    <2>2. /\ IsScreen(begin) /\ Row(begin) = r /\ Col(begin) = 0
          /\ begin.cells = fb.cells
      BY <2>1, CursorSet
    <2>3. Right(fb) = SetCursor(begin, r + 1, 0)
      BY <1>2, <1>5, <2>2 DEF Right, Down, MostLeft
    <2>4. (r + 1) * Width + 0 = (r * Width + k) + 1
      BY <1>1, <1>5
    <2>5. (r + 1) * Width + 0 \in 0 .. (Width * Height - 1)
      BY <1>1, <2>1, CellAt
    <2>6. r * Width + k < Width * Height - 1
      BY <1>1, <1>3, <2>4, <2>5
    <2> HIDE DEF begin
    <2> QED
      BY <1>2, <2>1, <2>2, <2>3, <2>4, <2>6, CursorSet
  <1>6. CASE k = Width - 1 /\ r = Height - 1
    <2>1. Right(fb) = fb
      BY <1>2, <1>6 DEF Right
    <2>2. r * Width + k = Width * Height - 1
      <3>1. (Height - 1) * Width + (Width - 1) = Width * Height - 1
        BY <1>1, SMT
      <3> QED
        BY <1>6, <3>1
    <2>3. PICK last : last = Width * Height - 1
      OBVIOUS
    <2>4. fb.cursor = last /\ last \in Nat
      BY <1>2, <1>3, <2>2, <2>3
    <2>5. ~(last < last)
      BY <2>4
    <2> QED
      BY <2>1, <2>3, <2>4, <2>5, Zenon
  <1> QED
    BY <1>1, <1>4, <1>5, <1>6

\* The row below, and the first column.
LEMMA DownMoves ==
    ASSUME NEW fb, IsScreen(fb)
    PROVE  IsScreen(Down(fb)) /\ IsScreen(MostLeft(fb))
  <1>1. Width \in Nat \ {0} /\ Height \in Nat \ {0}
    BY ScreenAssumption
  <1>2. PICK r \in 0 .. (Height - 1), k \in 0 .. (Width - 1) :
            r = Row(fb) /\ k = Col(fb)
    BY Place
  <1>3. IsScreen(MostLeft(fb))
    BY <1>1, <1>2, CursorSet DEF MostLeft
  <1>4. CASE r < Height - 1
    <2>1. r + 1 \in 0 .. (Height - 1)
      BY <1>1, <1>4
    <2>2. Down(fb) = SetCursor(fb, r + 1, k)
      BY <1>2, <1>4 DEF Down
    <2> QED
      BY <1>3, <2>1, <2>2, CursorSet
  <1>5. CASE ~(r < Height - 1)
    BY <1>2, <1>3, <1>5 DEF Down
  <1> QED
    BY <1>4, <1>5

LEMMA PutCharShows ==
    ASSUME NEW fb, IsScreen(fb), NEW ch
    PROVE  IsScreen(PutChar(fb, ch))
  <1>1. IsScreen(MostLeft(Down(fb)))
    BY DownMoves
  <1>2. IsScreen(Right(WriteHere(fb, ch)))
    BY Written, RightMoves
  <1> QED
    BY <1>1, <1>2 DEF PutChar

\* A set of numbers that holds 0 and the successor of each of its numbers
\* holds them all: the induction behind what puts and a queue do step by step.
LEMMA StepByStep ==
    ASSUME NEW S, 0 \in S, \A n \in Nat : n \in S => n + 1 \in S
    PROVE  Nat \subseteq S
  <1> DEFINE T     == Nat \ S
             Order == StrictSubsetOrdering(Nat)
             UpTo  == {0 .. n : n \in T}
  <1>1. SUFFICES ASSUME T # {} PROVE FALSE
    OBVIOUS
  <1>2. IsWellFoundedOn(Order, FiniteSubsetsOf(Nat))
    BY FS_StrictSubsetOrderingWellFounded
  <1>3. UpTo \subseteq FiniteSubsetsOf(Nat)
    <2>1. ASSUME NEW n \in T PROVE 0 .. n \in FiniteSubsetsOf(Nat)
      <3>1. IsFiniteSet(0 .. n)
        BY FS_Interval
      <3> QED
        BY <3>1 DEF FiniteSubsetsOf
    <2> QED
      BY <2>1
  <1>4. UpTo # {}
    BY <1>1
  <1>5. \A n \in Nat : n \in T => n # 0 /\ n - 1 \in T
    <2>1. SUFFICES ASSUME NEW n \in Nat, n \in T
                   PROVE  n # 0 /\ n - 1 \in T
      OBVIOUS
    <2>2. n # 0
      BY <2>1
    <2>3. n - 1 \in Nat /\ (n - 1) + 1 = n
      BY <2>2
    <2> QED
      BY <2>1, <2>2, <2>3
  <1>6. T \subseteq Nat
    OBVIOUS
  <1> HIDE DEF T, Order, UpTo
  <1>7. PICK w \in UpTo : \A v \in UpTo : ~(<<v, w>> \in Order)
    BY <1>2, <1>3, <1>4, WFMin
  <1>8. PICK n \in T : w = 0 .. n
    BY DEF UpTo
  <1>9. n - 1 \in T /\ n \in Nat /\ n # 0
    BY <1>5, <1>6
  <1>10. <<0 .. (n - 1), 0 .. n>> \notin Order
    BY <1>7, <1>8, <1>9 DEF UpTo
  <1>11. 0 .. (n - 1) \in SUBSET Nat /\ 0 .. n \in SUBSET Nat
    BY <1>9
  <1>12. 0 .. (n - 1) \subseteq 0 .. n /\ 0 .. (n - 1) # 0 .. n
    BY <1>9
  <1> QED
    BY <1>10, <1>11, <1>12 DEF Order, StrictSubsetOrdering

\* puts keeps the cursor on the screen, however long the text.
LEMMA PutsShows ==
    ASSUME NEW fb, IsScreen(fb), NEW text, Len(text) \in Nat
    PROVE  IsScreen(Puts(fb, text))
  <1> DEFINE IsShown(f, n) ==
               f = [i \in 0 .. n |-> IF i = 0 THEN fb
                                     ELSE PutChar(f[i - 1], text[i])]
             Reached == {n \in Nat : \E f : IsShown(f, n)}
  <1>1. 0 \in Reached
    <2>1. IsShown([i \in 0 .. 0 |-> fb], 0)
      OBVIOUS
    <2> QED
      BY <2>1
  <1>2. ASSUME NEW n \in Nat, n \in Reached PROVE n + 1 \in Reached
    <2>1. PICK f : IsShown(f, n)
      BY <1>2
    <2> DEFINE g == [i \in 0 .. (n + 1) |->
                       IF i = n + 1 THEN PutChar(f[n], text[n + 1]) ELSE f[i]]
    <2>2. ASSUME NEW i \in 0 .. (n + 1)
          PROVE  g[i] = IF i = 0 THEN fb ELSE PutChar(g[i - 1], text[i])
      <3>1. CASE i = 0
        BY <2>1, <3>1
      <3>2. CASE i # 0 /\ i <= n
        <4>1. f[i] = PutChar(f[i - 1], text[i])
          BY <2>1, <3>2
        <4>2. i - 1 \in 0 .. (n + 1) /\ i - 1 # n + 1 /\ i # n + 1
          BY <3>2
        <4> QED
          BY <3>2, <4>1, <4>2
      <3>3. CASE i = n + 1
        <4>1. i - 1 = n /\ n \in 0 .. (n + 1) /\ n # n + 1 /\ i # 0
          BY <3>3
        <4> QED
          BY <3>3, <4>1
      <3> QED
        BY <3>1, <3>2, <3>3
    <2>3. g = [i \in 0 .. (n + 1) |-> g[i]]
      OBVIOUS
    <2> HIDE DEF g
    <2>4. IsShown(g, n + 1)
      BY <2>2, <2>3
    <2> QED
      BY <2>4
  <1>3. Nat \subseteq Reached
    <2> HIDE DEF Reached
    <2> QED
      BY <1>1, <1>2, StepByStep
  <1>4. \E f : IsShown(f, Len(text))
    BY <1>3
  <1> DEFINE shown == CHOOSE f : IsShown(f, Len(text))
  <1>5. IsShown(shown, Len(text))
    <2> HIDE DEF IsShown
    <2> QED
      BY <1>4
  <1>6. Puts(fb, text) = shown[Len(text)]
    BY DEF Puts
  <1> HIDE DEF shown
  <1> DEFINE Good == {n \in Nat : n <= Len(text) => IsScreen(shown[n])}
  <1>7. 0 \in Good
    BY <1>5
  <1>8. ASSUME NEW n \in Nat, n \in Good PROVE n + 1 \in Good
    <2>1. SUFFICES ASSUME n + 1 <= Len(text)
                   PROVE  IsScreen(shown[n + 1])
      OBVIOUS
    <2>2. n + 1 \in 0 .. Len(text) /\ n + 1 # 0 /\ (n + 1) - 1 = n
          /\ n <= Len(text)
      BY <2>1
    <2>3. shown[n + 1] = PutChar(shown[n], text[n + 1])
      BY <1>5, <2>2
    <2> QED
      BY <1>8, <2>2, <2>3, PutCharShows
  <1>9. Nat \subseteq Good
    <2> HIDE DEF Good
    <2> QED
      BY <1>7, <1>8, StepByStep
  <1> QED
    BY <1>6, <1>9

----------------------------------------------------------------------------
(* The line as the user edits it. *)

LEMMA NoText == <<>> \in Lines /\ ~Ends(<<>>)
  BY DEF Lines, Ends

LEMMA LineType ==
    ASSUME NEW text \in Lines
    PROVE  /\ text \in Seq(Chars \cup {Newline})
           /\ Len(text) \in Nat
           /\ text # <<>> <=> Len(text) > 0
           /\ \A i \in 1 .. Len(text) : text[i] \in Chars \cup {Newline}
           /\ \A i \in 1 .. Len(text) : i < Len(text) => text[i] # Newline
  BY DEF Lines

\* A sequence with one element more, and with the last one taken away.
LEMMA OneMore ==
    ASSUME NEW S, NEW s \in Seq(S), NEW x \in S
    PROVE  /\ Append(s, x) \in Seq(S)
           /\ Len(s) \in Nat /\ Len(Append(s, x)) = Len(s) + 1
           /\ Append(s, x)[Len(s) + 1] = x
           /\ \A i \in 1 .. Len(s) : Append(s, x)[i] = s[i]
           /\ Append(s, x) # <<>>
  <1>1. Append(s, x) \in Seq(S)
    BY SMT
  <1>2. Len(s) \in Nat /\ Len(Append(s, x)) = Len(s) + 1
    BY SMT
  <1>3. Append(s, x)[Len(s) + 1] = x
    BY SMT
  <1>4. \A i \in 1 .. Len(s) : Append(s, x)[i] = s[i]
    BY SMT
  <1>5. Append(s, x) # <<>>
    BY <1>2, SMT
  <1> QED
    BY <1>1, <1>2, <1>3, <1>4, <1>5

LEMMA OneLess ==
    ASSUME NEW S, NEW s \in Seq(S), Len(s) > 0
    PROVE  /\ Front(s) \in Seq(S)
           /\ Len(Front(s)) = Len(s) - 1
           /\ \A i \in 1 .. (Len(s) - 1) : Front(s)[i] = s[i]
  <1>1. PICK n \in Nat : Len(s) = n + 1 /\ Len(s) - 1 = n
    <2>1. Len(s) \in Nat /\ Len(s) - 1 \in Nat
      BY SMT
    <2> QED
      BY <2>1
  <1>2. \A i \in 1 .. n : s[i] \in S
    BY <1>1
  <1>3. /\ SubSeq(s, 1, n) \in Seq(S)
        /\ Len(SubSeq(s, 1, n)) = IF 1 <= n THEN n - 1 + 1 ELSE 0
        /\ \A i \in 1 .. (n - 1 + 1) : SubSeq(s, 1, n)[i] = s[1 + i - 1]
    BY <1>2, SubSeqProperties
  <1>4. Front(s) = SubSeq(s, 1, n)
    BY <1>1 DEF Front
  <1>5. n - 1 + 1 = n /\ (~(1 <= n) => n = 0)
        /\ \A i \in 1 .. n : 1 + i - 1 = i
    OBVIOUS
  <1> QED
    BY <1>1, <1>3, <1>4, <1>5

\* The end of the line, or a character, after a line that has no end yet.
LEMMA Longer ==
    ASSUME NEW text \in Lines, ~Ends(text), NEW ch \in Chars \cup {Newline}
    PROVE  /\ Append(text, ch) \in Lines
           /\ Len(Append(text, ch)) = Len(text) + 1
           /\ Append(text, ch)[Len(text) + 1] = ch
           /\ \A i \in 1 .. Len(text) : Append(text, ch)[i] = text[i]
           /\ Ends(Append(text, ch)) <=> ch = Newline
  <1>1. /\ text \in Seq(Chars \cup {Newline})
        /\ Len(text) \in Nat
        /\ \A i \in 1 .. Len(text) : i < Len(text) => text[i] # Newline
    BY LineType
  <1> DEFINE to == Append(text, ch)
  <1>2. /\ to \in Seq(Chars \cup {Newline})
        /\ Len(to) = Len(text) + 1
        /\ to[Len(text) + 1] = ch
        /\ \A i \in 1 .. Len(text) : to[i] = text[i]
        /\ to # <<>>
    BY <1>1, OneMore
  <1> HIDE DEF to
  <1>3. \A i \in 1 .. Len(text) : text[i] # Newline
    <2>1. CASE text = <<>>
      BY <2>1
    <2>2. CASE text # <<>>
      BY <1>1, <2>2 DEF Ends
    <2> QED
      BY <2>1, <2>2
  <1>4. \A i \in 1 .. Len(to) : i < Len(to) => to[i] # Newline
    BY <1>1, <1>2, <1>3
  <1>5. to \in Lines
    BY <1>2, <1>4 DEF Lines
  <1>6. Ends(to) <=> ch = Newline
    BY <1>2 DEF Ends
  <1> QED
    BY <1>2, <1>5, <1>6 DEF to

\* A character less: what is left has no end.
LEMMA Shorter ==
    ASSUME NEW text \in Lines, text # <<>>
    PROVE  /\ Front(text) \in Lines
           /\ Len(Front(text)) = Len(text) - 1
           /\ \A i \in 1 .. (Len(text) - 1) : Front(text)[i] = text[i]
           /\ ~Ends(Front(text))
  <1>1. /\ text \in Seq(Chars \cup {Newline})
        /\ Len(text) \in Nat /\ Len(text) > 0
        /\ \A i \in 1 .. Len(text) : i < Len(text) => text[i] # Newline
    BY LineType
  <1> DEFINE to == Front(text)
  <1>2. /\ to \in Seq(Chars \cup {Newline})
        /\ Len(to) = Len(text) - 1
        /\ \A i \in 1 .. (Len(text) - 1) : to[i] = text[i]
    BY <1>1, OneLess
  <1> HIDE DEF to
  <1>3. \A i \in 1 .. Len(to) : to[i] # Newline
    BY <1>1, <1>2
  <1>4. to \in Lines
    BY <1>2, <1>3 DEF Lines
  <1>5. ~Ends(to)
    <2>1. CASE to = <<>>
      BY <2>1 DEF Ends
    <2>2. CASE to # <<>>
      <3>1. Len(to) \in 1 .. Len(to)
        BY <1>2, <2>2
      <3> QED
        BY <1>3, <3>1 DEF Ends
    <2> QED
      BY <2>1, <2>2
  <1> QED
    BY <1>2, <1>4, <1>5 DEF to

LEMMA FewKeys ==
    /\ Newline # Backspace /\ Newline # NoChar /\ Backspace # NoChar
    /\ Newline \notin Chars /\ Backspace \notin Chars /\ NoChar \notin Chars
    /\ Nul \notin Chars
  BY KeyboardAssumption

\* What each kind of key does to a line without an end.
LEMMA EditedBy ==
    ASSUME NEW text \in Lines, ~Ends(text)
    PROVE  /\ Edited(text, Backspace)
                = IF text = <<>> THEN text ELSE Front(text)
           /\ Edited(text, NoChar) = text
           /\ Edited(text, Newline) = Append(text, Newline)
           /\ \A ch \in Chars :
                  Edited(text, ch) = IF Len(text) < Size - 1
                                     THEN Append(text, ch) ELSE text
  <1>1. ~(text # <<>> /\ text[Len(text)] = Newline)
    BY DEF Ends
  <1>2. Edited(text, Backspace) = IF text = <<>> THEN text ELSE Front(text)
    BY <1>1, FewKeys DEF Edited
  <1>3. Edited(text, NoChar) = text
    BY <1>1, FewKeys DEF Edited
  <1>4. Edited(text, Newline) = Append(text, Newline)
    BY <1>1, FewKeys DEF Edited
  <1>5. ASSUME NEW ch \in Chars
        PROVE  Edited(text, ch) = IF Len(text) < Size - 1
                                  THEN Append(text, ch) ELSE text
    BY <1>1, FewKeys DEF Edited
  <1> QED
    BY <1>2, <1>3, <1>4, <1>5

LEMMA EditedEnded ==
    ASSUME NEW text, Ends(text), NEW key
    PROVE  Edited(text, key) = text
  BY DEF Edited, Ends

\* A line stays a line.
LEMMA EditedLine ==
    ASSUME NEW text \in Lines, NEW key \in Keys
    PROVE  Edited(text, key) \in Lines
  <1>1. CASE Ends(text)
    BY <1>1, EditedEnded
  <1>2. CASE ~Ends(text) /\ key = Backspace
    BY <1>2, EditedBy, Shorter
  <1>3. CASE ~Ends(text) /\ key = NoChar
    BY <1>3, EditedBy
  <1>4. CASE ~Ends(text) /\ key = Newline
    BY <1>4, EditedBy, Longer
  <1>5. CASE ~Ends(text) /\ key \in Chars
    BY <1>5, EditedBy, Longer
  <1> QED
    BY <1>1, <1>2, <1>3, <1>4, <1>5 DEF Keys

----------------------------------------------------------------------------
(* The first state, and the steps of keys and of the timer. *)

LEMMA SizesKnown ==
    /\ Size \in Nat \ {0} /\ QueueSize \in Nat \ {0}
    /\ Width \in Nat \ {0} /\ Height \in Nat \ {0}
    /\ Size <= Width * Height /\ Width * Height \in Nat \ {0}
    /\ 0 \in Cells
  <1>1. /\ Size \in Nat \ {0} /\ QueueSize \in Nat \ {0}
        /\ Size <= Width * Height
    BY KeyboardAssumption
  <1>2. Width \in Nat \ {0} /\ Height \in Nat \ {0}
    BY ScreenAssumption
  <1>3. Width * Height \in Nat
    BY <1>2, ProductGrows
  <1>4. PICK n \in Nat : n = Width * Height
    BY <1>3
  <1>5. n > 0 /\ 0 \in 0 .. (n - 1)
    BY <1>1, <1>4
  <1> QED
    BY <1>1, <1>2, <1>4, <1>5 DEF Cells

LEMMA ClearedScreen == IsScreen(Cleared)
  <1>1. Cleared.cells = [i \in Cells |-> Nul] /\ Cleared.cursor = 0
    BY DEF Cleared
  <1>2. Cleared.cells = [i \in Cells |-> Cleared.cells[i]]
    BY <1>1
  <1>3. Cleared = [cursor |-> Cleared.cursor, cells |-> Cleared.cells]
    BY <1>1 DEF Cleared
  <1> QED
    BY <1>1, <1>2, <1>3, SizesKnown DEF IsScreen

LEMMA ZeroBufferType == ZeroBuffer \in [1 .. Size -> Keys \cup {Nul}]
  BY DEF ZeroBuffer

LEMMA InitHolds == Init => IInv
  <1> SUFFICES ASSUME Init PROVE IInv
    OBVIOUS
  <1>1. Typed
    <2>1. queue \in Seq(Keys) /\ Len(queue) <= QueueSize
      BY SizesKnown DEF Init
    <2>2. IsScreen(screen)
      BY ClearedScreen DEF Init
    <2>3. typed \in Lines
      BY NoText DEF Init
    <2>4. /\ keyboard_buffer \in [1 .. Size -> Keys \cup {Nul}]
          /\ line \in [1 .. Size -> Keys \cup {Nul}]
      BY ZeroBufferType DEF Init
    <2>5. buffer_index \in 0 .. (Size - 1) /\ longest \in 0 .. Size
          /\ start \in Cells
      BY SizesKnown DEF Init
    <2> QED
      BY <2>1, <2>2, <2>3, <2>4, <2>5 DEF Init, Typed
  <1>2. Places
    BY DEF Init, Places, Booting
  <1>3. Listens
    BY DEF Init, Listens
  <1>4. Ended /\ LineReturned
    BY DEF Init, Ended, LineReturned
  <1> QED
    BY <1>1, <1>2, <1>3, <1>4 DEF IInv

\* What the line, the buffer and the screen are to each other stays while
\* none of them changes.
LEMMA Untouched ==
    ASSUME UNCHANGED <<queue, driver, screen, history>>, Live
    PROVE  Live'
  BY DEF Live, Leads, Holds, Fits, Buffered, Echoed, driver, history

LEMMA TickHolds == IInv /\ Tick => IInv'
  <1> SUFFICES ASSUME IInv, Tick PROVE IInv'
    OBVIOUS
  <1> USE DEF Tick, kernel, driver, history
  <1>1. Typed'
    BY DEF IInv, Typed
  <1>2. Places' /\ Ended' /\ LineReturned'
    BY DEF IInv, Places, Booting, Ended, LineReturned
  <1>3. Listens'
    <2>1. Stuck => Stuck'
      BY DEF Stuck, TIMER, KEYBOARD
    <2> QED
      BY <2>1, Untouched DEF IInv, Listens
  <1> QED
    BY <1>1, <1>2, <1>3 DEF IInv

LEMMA TimerHolds == IInv /\ TimerInterrupt => IInv'
  <1> SUFFICES ASSUME IInv, TimerInterrupt PROVE IInv'
    OBVIOUS
  <1> USE DEF TimerInterrupt, kernel, driver, history
  <1>1. Typed'
    BY DEF IInv, Typed
  <1>2. Places' /\ Ended' /\ LineReturned'
    BY DEF IInv, Places, Booting, Ended, LineReturned
  <1>3. Listens'
    <2>1. Stuck => Stuck'
      BY DEF Stuck
    <2> QED
      BY <2>1, Untouched DEF IInv, Listens
  <1> QED
    BY <1>1, <1>2, <1>3 DEF IInv

LEMMA IgnoredHolds == IInv /\ KeyIgnored => IInv'
  <1> SUFFICES ASSUME IInv, KeyIgnored PROVE IInv'
    OBVIOUS
  <1> USE DEF KeyIgnored, kernel, history
  <1>1. Typed'
    <2>1. 0 \in 0 .. (Size - 1)
      BY SizesKnown
    <2> QED
      BY <2>1 DEF IInv, Typed
  <1>2. Places' /\ Ended' /\ LineReturned'
    BY DEF IInv, Places, Booting, Ended, LineReturned
  <1>3. Listens'
    BY DEF Listens
  <1> QED
    BY <1>1, <1>2, <1>3 DEF IInv

\* A run goes on with the scancode that joins the queue.
LEMMA PressRun ==
    ASSUME Typed, NEW key \in Keys, Press(key), keyboard_input_on,
           Len(queue) < QueueSize,
           NEW run \in [0 .. Len(queue) -> Lines], Leads(run), Holds(run)
    PROVE  Live'
  <1>0. PICK n \in Nat : n = Len(queue)
    BY DEF Typed
  <1>a. PICK grown : grown = [i \in 0 .. (n + 1) |->
                               IF i = n + 1 THEN Edited(typed, key) ELSE run[i]]
    OBVIOUS
  <1>1. /\ queue' = Append(queue, key)
        /\ typed' = Edited(typed, key)
        /\ longest' = IF key \notin Chars \/ Len(typed) < longest
                      THEN longest
                      ELSE IF longest < Size THEN longest + 1 ELSE longest
        /\ UNCHANGED <<driver, screen, start>>
    BY DEF Press
  <1>2. /\ n \in Nat /\ Len(queue') = n + 1
        /\ queue'[n + 1] = key
        /\ \A i \in 1 .. n : queue'[i] = queue[i]
    BY <1>0, <1>1, OneMore DEF Typed
  <1>3. typed \in Lines /\ typed' \in Lines
    BY <1>1, EditedLine DEF Typed
  <1>4. grown \in [0 .. Len(queue') -> Lines]
    BY <1>0, <1>1, <1>2, <1>3, <1>a
  <1>5. /\ grown[n + 1] = typed'
        /\ \A i \in 0 .. n : grown[i] = run[i]
        /\ 0 \in 0 .. n /\ grown[0] = run[0]
        /\ run[n] = typed /\ grown[n] = typed
    <2>1. /\ n + 1 \in 0 .. (n + 1) /\ \A i \in 0 .. n : i # n + 1
          /\ \A i \in 0 .. n : i \in 0 .. (n + 1)
          /\ 0 \in 0 .. n /\ n \in 0 .. n
      BY <1>2
    <2>2. grown[n + 1] = Edited(typed, key)
      BY <1>a, <2>1
    <2>3. \A i \in 0 .. n : grown[i] = run[i]
      BY <1>a, <2>1
    <2>4. run[n] = typed
      BY <1>0 DEF Leads
    <2> QED
      BY <1>1, <2>1, <2>2, <2>3, <2>4
  <1>6. Edited(grown[n], queue'[n + 1]) = grown[n + 1]
    BY <1>1, <1>2, <1>5
  <1>7. \A i \in 1 .. (n + 1) : grown[i] = Edited(grown[i - 1], queue'[i])
    <2>1. SUFFICES ASSUME NEW i \in 1 .. (n + 1)
                   PROVE  grown[i] = Edited(grown[i - 1], queue'[i])
      OBVIOUS
    <2>2. CASE i = n + 1
      <3>1. i - 1 = n
        BY <1>2, <2>2
      <3> QED
        BY <1>6, <2>2, <3>1
    <2>3. CASE i # n + 1
      <3>1. i \in 1 .. n /\ i \in 0 .. n /\ i - 1 \in 0 .. n
        BY <1>2, <2>3
      <3>2. run[i] = Edited(run[i - 1], queue[i])
        BY <1>0, <3>1 DEF Leads
      <3> QED
        BY <1>2, <1>5, <3>1, <3>2
    <2> QED
      BY <2>2, <2>3
  <1>8. \A i, j \in 0 .. (n + 1) : Ends(grown[i]) /\ i <= j => grown[j] = grown[i]
    <2>1. SUFFICES ASSUME NEW i \in 0 .. (n + 1), NEW j \in 0 .. (n + 1),
                          Ends(grown[i]), i <= j
                   PROVE  grown[j] = grown[i]
      OBVIOUS
    <2>2. CASE j \in 0 .. n
      <3>1. i \in 0 .. n
        BY <1>2, <2>1, <2>2
      <3> QED
        BY <1>0, <1>5, <2>1, <2>2, <3>1 DEF Leads
    <2>3. CASE j = n + 1 /\ i = n + 1
      BY <2>3
    <2>4. CASE j = n + 1 /\ i \in 0 .. n
      <3>1. n \in 0 .. n /\ i <= n
        BY <1>2, <2>4
      <3>2. run[n] = run[i]
        BY <1>0, <1>5, <2>1, <2>4, <3>1 DEF Leads
      <3>3. Ends(grown[n]) /\ grown[n] = grown[i]
        BY <1>5, <2>1, <2>4, <3>2
      <3> QED
        BY <1>6, <2>4, <3>3, EditedEnded
    <2> QED
      BY <1>2, <2>2, <2>3, <2>4
  <1>9. Leads(grown)'
    <2>1. ~Ends(grown[0])
      BY <1>5 DEF Leads
    <2>2. grown[Len(queue')] = typed'
      BY <1>2, <1>5
    <2>3. \A i \in 1 .. Len(queue') : grown[i] = Edited(grown[i - 1], queue'[i])
      BY <1>2, <1>7
    <2>4. \A i, j \in 0 .. Len(queue') :
              Ends(grown[i]) /\ i <= j => grown[j] = grown[i]
      BY <1>2, <1>8
    <2> QED
      BY <2>1, <2>2, <2>3, <2>4 DEF Leads
  <1>10. ASSUME longest' < Size PROVE Fits(grown)'
    <2>0. /\ longest \in Nat /\ Size \in Nat /\ Len(typed) \in Nat
          /\ longest' \in Nat
      BY <1>1, <1>3, LineType, SizesKnown DEF Typed
    <2>1. longest < Size /\ longest <= longest'
          /\ (key \in Chars => Len(typed) < longest' \/ Len(typed) > longest)
      BY <1>1, <1>10, <2>0
    <2>2. Fits(run)
      BY <2>1 DEF Holds
    <2>3. ~Ends(typed) => Len(typed) <= longest
      BY <2>2 DEF Fits
    <2>4. ASSUME NEW i \in 1 .. (n + 1), queue'[i] \in Chars,
                 ~Ends(grown[i - 1])
          PROVE  Len(grown[i - 1]) < longest'
      <3>1. CASE i = n + 1
        <4>1. i - 1 = n
          BY <1>2, <3>1
        <4>2. key \in Chars /\ ~Ends(typed)
          BY <1>2, <1>5, <2>4, <3>1, <4>1
        <4> QED
          BY <1>5, <2>0, <2>1, <2>3, <4>1, <4>2
      <3>2. CASE i # n + 1
        <4>1. i \in 1 .. n /\ i - 1 \in 0 .. n
          BY <1>2, <3>2
        <4>2. queue[i] \in Chars /\ ~Ends(run[i - 1])
          BY <1>2, <1>5, <2>4, <4>1
        <4>3. Len(run[i - 1]) < longest /\ run[i - 1] \in Lines
          BY <1>0, <2>2, <4>1, <4>2 DEF Fits
        <4>4. Len(run[i - 1]) \in Nat /\ longest' \in Nat
          BY <1>1, <2>0, <4>3, LineType
        <4> QED
          BY <1>5, <2>0, <2>1, <4>1, <4>3, <4>4
      <3> QED
        BY <3>1, <3>2
    <2>5. ASSUME ~Ends(typed') PROVE Len(typed') <= longest'
      <3>1. ~Ends(typed)
        BY <1>1, <2>5, EditedEnded
      <3>2. CASE key = Backspace
        <4>1. Len(typed') <= Len(typed) /\ Len(typed') \in Nat
          BY <1>1, <1>3, <2>0, <3>1, <3>2, EditedBy, Shorter, LineType
        <4> QED
          BY <2>0, <2>1, <2>3, <3>1, <4>1
      <3>3. CASE key = NoChar
        <4>1. typed' = typed
          BY <1>1, <1>3, <3>1, <3>3, EditedBy
        <4>2. Len(typed) <= longest'
          BY <2>0, <2>1, <2>3, <3>1
        <4> QED
          BY <4>1, <4>2, Zenon
      <3>4. CASE key = Newline
        <4>1. Edited(typed, Newline) = Append(typed, Newline)
          BY <1>3, <3>1, EditedBy
        <4>2. Newline \in Chars \cup {Newline}
          OBVIOUS
        <4>3. Ends(Append(typed, Newline))
          BY <1>3, <3>1, <4>2, Longer
        <4> QED
          BY <1>1, <2>5, <3>4, <4>1, <4>3, Zenon
      <3>5. CASE key \in Chars
        <4>1. typed' = typed \/ Len(typed') = Len(typed) + 1
          BY <1>1, <1>3, <3>1, <3>5, EditedBy, Longer
        <4>2. Len(typed) < longest'
          BY <2>0, <2>1, <2>3, <3>1, <3>5
        <4> QED
          BY <1>1, <2>0, <4>1, <4>2
      <3> QED
        BY <3>2, <3>3, <3>4, <3>5 DEF Keys
    <2> QED
      BY <1>2, <2>4, <2>5 DEF Fits
  <1>11. Holds(grown)'
    <2>1. SUFFICES ASSUME longest' < Size
                   PROVE  /\ Fits(grown)' /\ Buffered(grown[0])'
                          /\ screen'.cursor >= Len(grown[0])
                          /\ start' + longest' < Width * Height
                                 => Echoed(grown[0])'
      BY DEF Holds
    <2>2. longest < Size /\ longest <= longest'
      BY <1>1, <2>1, SizesKnown DEF Typed
    <2>3. /\ Buffered(run[0]) /\ screen.cursor >= Len(run[0])
          /\ start + longest < Width * Height => Echoed(run[0])
      BY <2>2 DEF Holds
    <2>4. Buffered(grown[0])' /\ screen'.cursor >= Len(grown[0])
      BY <1>1, <1>5, <2>3 DEF Buffered, driver
    <2>5. start' + longest' < Width * Height => start + longest < Width * Height
      <3>1. start \in Nat /\ longest \in Nat /\ longest' \in Nat
            /\ Width * Height \in Nat
        BY <1>1, SizesKnown DEF Typed, Cells
      <3> QED
        BY <1>1, <2>2, <3>1
    <2>6. Echoed(run[0]) => Echoed(grown[0])'
      BY <1>1, <1>5 DEF Echoed
    <2> QED
      BY <1>10, <2>1, <2>3, <2>4, <2>5, <2>6
  <1> QED
    BY <1>4, <1>9, <1>11 DEF Live

LEMMA PressHolds ==
    ASSUME IInv, NEW key \in Keys, Press(key)
    PROVE  IInv'
  <1> USE DEF kernel, driver
  <1>1. Typed'
    <2>1. queue' \in Seq(Keys) /\ Len(queue') <= QueueSize
      <3>1. queue \in Seq(Keys) /\ Len(queue) <= QueueSize /\ Len(queue) \in Nat
        BY DEF IInv, Typed
      <3>2. CASE Len(queue) < QueueSize
        <4>1. queue' = Append(queue, key)
          BY <3>2 DEF Press
        <4>2. queue' \in Seq(Keys) /\ Len(queue') = Len(queue) + 1
          BY <3>1, <4>1, OneMore
        <4> QED
          BY <3>1, <3>2, <4>2, SizesKnown
      <3>3. CASE ~(Len(queue) < QueueSize)
        BY <3>1, <3>3 DEF Press
      <3> QED
        BY <3>2, <3>3
    <2>2. typed' \in Lines
      BY EditedLine DEF IInv, Typed, Press
    <2>3. longest' \in 0 .. Size
      BY SizesKnown DEF IInv, Typed, Press
    <2>4. irr' \subseteq {TIMER, KEYBOARD}
      BY DEF IInv, Typed, Press
    <2> QED
      BY <2>1, <2>2, <2>3, <2>4 DEF IInv, Typed, Press
  <1>2. keyboard_input_on => at = "waiting"
    BY DEF IInv, Places
  <1>3. ~keyboard_input_on => UNCHANGED <<typed, longest>>
    BY DEF Press
  <1>4. Places' /\ Ended' /\ LineReturned'
    BY <1>2, <1>3 DEF IInv, Places, Booting, Ended, LineReturned, Press
  <1>5. ASSUME keyboard_input_on PROVE (Live \/ Stuck)'
    <2>1. Live \/ Stuck
      BY <1>5 DEF IInv, Listens
    <2>2. CASE Stuck
      <3>1. queue # <<>> /\ irr' = irr /\ isr' = isr
        BY <2>2 DEF Stuck, Press
      <3>2. queue' # <<>>
        BY <3>1, OneMore DEF Press, IInv, Typed
      <3> QED
        BY <2>2, <3>1, <3>2 DEF Stuck
    <2>3. CASE Live /\ Len(queue) < QueueSize
      <3>1. PICK run \in [0 .. Len(queue) -> Lines] : Leads(run) /\ Holds(run)
        BY <2>3 DEF Live
      <3> QED
        BY <1>5, <2>3, <3>1, PressRun DEF IInv
    <2>4. CASE Live /\ ~(Len(queue) < QueueSize)
      <3>1. UNCHANGED <<queue, driver, screen, history>>
        BY <2>4 DEF Press, history
      <3> QED
        BY <2>4, <3>1, Untouched
    <2> QED
      BY <2>1, <2>2, <2>3, <2>4
  <1>6. Listens'
    BY <1>5 DEF Listens, Press
  <1> QED
    BY <1>1, <1>4, <1>6 DEF IInv

----------------------------------------------------------------------------
(* The scancode that the driver takes. *)

\* A driver that is served is one that listens.
LEMMA Served ==
    ASSUME IInv, KEYBOARD \in Deliverable, keyboard_input_on, queue # <<>>
    PROVE  Live /\ at = "waiting"
  <1>1. KEYBOARD \in irr /\ \A m \in isr : KEYBOARD < m
    BY DEF Deliverable
  <1>2. isr = {}
    BY <1>1 DEF IInv, Typed, TIMER, KEYBOARD
  <1> QED
    BY <1>1, <1>2 DEF IInv, Listens, Stuck, Places

\* The run without its first text.
LEMMA TakenRun ==
    ASSUME Typed, queue # <<>>, queue' = Tail(queue),
           UNCHANGED <<typed, longest>>,
           NEW run \in [0 .. Len(queue) -> Lines], Leads(run)
    PROVE  /\ Head(queue) \in Keys
           /\ run[0] \in Lines /\ run[1] \in Lines
           /\ run[1] = Edited(run[0], Head(queue))
           /\ Ends(run[1]) => typed = run[1]
           /\ longest < Size /\ Fits(run) /\ Head(queue) \in Chars
                => Len(run[0]) < longest
           /\ \E later \in [0 .. Len(queue') -> Lines] :
                /\ later[0] = run[1]
                /\ ~Ends(run[1]) => Leads(later)'
                /\ Fits(run) => Fits(later)'
  <1>1. PICK n \in Nat : Len(queue) = n + 1
    <2>1. Tail(queue) \in Seq(Keys) /\ Len(Tail(queue)) = Len(queue) - 1
      BY HeadTailProperties DEF Typed
    <2>2. Len(Tail(queue)) \in Nat /\ Len(queue) \in Nat
      BY <2>1 DEF Typed
    <2>3. Len(queue) = Len(Tail(queue)) + 1
      BY <2>1, <2>2
    <2> QED
      BY <2>2, <2>3
  <1>2. /\ queue' \in Seq(Keys) /\ Len(queue') = n
        /\ Head(queue) = queue[1] /\ Head(queue) \in Keys
        /\ \A i \in 1 .. n : queue'[i] = queue[i + 1]
    <2>1. /\ Head(queue) \in Keys /\ Tail(queue) \in Seq(Keys)
          /\ Len(Tail(queue)) = Len(queue) - 1
          /\ \A i \in 1 .. Len(Tail(queue)) : Tail(queue)[i] = queue[i + 1]
      BY HeadTailProperties DEF Typed
    <2>2. Head(queue) = queue[1]
      BY DEF Typed
    <2>3. Len(Tail(queue)) = n
      BY <1>1, <2>1
    <2> QED
      BY <2>1, <2>2, <2>3
  <1>3. PICK later : later = [i \in 0 .. n |-> run[i + 1]]
    OBVIOUS
  <1>4. \A i \in 0 .. n : i + 1 \in 0 .. (n + 1) /\ later[i] = run[i + 1]
    BY <1>3
  <1>5. later \in [0 .. Len(queue') -> Lines]
    BY <1>1, <1>2, <1>3, <1>4
  <1>6. /\ 0 \in 0 .. (n + 1) /\ 1 \in 0 .. (n + 1) /\ 1 \in 1 .. (n + 1)
        /\ n + 1 \in 0 .. (n + 1) /\ 1 - 1 = 0 /\ 0 + 1 = 1 /\ 0 \in 0 .. n
        /\ 1 <= n + 1 /\ n \in 0 .. n
    OBVIOUS
  <1>7. /\ run[0] \in Lines /\ run[1] \in Lines
        /\ run[1] = Edited(run[0], Head(queue))
        /\ later[0] = run[1]
        /\ ~Ends(run[0])
    BY <1>1, <1>2, <1>4, <1>6 DEF Leads
  <1>8. Ends(run[1]) => typed = run[1]
    BY <1>1, <1>6 DEF Leads
  <1>9. Fits(run) /\ Head(queue) \in Chars => Len(run[0]) < longest
    BY <1>1, <1>2, <1>6, <1>7 DEF Fits
  <1>10. ASSUME ~Ends(run[1]) PROVE Leads(later)'
    <2>1. later[n] = typed'
      BY <1>1, <1>4, <1>6 DEF Leads
    <2>2. ASSUME NEW i \in 1 .. n
          PROVE  later[i] = Edited(later[i - 1], queue'[i])
      <3>1. /\ i \in 0 .. n /\ i - 1 \in 0 .. n /\ (i - 1) + 1 = i
            /\ i + 1 \in 1 .. (n + 1) /\ (i + 1) - 1 = i
        OBVIOUS
      <3>2. run[i + 1] = Edited(run[i], queue[i + 1])
        BY <1>1, <3>1 DEF Leads
      <3> QED
        BY <1>2, <1>4, <3>1, <3>2
    <2>3. ASSUME NEW i \in 0 .. n, NEW j \in 0 .. n, Ends(later[i]), i <= j
          PROVE  later[j] = later[i]
      <3>1. i + 1 \in 0 .. (n + 1) /\ j + 1 \in 0 .. (n + 1) /\ i + 1 <= j + 1
        BY <2>3
      <3> QED
        BY <1>1, <1>4, <2>3, <3>1 DEF Leads
    <2> QED
      BY <1>2, <1>7, <1>10, <2>1, <2>2, <2>3 DEF Leads
  <1>11. ASSUME Fits(run) PROVE Fits(later)'
    <2>1. ASSUME NEW i \in 1 .. n, queue'[i] \in Chars, ~Ends(later[i - 1])
          PROVE  Len(later[i - 1]) < longest
      <3>1. /\ i - 1 \in 0 .. n /\ (i - 1) + 1 = i
            /\ i + 1 \in 1 .. (n + 1) /\ (i + 1) - 1 = i
        OBVIOUS
      <3>2. queue[i + 1] \in Chars /\ ~Ends(run[i])
        BY <1>2, <1>4, <2>1, <3>1
      <3> QED
        BY <1>1, <1>4, <1>11, <3>1, <3>2 DEF Fits
    <2>2. ~Ends(typed') => Len(typed') <= longest'
      BY <1>11 DEF Fits
    <2> QED
      BY <1>2, <2>1, <2>2 DEF Fits
  <1> QED
    BY <1>2, <1>5, <1>7, <1>8, <1>9, <1>10, <1>11

\* The number of characters in the buffer is one of its places.
LEMMA IndexPlace ==
    ASSUME Typed
    PROVE  /\ buffer_index \in Nat /\ buffer_index + 1 \in 1 .. Size
           /\ \A x \in Keys \cup {Nul} :
                /\ Stored(x) \in [1 .. Size -> Keys \cup {Nul}]
                /\ Stored(x)[buffer_index + 1] = x
                /\ \A i \in 1 .. Size : i # buffer_index + 1
                       => Stored(x)[i] = keyboard_buffer[i]
  <1>1. buffer_index \in Nat /\ buffer_index + 1 \in 1 .. Size
    BY SizesKnown DEF Typed
  <1>2. keyboard_buffer \in [1 .. Size -> Keys \cup {Nul}]
    BY DEF Typed
  <1>3. PICK k \in 1 .. Size : k = buffer_index + 1
    BY <1>1
  <1>4. ASSUME NEW x \in Keys \cup {Nul}
        PROVE  /\ Stored(x) \in [1 .. Size -> Keys \cup {Nul}]
               /\ Stored(x)[k] = x
               /\ \A i \in 1 .. Size : i # k => Stored(x)[i] = keyboard_buffer[i]
    BY <1>2, <1>3 DEF Stored
  <1> QED
    BY <1>1, <1>3, <1>4

\* What the four kinds of scancode have in common.
LEMMA TakenType ==
    ASSUME IInv, KeyTaken,
           buffer_index' \in 0 .. (Size - 1),
           keyboard_buffer' \in [1 .. Size -> Keys \cup {Nul}],
           keyboard_input_on' \in BOOLEAN,
           IsScreen(screen'),
           keyboard_input_on' => Live',
           ~keyboard_input_on' /\ longest < Size
             => keyboard_buffer' = Padded(typed)
    PROVE  IInv'
  <1> USE DEF KeyTaken, kernel, history
  <1>1. at = "waiting"
    BY Served DEF IInv
  <1>2. Typed'
    <2>1. queue' \in Seq(Keys) /\ Len(queue') <= QueueSize
      <3>1. Tail(queue) \in Seq(Keys) /\ Len(Tail(queue)) = Len(queue) - 1
        BY HeadTailProperties DEF IInv, Typed
      <3>2. Len(queue) \in Nat /\ Len(queue) <= QueueSize
        BY DEF IInv, Typed
      <3> QED
        BY <3>1, <3>2, SizesKnown
    <2>2. irr' \subseteq {TIMER, KEYBOARD}
      BY DEF IInv, Typed
    <2> QED
      BY <2>1, <2>2 DEF IInv, Typed
  <1>3. Places'
    BY <1>1 DEF IInv, Places, Booting
  <1>4. Listens'
    BY DEF Listens
  <1>5. Ended'
    BY <1>1 DEF Ended, Padded
  <1>6. LineReturned'
    BY <1>1 DEF LineReturned
  <1> QED
    BY <1>2, <1>3, <1>4, <1>5, <1>6 DEF IInv

\* A key that means nothing.
LEMMA NothingTaken ==
    ASSUME IInv, KeyTaken, Head(queue) = NoChar
    PROVE  IInv'
  <1>1. /\ queue # <<>> /\ queue' = Tail(queue)
        /\ UNCHANGED <<typed, longest, start, driver, screen>>
        /\ keyboard_input_on
    BY FewKeys DEF KeyTaken, history
  <1>2. PICK run \in [0 .. Len(queue) -> Lines] : Leads(run) /\ Holds(run)
    BY Served DEF KeyTaken, Live
  <1>3. /\ run[0] \in Lines /\ ~Ends(run[0]) /\ run[1] = run[0]
        /\ \E later \in [0 .. Len(queue') -> Lines] :
             /\ later[0] = run[1]
             /\ ~Ends(run[1]) => Leads(later)'
             /\ Fits(run) => Fits(later)'
    <2>1. ~Ends(run[0])
      BY <1>2 DEF Leads
    <2>2. run[0] \in Lines /\ run[1] = Edited(run[0], NoChar)
      BY <1>1, <1>2, TakenRun DEF IInv
    <2>3. run[1] = run[0]
      BY <2>1, <2>2, EditedBy
    <2> QED
      BY <1>1, <1>2, <2>1, <2>2, <2>3, TakenRun DEF IInv
  <1>4. PICK later \in [0 .. Len(queue') -> Lines] :
          later[0] = run[0] /\ Leads(later)' /\ (Fits(run) => Fits(later)')
    BY <1>3
  <1>5. Holds(later)'
    BY <1>1, <1>2, <1>4 DEF Holds, Buffered, Echoed, driver
  <1>6. Live'
    BY <1>4, <1>5 DEF Live
  <1> QED
    BY <1>1, <1>6, TakenType DEF IInv, Typed, driver

\* The end of the line: the buffer is the line, its end, and zeros.
LEMMA EndTaken ==
    ASSUME IInv, KeyTaken, Head(queue) = Newline
    PROVE  IInv'
  <1>1. /\ queue # <<>> /\ queue' = Tail(queue)
        /\ UNCHANGED <<typed, longest, start>>
        /\ keyboard_input_on /\ KeyNewline
    BY FewKeys DEF KeyTaken, history
  <1>2. PICK run \in [0 .. Len(queue) -> Lines] : Leads(run) /\ Holds(run)
    BY Served DEF KeyTaken, Live
  <1>3. PICK text \in Lines : text = run[0] /\ ~Ends(text)
    BY <1>2, TakenRun, <1>1 DEF IInv, Leads
  <1>4. typed = Append(text, Newline)
    <2>1. run[1] = Edited(text, Newline) /\ (Ends(run[1]) => typed = run[1])
      BY <1>1, <1>2, <1>3, TakenRun DEF IInv
    <2>2. Edited(text, Newline) = Append(text, Newline)
      BY <1>3, EditedBy
    <2>3. Ends(Append(text, Newline))
      BY <1>3, Longer
    <2> QED
      BY <2>1, <2>2, <2>3
  <1>5. Newline \in Keys \cup {Nul}
    BY DEF Keys
  <1>6. keyboard_buffer' = Stored(Newline)
    BY <1>1 DEF KeyNewline
  <1>7. ASSUME longest < Size PROVE keyboard_buffer' = Padded(typed)
    <2>1. Buffered(text)
      BY <1>2, <1>3, <1>7 DEF Holds
    <2>2. PICK k \in Nat : k = Len(text)
      BY <1>3, LineType
    <2>3. /\ Len(typed) = k + 1 /\ typed[k + 1] = Newline
          /\ \A i \in 1 .. k : typed[i] = text[i]
      BY <1>3, <1>4, <2>2, Longer
    <2>4. /\ buffer_index = k
          /\ \A i \in 1 .. k : keyboard_buffer[i] = text[i]
          /\ \A i \in (k + 2) .. Size : keyboard_buffer[i] = Nul
      BY <2>1, <2>2 DEF Buffered
    <2>5. /\ Stored(Newline) \in [1 .. Size -> Keys \cup {Nul}]
          /\ Stored(Newline)[k + 1] = Newline
          /\ \A i \in 1 .. Size : i # k + 1
                 => Stored(Newline)[i] = keyboard_buffer[i]
          /\ k + 1 \in 1 .. Size
      BY <1>5, <2>4, IndexPlace DEF IInv
    <2>6. ASSUME NEW i \in 1 .. Size
          PROVE  Stored(Newline)[i] = IF i <= Len(typed) THEN typed[i] ELSE Nul
      <3>1. CASE i <= k
        BY <2>2, <2>3, <2>4, <2>5, <3>1
      <3>2. CASE i = k + 1
        BY <2>3, <2>5, <3>2
      <3>3. CASE i > k + 1
        <4>1. i \in (k + 2) .. Size /\ i # k + 1 /\ ~(i <= k + 1)
          BY <2>2, <3>3, SizesKnown
        <4> QED
          BY <2>3, <2>4, <2>5, <4>1
      <3> QED
        BY <2>2, <3>1, <3>2, <3>3
    <2> QED
      BY <1>6, <2>5, <2>6 DEF Padded
  <1>8. IsScreen(screen')
    <2>1. IsScreen(screen)
      BY DEF IInv, Typed
    <2>2. IsScreen(WriteHere(MostLeft(Down(screen)), Space))
      BY <2>1, DownMoves, Written
    <2> QED
      BY <1>1, <2>1, <2>2 DEF KeyNewline
  <1>9. keyboard_buffer' \in [1 .. Size -> Keys \cup {Nul}]
    BY <1>5, <1>6, IndexPlace DEF IInv
  <1>10. buffer_index' \in 0 .. (Size - 1) /\ keyboard_input_on' = FALSE
    BY <1>1 DEF KeyNewline, IInv, Typed
  <1> QED
    BY <1>7, <1>8, <1>9, <1>10, TakenType

\* What erasing does to the screen.
LEMMA ErasedScreen ==
    ASSUME NEW fb, IsScreen(fb)
    PROVE  LET to == WriteHere(Left(WriteHere(fb, Nul)), Space)
           IN  /\ IsScreen(to)
               /\ fb.cursor > 0 => to.cursor = fb.cursor - 1
               /\ fb.cursor > 0 =>
                    \A i \in Cells : i < fb.cursor - 1 => to.cells[i] = fb.cells[i]
  <1>1. PICK a : a = WriteHere(fb, Nul)
    OBVIOUS
  <1>2. /\ IsScreen(a) /\ a.cursor = fb.cursor
        /\ \A i \in Cells \ {fb.cursor} : a.cells[i] = fb.cells[i]
    BY <1>1, Written
  <1>3. PICK b : b = Left(a)
    OBVIOUS
  <1>4. /\ IsScreen(b) /\ b.cells = a.cells
        /\ fb.cursor > 0 => b.cursor = fb.cursor - 1
    BY <1>2, <1>3, LeftMoves
  <1>5. PICK c : c = WriteHere(b, Space)
    OBVIOUS
  <1>6. /\ IsScreen(c) /\ c.cursor = b.cursor
        /\ \A i \in Cells \ {b.cursor} : c.cells[i] = b.cells[i]
    BY <1>4, <1>5, Written
  <1>7. PICK x \in Nat : x = fb.cursor
    BY SizesKnown DEF IsScreen, Cells
  <1>8. ASSUME x > 0, NEW i \in Cells, i < x - 1
        PROVE  c.cells[i] = fb.cells[i]
    <2>1. i # x /\ i # x - 1
      BY <1>8, SizesKnown DEF Cells
    <2> QED
      BY <1>2, <1>4, <1>6, <1>7, <1>8, <2>1
  <1>9. c = WriteHere(Left(WriteHere(fb, Nul)), Space)
    BY <1>1, <1>3, <1>5
  <1> QED
    BY <1>4, <1>6, <1>7, <1>8, <1>9

\* What a character does to the screen.
LEMMA TypedScreen ==
    ASSUME NEW fb, IsScreen(fb), NEW ch
    PROVE  LET to == WriteHere(Right(WriteHere(fb, ch)), Space)
           IN  /\ IsScreen(to)
               /\ to.cursor = IF fb.cursor < Width * Height - 1
                              THEN fb.cursor + 1 ELSE fb.cursor
               /\ fb.cursor < Width * Height - 1 =>
                    /\ to.cells[fb.cursor] = ch
                    /\ \A i \in Cells : i < fb.cursor => to.cells[i] = fb.cells[i]
  <1>1. PICK a : a = WriteHere(fb, ch)
    OBVIOUS
  <1>2. /\ IsScreen(a) /\ a.cursor = fb.cursor /\ a.cells[fb.cursor] = ch
        /\ \A i \in Cells \ {fb.cursor} : a.cells[i] = fb.cells[i]
    BY <1>1, Written
  <1>3. PICK b : b = Right(a)
    OBVIOUS
  <1>4. /\ IsScreen(b) /\ b.cells = a.cells
        /\ b.cursor = IF fb.cursor < Width * Height - 1
                      THEN fb.cursor + 1 ELSE fb.cursor
    BY <1>2, <1>3, RightMoves
  <1>5. PICK c : c = WriteHere(b, Space)
    OBVIOUS
  <1>6. /\ IsScreen(c) /\ c.cursor = b.cursor
        /\ \A i \in Cells \ {b.cursor} : c.cells[i] = b.cells[i]
    BY <1>4, <1>5, Written
  <1>7. PICK x \in Cells : x = fb.cursor
    BY DEF IsScreen
  <1>8. \A i \in Cells : i \in Int
    BY SizesKnown DEF Cells
  <1>9. ASSUME b.cursor = x + 1
        PROVE  /\ c.cells[x] = ch
               /\ \A i \in Cells : i < x => c.cells[i] = fb.cells[i]
    <2>1. x # x + 1 /\ \A i \in Cells : i < x => i # x /\ i # x + 1
      BY <1>8
    <2> QED
      BY <1>2, <1>4, <1>6, <1>7, <1>9, <2>1
  <1>10. c = WriteHere(Right(WriteHere(fb, ch)), Space)
    BY <1>1, <1>3, <1>5
  <1> QED
    BY <1>4, <1>6, <1>7, <1>9, <1>10

\* Backspace.
LEMMA BackspaceTaken ==
    ASSUME IInv, KeyTaken, Head(queue) = Backspace
    PROVE  IInv'
  <1>1. /\ queue # <<>> /\ queue' = Tail(queue)
        /\ UNCHANGED <<typed, longest, start, keyboard_input_on>>
        /\ keyboard_input_on /\ KeyBackspace
    BY FewKeys DEF KeyTaken, history, KeyBackspace
  <1>2. PICK run \in [0 .. Len(queue) -> Lines] : Leads(run) /\ Holds(run)
    BY Served DEF KeyTaken, Live
  <1>3. PICK text \in Lines : text = run[0] /\ ~Ends(text)
    BY <1>1, <1>2, TakenRun DEF IInv, Leads
  <1>4. PICK less \in Lines : /\ less = run[1] /\ ~Ends(less)
                              /\ less = IF text = <<>> THEN text ELSE Front(text)
    <2>1. run[1] = Edited(text, Backspace)
      BY <1>1, <1>2, <1>3, TakenRun DEF IInv
    <2>2. Edited(text, Backspace) = IF text = <<>> THEN text ELSE Front(text)
      BY <1>3, EditedBy
    <2>3. text # <<>> => Front(text) \in Lines /\ ~Ends(Front(text))
      BY Shorter
    <2> QED
      BY <1>3, <2>1, <2>2, <2>3
  <1>5. PICK later \in [0 .. Len(queue') -> Lines] :
          later[0] = less /\ Leads(later)' /\ (Fits(run) => Fits(later)')
    BY <1>1, <1>2, <1>4, TakenRun DEF IInv
  <1>6. /\ IsScreen(screen) /\ IsScreen(WriteHere(screen, Space))
        /\ IsScreen(WriteHere(Left(WriteHere(screen, Nul)), Space))
    <2>1. IsScreen(screen)
      BY DEF IInv, Typed
    <2> QED
      BY <2>1, Written, ErasedScreen
  <1>7. PICK k \in Nat : k = buffer_index /\ k \in 0 .. (Size - 1)
    BY IndexPlace DEF IInv, Typed
  <1>8. IsScreen(screen')
    BY <1>1, <1>6 DEF KeyBackspace
  <1>9. buffer_index' \in 0 .. (Size - 1)
    <2>1. buffer_index' = k \/ (k > 0 /\ buffer_index' = k - 1)
      BY <1>1, <1>7 DEF KeyBackspace
    <2> QED
      BY <1>7, <2>1, SizesKnown
  <1>10. keyboard_buffer' \in [1 .. Size -> Keys \cup {Nul}]
    <2>1. keyboard_buffer' = keyboard_buffer \/ keyboard_buffer' = Stored(Nul)
      BY <1>1 DEF KeyBackspace
    <2> QED
      BY <2>1, IndexPlace DEF IInv, Typed
  <1>11. ASSUME longest < Size
         PROVE  /\ Buffered(less)'
                /\ screen'.cursor >= Len(less)
                /\ start + longest < Width * Height => Echoed(less)'
    <2>1. /\ Buffered(text) /\ screen.cursor >= Len(text)
          /\ start + longest < Width * Height => Echoed(text)
      BY <1>2, <1>3, <1>11 DEF Holds
    <2>2. /\ k = Len(text)
          /\ \A i \in 1 .. k : keyboard_buffer[i] = text[i]
          /\ \A i \in (k + 2) .. Size : keyboard_buffer[i] = Nul
      BY <1>7, <2>1 DEF Buffered
    <2>3. PICK c \in Cells : c = screen.cursor /\ c \in Nat /\ c >= k
      BY <1>6, <2>1, <2>2, SizesKnown DEF IsScreen, Cells
    <2>4. /\ Stored(Nul)[k + 1] = Nul
          /\ \A i \in 1 .. Size : i # k + 1 => Stored(Nul)[i] = keyboard_buffer[i]
      BY <1>7, IndexPlace DEF IInv
    <2>5. CASE text = <<>>
      <3>1. k = 0 /\ less = <<>> /\ Len(less) = 0
        BY <1>4, <2>2, <2>5
      <3>2. /\ keyboard_buffer' = Stored(Nul) /\ buffer_index' = 0
            /\ screen' = WriteHere(screen, Space)
        BY <1>1, <1>7, <3>1 DEF KeyBackspace
      <3>3. screen'.cursor = screen.cursor
        BY <1>6, <3>2, Written
      <3>4. Buffered(less)'
        <4>1. \A i \in 2 .. Size : i \in 1 .. Size /\ i # 1 /\ i \in (0 + 2) .. Size
          BY SizesKnown
        <4>2. \A i \in 2 .. Size : keyboard_buffer'[i] = Nul
          BY <2>2, <2>4, <3>1, <3>2, <4>1
        <4>3. \A i \in 1 .. 0 : keyboard_buffer'[i] = less[i]
          OBVIOUS
        <4>4. 0 + 2 = 2
          OBVIOUS
        <4> QED
          BY <3>1, <3>2, <4>2, <4>3, <4>4, Zenon DEF Buffered
      <3>5. Echoed(text) => Echoed(less)'
        <4>1. \A i \in 1 .. 0 : screen'.cells[start' + i - 1] = less[i]
          OBVIOUS
        <4>2. ASSUME screen.cursor = start + Len(text)
              PROVE  screen'.cursor = start' + Len(less)
          BY <1>1, <2>2, <3>1, <3>3, <4>2, Zenon
        <4> QED
          BY <3>1, <4>1, <4>2, Zenon DEF Echoed
      <3> QED
        BY <2>1, <2>3, <3>1, <3>3, <3>4, <3>5
    <2>6. CASE text # <<>>
      <3>1. /\ k > 0 /\ Len(less) = k - 1 /\ less = Front(text)
            /\ \A i \in 1 .. (k - 1) : less[i] = text[i]
        BY <1>3, <1>4, <2>2, <2>6, LineType, Shorter
      <3>2. Row(screen) > 0 \/ Col(screen) > 0
        <4>1. PICK r \in Nat, o \in Nat : r = Row(screen) /\ o = Col(screen)
                                          /\ c = r * Width + o
          BY <1>6, <2>3, Place, SizesKnown
        <4>2. r = 0 => r * Width = 0
          BY SizesKnown
        <4> QED
          BY <2>3, <3>1, <4>1, <4>2
      <3>3. /\ keyboard_buffer' = Stored(Nul) /\ buffer_index' = k - 1
            /\ screen' = WriteHere(Left(WriteHere(screen, Nul)), Space)
        BY <1>1, <1>7, <3>1, <3>2 DEF KeyBackspace
      <3>4. /\ screen'.cursor = c - 1
            /\ \A i \in Cells : i < c - 1 => screen'.cells[i] = screen.cells[i]
        BY <1>6, <2>3, <3>1, <3>3, ErasedScreen
      <3>5. Buffered(less)'
        <4>1. ASSUME NEW i \in 1 .. (k - 1) PROVE keyboard_buffer'[i] = less[i]
          <5>1. i \in 1 .. k /\ i \in 1 .. Size /\ i # k + 1
            BY <1>7, SizesKnown
          <5> QED
            BY <2>2, <2>4, <3>1, <3>3, <5>1
        <4>2. ASSUME NEW i \in ((k - 1) + 2) .. Size PROVE keyboard_buffer'[i] = Nul
          <5>1. i \in 1 .. Size /\ (i # k + 1 => i \in (k + 2) .. Size)
            BY <1>7, SizesKnown
          <5> QED
            BY <2>2, <2>4, <3>3, <5>1
        <4> QED
          BY <3>1, <3>3, <4>1, <4>2 DEF Buffered
      <3>6. Echoed(text) => Echoed(less)'
        <4>1. SUFFICES ASSUME Echoed(text) PROVE Echoed(less)'
          OBVIOUS
        <4>2. PICK s \in Nat : s = start
          BY SizesKnown DEF IInv, Typed, Cells
        <4>3. c = s + k /\ \A i \in 1 .. k : screen.cells[s + i - 1] = text[i]
          BY <2>2, <2>3, <4>1, <4>2 DEF Echoed
        <4>4. ASSUME NEW i \in 1 .. (k - 1)
              PROVE  screen'.cells[s + i - 1] = less[i]
          <5>1. PICK p : p = s + i - 1
            OBVIOUS
          <5>2. i \in 1 .. k /\ p \in Nat /\ p < c - 1
            BY <3>1, <4>3, <5>1
          <5>3. p \in Cells
            BY <2>3, <5>2, SizesKnown DEF Cells
          <5> QED
            BY <3>1, <3>4, <4>3, <5>1, <5>2, <5>3
        <4>5. c - 1 = s + (k - 1)
          BY <3>1, <4>3
        <4> QED
          BY <1>1, <3>1, <3>4, <4>2, <4>4, <4>5 DEF Echoed
      <3>7. screen'.cursor >= Len(less)
        BY <2>3, <3>1, <3>4
      <3> QED
        BY <2>1, <3>5, <3>6, <3>7
    <2> QED
      BY <2>5, <2>6
  <1>12. Holds(later)'
    <2>1. SUFFICES ASSUME longest < Size
                   PROVE  /\ Fits(later)' /\ Buffered(later[0])'
                          /\ screen'.cursor >= Len(later[0])
                          /\ start' + longest' < Width * Height
                                 => Echoed(later[0])'
      BY <1>1 DEF Holds
    <2>2. Fits(later)'
      BY <1>2, <1>5, <2>1 DEF Holds
    <2>3. Buffered(later[0])' /\ screen'.cursor >= Len(later[0])
      BY <1>5, <1>11, <2>1 DEF Buffered
    <2>4. start' + longest' < Width * Height => Echoed(later[0])'
      BY <1>1, <1>5, <1>11, <2>1 DEF Echoed
    <2> QED
      BY <2>2, <2>3, <2>4
  <1>13. Live'
    BY <1>5, <1>12 DEF Live
  <1> QED
    BY <1>1, <1>8, <1>9, <1>10, <1>13, TakenType

\* A character.
LEMMA CharTaken ==
    ASSUME IInv, KeyTaken, Head(queue) \in Chars
    PROVE  IInv'
  <1>0. PICK ch \in Chars : ch = Head(queue)
    OBVIOUS
  <1>1. /\ queue # <<>> /\ queue' = Tail(queue)
        /\ UNCHANGED <<typed, longest, start, keyboard_input_on>>
        /\ keyboard_input_on /\ KeyChar(ch)
    BY <1>0, FewKeys DEF KeyTaken, history, KeyChar
  <1>2. PICK run \in [0 .. Len(queue) -> Lines] : Leads(run) /\ Holds(run)
    BY Served DEF KeyTaken, Live
  <1>3. PICK text \in Lines : text = run[0] /\ ~Ends(text)
    BY <1>1, <1>2, TakenRun DEF IInv, Leads
  <1>4. PICK more \in Lines :
          /\ more = run[1] /\ ~Ends(more)
          /\ more = IF Len(text) < Size - 1 THEN Append(text, ch) ELSE text
    <2>1. run[1] = Edited(text, ch)
      BY <1>0, <1>1, <1>2, <1>3, TakenRun DEF IInv
    <2>2. Edited(text, ch)
            = IF Len(text) < Size - 1 THEN Append(text, ch) ELSE text
      BY <1>3, EditedBy
    <2>3. Append(text, ch) \in Lines /\ ~Ends(Append(text, ch))
      BY <1>3, Longer, FewKeys
    <2> QED
      BY <1>3, <2>1, <2>2, <2>3
  <1>5. PICK later \in [0 .. Len(queue') -> Lines] :
          later[0] = more /\ Leads(later)' /\ (Fits(run) => Fits(later)')
    BY <1>1, <1>2, <1>4, TakenRun DEF IInv
  <1>6. /\ keyboard_buffer' = Stored(ch)
        /\ buffer_index' = (buffer_index + 1) % Size
        /\ screen' = WriteHere(Right(WriteHere(screen, ch)), Space)
    BY <1>1 DEF KeyChar
  <1>7. PICK k \in Nat : k = buffer_index /\ k \in 0 .. (Size - 1)
    BY IndexPlace DEF IInv, Typed
  <1>8. IsScreen(screen) /\ IsScreen(screen')
    <2>1. IsScreen(screen)
      BY DEF IInv, Typed
    <2> QED
      BY <1>6, <2>1, TypedScreen
  <1>9. buffer_index' \in 0 .. (Size - 1)
    BY <1>6, <1>7, SizesKnown
  <1>10. /\ keyboard_buffer' \in [1 .. Size -> Keys \cup {Nul}]
         /\ Stored(ch)[k + 1] = ch
         /\ \A i \in 1 .. Size : i # k + 1 => Stored(ch)[i] = keyboard_buffer[i]
    BY <1>6, <1>7, IndexPlace DEF IInv, Keys
  <1>11. ASSUME longest < Size
         PROVE  /\ Buffered(more)'
                /\ screen'.cursor >= Len(more)
                /\ start + longest < Width * Height => Echoed(more)'
    <2>1. /\ Fits(run) /\ Buffered(text) /\ screen.cursor >= Len(text)
          /\ start + longest < Width * Height => Echoed(text)
      BY <1>2, <1>3, <1>11 DEF Holds
    <2>2. /\ k = Len(text)
          /\ \A i \in 1 .. k : keyboard_buffer[i] = text[i]
          /\ \A i \in (k + 2) .. Size : keyboard_buffer[i] = Nul
      BY <1>7, <2>1 DEF Buffered
    <2>3. k < longest
      BY <1>0, <1>1, <1>2, <1>3, <1>11, <2>1, <2>2, TakenRun DEF IInv
    <2>4. PICK l \in Nat : l = longest /\ k < l /\ l < Size
      BY <1>11, <2>3, SizesKnown DEF IInv, Typed
    <2>5. k + 1 < Size /\ k < Size - 1 /\ (k + 1) % Size = k + 1
      <3>1. k + 1 < Size /\ k < Size - 1
        BY <2>4, SizesKnown
      <3> QED
        BY <3>1, SizesKnown
    <2>6. /\ more = Append(text, ch) /\ Len(more) = k + 1 /\ more[k + 1] = ch
          /\ \A i \in 1 .. k : more[i] = text[i]
      BY <1>3, <1>4, <2>2, <2>5, Longer
    <2>7. PICK z \in Nat : z = Width * Height /\ Size <= z
      BY SizesKnown
    <2>8. PICK c \in Nat : c = screen.cursor /\ c >= k /\ c <= z - 1
      BY <1>8, <2>1, <2>2, <2>7 DEF IsScreen, Cells
    <2>9. /\ screen'.cursor = IF c < z - 1 THEN c + 1 ELSE c
          /\ c < z - 1 =>
               /\ screen'.cells[c] = ch
               /\ \A i \in Cells : i < c => screen'.cells[i] = screen.cells[i]
      BY <1>6, <1>8, <2>7, <2>8, TypedScreen
    <2>10. screen'.cursor >= k + 1
      BY <2>5, <2>7, <2>8, <2>9, SizesKnown
    <2>11. Buffered(more)'
      <3>1. ASSUME NEW i \in 1 .. (k + 1) PROVE keyboard_buffer'[i] = more[i]
        <4>1. i \in 1 .. Size /\ (i # k + 1 => i \in 1 .. k)
          BY <2>5, SizesKnown
        <4> QED
          BY <1>6, <1>10, <2>2, <2>6, <4>1
      <3>2. ASSUME NEW i \in ((k + 1) + 2) .. Size PROVE keyboard_buffer'[i] = Nul
        <4>1. i \in 1 .. Size /\ i # k + 1 /\ i \in (k + 2) .. Size
          BY SizesKnown
        <4> QED
          BY <1>6, <1>10, <2>2, <4>1
      <3>3. buffer_index' = k + 1
        BY <1>6, <1>7, <2>5
      <3> QED
        BY <2>6, <3>1, <3>2, <3>3 DEF Buffered
    <2>12. ASSUME start + longest < Width * Height PROVE Echoed(more)'
      <3>1. PICK s \in Nat : s = start
        BY SizesKnown DEF IInv, Typed, Cells
      <3>2. c = s + k /\ \A i \in 1 .. k : screen.cells[s + i - 1] = text[i]
        BY <2>1, <2>2, <2>8, <2>12, <3>1 DEF Echoed
      <3>3. s + l < z
        BY <2>4, <2>7, <2>12, <3>1
      <3>4. c < z - 1
        BY <2>4, <3>2, <3>3
      <3>5. ASSUME NEW i \in 1 .. (k + 1)
            PROVE  screen'.cells[s + i - 1] = more[i]
        <4>1. PICK p : p = s + i - 1
          OBVIOUS
        <4>2. CASE i = k + 1
          <5>1. p = c
            BY <3>2, <4>1, <4>2
          <5> QED
            BY <2>6, <2>9, <3>4, <4>1, <4>2, <5>1
        <4>3. CASE i # k + 1
          <5>1. i \in 1 .. k /\ p \in 0 .. (z - 1) /\ p < c
            BY <2>8, <3>2, <4>1, <4>3
          <5>2. p \in Cells
            BY <2>7, <5>1 DEF Cells
          <5> QED
            BY <2>6, <2>9, <3>2, <3>4, <4>1, <5>1, <5>2
        <4> QED
          BY <4>2, <4>3
      <3>6. screen'.cursor = s + (k + 1)
        BY <2>9, <3>2, <3>4
      <3> QED
        BY <1>1, <2>6, <3>1, <3>5, <3>6 DEF Echoed
    <2> QED
      BY <2>6, <2>10, <2>11, <2>12
  <1>12. Holds(later)'
    <2>1. SUFFICES ASSUME longest < Size
                   PROVE  /\ Fits(later)' /\ Buffered(later[0])'
                          /\ screen'.cursor >= Len(later[0])
                          /\ start' + longest' < Width * Height
                                 => Echoed(later[0])'
      BY <1>1 DEF Holds
    <2>2. Fits(later)'
      BY <1>2, <1>5, <2>1 DEF Holds
    <2>3. Buffered(later[0])' /\ screen'.cursor >= Len(later[0])
      BY <1>5, <1>11, <2>1 DEF Buffered
    <2>4. start' + longest' < Width * Height => Echoed(later[0])'
      BY <1>1, <1>5, <1>11, <2>1 DEF Echoed
    <2> QED
      BY <2>2, <2>3, <2>4
  <1>13. Live'
    BY <1>5, <1>12 DEF Live
  <1> QED
    BY <1>1, <1>8, <1>9, <1>10, <1>13, TakenType

LEMMA TakenHolds == IInv /\ KeyTaken => IInv'
  <1> SUFFICES ASSUME IInv, KeyTaken PROVE IInv'
    OBVIOUS
  <1>1. Head(queue) \in Keys
    <2>1. queue # <<>> /\ queue \in Seq(Keys)
      BY DEF IInv, Typed, KeyTaken
    <2> QED
      BY <2>1, HeadTailProperties
  <1> QED
    BY <1>1, NothingTaken, EndTaken, BackspaceTaken, CharTaken DEF Keys

----------------------------------------------------------------------------
(* The steps of the program. *)

\* The program goes on while no line is read, except at the end of one.
LEMMA Quiet ==
    ASSUME IInv, NEW from, NEW to, Goes(from, to), from # "waiting"
    PROVE  ~keyboard_input_on
  BY DEF IInv, Places, Goes

LEMMA BootHolds ==
    ASSUME IInv,
           \/ PicRemap \/ InitializeIdt \/ ActivateKeyboardInterrupt
           \/ FramebufferClear
    PROVE  IInv'
  <1> USE DEF kernel, pic, driver, history, Goes
  <1>1. ~keyboard_input_on
    BY DEF IInv, Places, PicRemap, InitializeIdt, ActivateKeyboardInterrupt,
           FramebufferClear
  <1>2. Typed'
    <2>1. CASE PicRemap
      BY <2>1 DEF PicRemap, IInv, Typed
    <2>2. CASE InitializeIdt
      BY <2>2 DEF InitializeIdt, IInv, Typed
    <2>3. CASE ActivateKeyboardInterrupt
      BY <2>3 DEF ActivateKeyboardInterrupt, OnlyKeyboard, IInv, Typed
    <2>4. CASE FramebufferClear
      BY <2>4, ClearedScreen DEF FramebufferClear, IInv, Typed
    <2> QED
      BY <2>1, <2>2, <2>3, <2>4
  <1>3. Places'
    <2>1. CASE PicRemap
      BY <2>1 DEF PicRemap, IInv, Places, Booting
    <2>2. CASE InitializeIdt
      BY <2>2 DEF InitializeIdt, IInv, Places, Booting
    <2>3. CASE ActivateKeyboardInterrupt
      BY <2>3 DEF ActivateKeyboardInterrupt, OnlyKeyboard, IInv, Places, Booting
    <2>4. CASE FramebufferClear
      BY <2>4 DEF FramebufferClear, IInv, Places, Booting
    <2> QED
      BY <2>1, <2>2, <2>3, <2>4
  <1>4. Listens'
    BY <1>1 DEF Listens, PicRemap, InitializeIdt, ActivateKeyboardInterrupt,
                FramebufferClear
  <1>5. Ended' /\ LineReturned'
    BY <1>1 DEF IInv, Places, Booting, Ended, LineReturned, PicRemap,
                InitializeIdt, ActivateKeyboardInterrupt, FramebufferClear
  <1> QED
    BY <1>2, <1>3, <1>4, <1>5 DEF IInv

LEMMA CommandHolds ==
    ASSUME IInv, Command
    PROVE  IInv'
  <1> USE DEF kernel, pic, driver, history, Goes
  <1>1. ~keyboard_input_on
    BY DEF IInv, Places, Command
  <1>2. IsScreen(screen')
    <2>1. IsScreen(screen)
      BY DEF IInv, Typed
    <2>2. ASSUME NEW text \in Texts PROVE IsScreen(Puts(screen, text))
      BY <2>1, PutsShows, KeyboardAssumption
    <2> QED
      BY <2>2, ClearedScreen DEF Command
  <1>3. Typed'
    BY <1>2 DEF Command, IInv, Typed
  <1>4. Places' /\ Ended' /\ LineReturned'
    BY <1>1 DEF Command, IInv, Places, Booting, Ended, LineReturned
  <1>5. Listens'
    BY <1>1 DEF Command, Listens
  <1> QED
    BY <1>3, <1>4, <1>5 DEF IInv

LEMMA PromptHolds ==
    ASSUME IInv, PrintPrompt
    PROVE  IInv'
  <1> USE DEF kernel, pic, driver, Goes
  <1>1. ~keyboard_input_on
    BY DEF IInv, Places, PrintPrompt
  <1>2. IsScreen(screen')
    <2>1. IsScreen(screen)
      BY DEF IInv, Typed
    <2> QED
      BY <2>1, PutsShows, KeyboardAssumption DEF PrintPrompt
  <1>3. Typed'
    <2>1. 0 \in 0 .. Size /\ 0 \in Cells
      BY SizesKnown
    <2> QED
      BY <1>2, <2>1, NoText, ZeroBufferType DEF PrintPrompt, IInv, Typed
  <1>4. Places' /\ Ended' /\ LineReturned'
    BY <1>1 DEF PrintPrompt, IInv, Places, Booting, Ended, LineReturned
  <1>5. Listens'
    BY <1>1 DEF PrintPrompt, Listens
  <1> QED
    BY <1>3, <1>4, <1>5 DEF IInv

\* A line begins: either the controller will ask for the first key, or the
\* keys that wait already will never be fetched.
LEMMA ReadHolds ==
    ASSUME IInv, ReadLine
    PROVE  IInv'
  <1> USE DEF kernel, Goes
  <1>1. /\ at = "prompted" /\ at' = "waiting" /\ Deliverable = {}
        /\ keyboard_input_on' = TRUE /\ start' = screen.cursor
        /\ UNCHANGED <<irr, isr, queue, buffer_index, keyboard_buffer, screen,
                       line, typed, longest>>
        /\ mask' = {TIMER} /\ interrupts' = TRUE
    BY DEF ReadLine, OnlyKeyboard
  <1>2. Typed'
    <2>1. screen.cursor \in Cells
      BY DEF IInv, Typed, IsScreen
    <2> QED
      BY <1>1, <2>1 DEF IInv, Typed
  <1>3. Places'
    BY <1>1 DEF IInv, Places, Booting
  <1>4. ASSUME queue # <<>> PROVE Stuck'
    <2>1. interrupts /\ mask = {TIMER}
      BY <1>1 DEF IInv, Places
    <2>2. KEYBOARD \in irr => isr # {}
      <3>1. KEYBOARD \in irr /\ isr = {} => KEYBOARD \in Deliverable
        BY <2>1 DEF Deliverable, TIMER, KEYBOARD
      <3> QED
        BY <1>1, <3>1
    <2> QED
      BY <1>1, <1>4, <2>2 DEF Stuck
  <1>5. ASSUME queue = <<>> PROVE Live'
    <2>1. PICK run : run = [i \in 0 .. 0 |-> <<>>]
      OBVIOUS
    <2>2. /\ run[0] = <<>> /\ run \in [0 .. 0 -> Lines] /\ Len(queue') = 0
          /\ Len(<<>>) = 0
      BY <1>1, <1>5, <2>1, NoText
    <2>3. typed = <<>> /\ longest = 0
      BY <1>1 DEF IInv, Places
    <2>4. Leads(run)'
      <3>1. \A i, j \in 0 .. 0 : Ends(run[i]) /\ i <= j => run[j] = run[i]
        BY <2>2, NoText
      <3>2. \A i \in 1 .. 0 : run[i] = Edited(run[i - 1], queue'[i])
        OBVIOUS
      <3> QED
        BY <1>1, <2>2, <2>3, <3>1, <3>2, NoText DEF Leads
    <2>5. Holds(run)'
      <3>1. buffer_index = 0 /\ keyboard_buffer = ZeroBuffer
        BY <1>1 DEF IInv, Places
      <3>2. Buffered(<<>>)'
        <4>1. \A i \in (0 + 2) .. Size : i \in 1 .. Size
          BY SizesKnown
        <4>2. \A i \in (0 + 2) .. Size : keyboard_buffer'[i] = Nul
          BY <1>1, <3>1, <4>1 DEF ZeroBuffer
        <4>3. \A i \in 1 .. 0 : keyboard_buffer'[i] = <<>>[i]
          OBVIOUS
        <4> QED
          BY <1>1, <2>2, <3>1, <4>2, <4>3, Zenon DEF Buffered
      <3>3. PICK c \in Nat : c = screen.cursor
        BY SizesKnown DEF IInv, Typed, IsScreen, Cells
      <3>4. Echoed(<<>>)'
        <4>1. \A i \in 1 .. 0 : screen'.cells[start' + i - 1] = <<>>[i]
          OBVIOUS
        <4>2. screen'.cursor = start' + 0
          BY <1>1, <3>3
        <4> QED
          BY <2>2, <4>1, <4>2, Zenon DEF Echoed
      <3>5. screen'.cursor >= 0
        BY <1>1, <3>3
      <3>6. Fits(run)'
        <4>1. \A i \in 1 .. 0 : queue'[i] \in Chars /\ ~Ends(run[i - 1])
                                  => Len(run[i - 1]) < longest'
          OBVIOUS
        <4>2. Len(typed') <= longest'
          <5>1. 0 <= 0
            OBVIOUS
          <5> QED
            BY <1>1, <2>2, <2>3, <5>1, Zenon
        <4> QED
          BY <2>2, <4>1, <4>2, Zenon DEF Fits
      <3> QED
        BY <2>2, <3>2, <3>4, <3>5, <3>6, Zenon DEF Holds
    <2> QED
      BY <2>2, <2>4, <2>5 DEF Live
  <1>6. Listens'
    BY <1>4, <1>5 DEF Listens
  <1>7. Ended' /\ LineReturned'
    BY <1>1 DEF Ended, LineReturned
  <1> QED
    BY <1>2, <1>3, <1>6, <1>7 DEF IInv

LEMMA TakeHolds ==
    ASSUME IInv, LeaveLoop \/ TakeLine
    PROVE  IInv'
  <1> USE DEF kernel, pic, driver, history, Goes
  <1>1. CASE LeaveLoop
    <2>1. Typed' /\ Places'
      BY <1>1 DEF LeaveLoop, IInv, Typed, Places, Booting
    <2>2. Listens' /\ LineReturned'
      BY <1>1 DEF LeaveLoop, Listens, LineReturned
    <2>3. Ended'
      BY <1>1 DEF LeaveLoop, IInv, Ended, Padded
    <2> QED
      BY <2>1, <2>2, <2>3 DEF IInv
  <1>2. CASE TakeLine
    <2>1. Typed'
      <3>1. 0 \in 0 .. (Size - 1)
        BY SizesKnown
      <3> QED
        BY <1>2, <3>1, ZeroBufferType DEF TakeLine, IInv, Typed
    <2>2. Places'
      BY <1>2 DEF TakeLine, IInv, Places, Booting
    <2>3. Listens' /\ Ended'
      BY <1>2 DEF TakeLine, Listens, Ended
    <2>4. LineReturned'
      <3>1. longest < Size => keyboard_buffer = Padded(typed)
        BY <1>2 DEF TakeLine, IInv, Ended
      <3>2. Padded(typed)' = Padded(typed)
        BY <1>2 DEF TakeLine, Padded
      <3>3. line' = keyboard_buffer /\ longest' = longest
        BY <1>2 DEF TakeLine
      <3> QED
        BY <3>1, <3>2, <3>3 DEF LineReturned
    <2> QED
      BY <2>1, <2>2, <2>3, <2>4 DEF IInv
  <1> QED
    BY <1>1, <1>2

LEMMA StutterHolds == IInv /\ UNCHANGED vars => IInv'
  <1> SUFFICES ASSUME IInv, UNCHANGED vars PROVE IInv'
    OBVIOUS
  <1> USE DEF vars, kernel, pic, driver, history
  <1>1. Typed' /\ Places'
    BY DEF IInv, Typed, Places, Booting
  <1>2. Listens'
    BY Untouched DEF IInv, Listens, Stuck
  <1>3. Ended' /\ LineReturned'
    BY DEF IInv, Ended, LineReturned, Padded
  <1> QED
    BY <1>1, <1>2, <1>3 DEF IInv

LEMMA StepHolds == IInv /\ [Next]_vars => IInv'
  <1> SUFFICES ASSUME IInv, [Next]_vars PROVE IInv'
    OBVIOUS
  <1>1. CASE Tick
    BY <1>1, TickHolds
  <1>2. ASSUME NEW key \in Keys, Press(key) PROVE IInv'
    BY <1>2, PressHolds
  <1>3. CASE Interrupt
    BY <1>3, TimerHolds, IgnoredHolds, TakenHolds DEF Interrupt
  <1>4. CASE Program
    BY <1>4, BootHolds, CommandHolds, PromptHolds, ReadHolds, TakeHolds
       DEF Program
  <1>5. CASE UNCHANGED vars
    BY <1>5, StutterHolds
  <1> QED
    BY <1>1, <1>2, <1>3, <1>4, <1>5 DEF Next

LEMMA Inductive == Spec => []IInv
  BY InitHolds, StepHolds, PTL DEF Spec

----------------------------------------------------------------------------
(* The theorems. *)

\* Every variable keeps its type: no sequence of keys, of any length, moves
\* the index out of the buffer (keyboard_isr) or the cursor off the screen
\* (framebuffer.c).
THEOREM StaysTyped == Spec => []TypeOK
  <1>1. IInv => TypeOK
    <2>1. \A f \in [1 .. Size -> Keys \cup {Nul}] : Len(f) = Size
      BY SizesKnown
    <2>2. IsScreen(screen) =>
            screen.cursor \in Cells /\ DOMAIN screen.cells = Cells
      BY DEF IsScreen
    <2> QED
      BY <2>1, <2>2 DEF IInv, Typed, TypeOK
  <1> QED
    BY <1>1, Inductive, PTL

\* While the driver has caught up with the user, its buffer is the line that
\* the user has typed and erased so far (keyboard_isr).
THEOREM BufferFollows == Spec => []LineFaithful
  <1>1. IInv => LineFaithful
    <2>1. SUFFICES ASSUME IInv, keyboard_input_on, queue = <<>>, longest < Size
                   PROVE  Buffered(typed)
      BY DEF LineFaithful, Buffered
    <2>2. Live
      BY <2>1 DEF IInv, Listens, Stuck
    <2>3. PICK run \in [0 .. Len(queue) -> Lines] : Leads(run) /\ Holds(run)
      BY <2>2 DEF Live
    <2>4. Len(queue) = 0
      BY <2>1
    <2> QED
      BY <2>1, <2>3, <2>4 DEF Leads, Holds
  <1> QED
    BY <1>1, Inductive, PTL

\* System call 4 hands the shell the line as it was typed and nothing else
\* (keyboard_isr, get_keyboard_buffer, keyboard_state_deactivate).
THEOREM ShellGetsLine == Spec => []LineReturned
  <1>1. IInv => LineReturned
    BY DEF IInv
  <1> QED
    BY <1>1, Inductive, PTL

\* The echo of the driver shows the line, across the ends of rows and back
\* (keyboard_isr, framebuffer_move_cursor_left, framebuffer_move_cursor_right).
THEOREM EchoFollows == Spec => []EchoMatches
  <1>1. IInv => EchoMatches
    <2>1. SUFFICES ASSUME IInv, keyboard_input_on, queue = <<>>, longest < Size,
                          start + longest < Width * Height
                   PROVE  Echoed(typed)
      BY DEF EchoMatches, Echoed
    <2>2. Live
      BY <2>1 DEF IInv, Listens, Stuck
    <2>3. PICK run \in [0 .. Len(queue) -> Lines] : Leads(run) /\ Holds(run)
      BY <2>2 DEF Live
    <2>4. Len(queue) = 0
      BY <2>1
    <2> QED
      BY <2>1, <2>3, <2>4 DEF Leads, Holds
  <1> QED
    BY <1>1, Inductive, PTL

=============================================================================

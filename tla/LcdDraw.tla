------------------------------- MODULE LcdDraw -------------------------------
(***************************************************************************)
(* What the programs of the LCD draw, as sets of screen cells <<x, y>>:    *)
(*                                                                         *)
(*   - lcd_draw_line of lcd_followfingers_mqtt.c, where width and height   *)
(*     are unsigned, and of 19_lcd/lcd_followfingers.c, where they are     *)
(*     int;                                                                *)
(*   - the target drawn at a finger, ten lines;                            *)
(*   - show_char of 23_freetype/lcd_show_char.c and freetype_show_char of  *)
(*     lcd_freetype_show_char_mqtt.c, as sets of <<row, column, x, y>>:    *)
(*     this cell of the bitmap goes to this cell of the screen.            *)
(*                                                                         *)
(* A cell stands for screen_base[y * width + x]; colours are left out.     *)
(* Coordinates are far from the ends of int.                               *)
(***************************************************************************)
EXTENDS Integers

CONSTANTS
    width, height,  \* of the screen
    Word            \* 2^32, the number of values of an unsigned int

ASSUME SizeAssumption == width \in Nat \ {0} /\ height \in Nat \ {0}
ASSUME WordAssumption == Word \in Nat

Larger(a, b)  == IF a > b THEN a ELSE b
Smaller(a, b) == IF a < b THEN a ELSE b

Columns == 0..width - 1
Rows    == 0..height - 1
-----------------------------------------------------------------------------
(***************************************************************************)
(* Lines.  The last cell of a line that starts at start, on an axis with   *)
(* size cells.  A comparison with an unsigned size converts end.           *)
(***************************************************************************)
Unsigned(n) == IF n < 0 THEN n + Word ELSE n

(* Mutant: the end is taken one too far.                                   *)
LineEndFar(start, length, size) ==
    LET end == start + length
    IN  IF Unsigned(end) >= size THEN size - 1 ELSE end

LineEnd(start, length, size) ==
    LET end == start + length - 1
    IN  IF Unsigned(end) >= size THEN size - 1 ELSE end

IntLineEnd(start, length, size) ==
    LET end == start + length - 1
    IN  IF end >= size THEN size - 1 ELSE end

Horizontal(x, last, y) == {<<i, y>> : i \in x..last}
Vertical(x, y, last)   == {<<x, j>> : j \in y..last}

(* Mutant: a line that starts left of the screen is not cut.               *)
DrawLineUncut(x_start, y_start, dir, length) ==
    IF dir = 1 /\ y_start \in Rows
    THEN Horizontal(x_start, LineEnd(x_start, length, width), y_start)
    ELSE IF dir = 0 /\ x_start \in Columns
    THEN Vertical(x_start, Larger(y_start, 0), LineEnd(y_start, length, height))
    ELSE {}

DrawLine(x_start, y_start, dir, length) ==
    IF dir = 1 /\ y_start \in Rows
    THEN Horizontal(Larger(x_start, 0), LineEnd(x_start, length, width), y_start)
    ELSE IF dir = 0 /\ x_start \in Columns
    THEN Vertical(x_start, Larger(y_start, 0), LineEnd(y_start, length, height))
    ELSE {}

IntDrawLine(x_start, y_start, dir, length) ==
    IF dir = 1 /\ y_start \in Rows
    THEN Horizontal(Larger(x_start, 0), IntLineEnd(x_start, length, width), y_start)
    ELSE IF dir = 0 /\ x_start \in Columns
    THEN Vertical(x_start, Larger(y_start, 0), IntLineEnd(y_start, length, height))
    ELSE {}

(* The lines of the target at a finger: <<x_start, y_start, dir, length>>. *)
TargetLines(x, y) ==
    {<<x - 99, y, 1, 199>>,     <<x, y - 99, 0, 199>>,
     <<x - 50, y - 50, 1, 25>>, <<x + 25, y - 50, 1, 25>>,
     <<x - 50, y - 50, 0, 25>>, <<x + 50, y - 50, 0, 25>>,
     <<x - 50, y + 25, 0, 25>>, <<x + 50, y + 25, 0, 25>>,
     <<x - 50, y + 50, 1, 25>>, <<x + 25, y + 50, 1, 25>>}

DrawTarget(x, y)    == UNION {DrawLine(l[1], l[2], l[3], l[4]) : l \in TargetLines(x, y)}
IntDrawTarget(x, y) == UNION {IntDrawLine(l[1], l[2], l[3], l[4]) : l \in TargetLines(x, y)}
-----------------------------------------------------------------------------
(***************************************************************************)
(* Bitmaps of w columns and h rows with the upper left corner at <<x, y>>. *)
(***************************************************************************)
ShowChar(x, y, w, h) ==
    LET end_x == Smaller(x + w - 1, width - 1)
        end_y == Smaller(y + h - 1, height - 1)
    IN  IF x >= width \/ y >= height \/ w < 1 \/ h < 1
        THEN {}
        ELSE {<<p, q, x + q, y + p>> : p \in 0..end_y - y, q \in 0..end_x - x}

(* Mutant: the part of the glyph left of the screen is not skipped.        *)
FreetypeShowUnskipped(start_x, start_y, w, h) ==
    LET p0 == Larger(-start_y, 0)   i0 == Larger(start_y, 0)
        q0 == 0                     j0 == Larger(start_x, 0)
    IN  {<<p0 + i - i0, q0 + j - j0, j, i>> :
            i \in i0..Smaller(start_y + h, height) - 1,
            j \in j0..Smaller(start_x + w, width) - 1}

FreetypeShow(start_x, start_y, w, h) ==
    LET p0 == Larger(-start_y, 0)   i0 == Larger(start_y, 0)
        q0 == Larger(-start_x, 0)   j0 == Larger(start_x, 0)
    IN  {<<p0 + i - i0, q0 + j - j0, j, i>> :
            i \in i0..Smaller(start_y + h, height) - 1,
            j \in j0..Smaller(start_x + w, width) - 1}
-----------------------------------------------------------------------------
(***************************************************************************)
(* The reference: the part of a line or bitmap that is on the screen.      *)
(***************************************************************************)
VisibleLine(x, y, dir, length) ==
    IF dir = 1
    THEN {<<i, y>> : i \in {i \in Columns : y \in Rows /\ x <= i /\ i < x + length}}
    ELSE {<<x, j>> : j \in {j \in Rows : x \in Columns /\ y <= j /\ j < y + length}}

VisibleTarget(x, y) ==
    UNION {VisibleLine(l[1], l[2], l[3], l[4]) : l \in TargetLines(x, y)}

VisibleBitmap(x, y, w, h) ==
    {<<i - y, j - x, j, i>> : i \in {i \in Rows : y <= i /\ i < y + h},
                              j \in {j \in Columns : x <= j /\ j < x + w}}

(* The lines drawn over the whole width or height of the screen although   *)
(* nothing of them is on it: those that end left of it or above it.        *)
WrapsAround(x, y, dir, length) ==
    \/ dir = 1 /\ y \in Rows /\ x + length - 1 < 0
    \/ dir = 0 /\ x \in Columns /\ y + length - 1 < 0
=============================================================================

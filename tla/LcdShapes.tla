----------------------------- MODULE LcdShapes -----------------------------
(***************************************************************************)
(* The shapes of 19_lcd/lcd_baseshow.c, the points, lines and rectangles   *)
(* its main puts on the screen, and the star of lcd_myshow.c, as sets of   *)
(* cells <<x, y>>.  A start outside the screen is moved to the last column *)
(* or row, unlike in LcdDraw.  Colours are left out.                       *)
(***************************************************************************)
EXTENDS LcdDraw, Sequences, FiniteSets

InColumns(x) == Smaller(x, width - 1)
InRows(y)    == Smaller(y, height - 1)

DrawPoint(x, y) == {<<InColumns(x), InRows(y)>>}

MovedLine(x_start, y_start, dir, length) ==
    LET x == InColumns(x_start)
        y == InRows(y_start)
    IN  IF dir = 1
        THEN Horizontal(x, InColumns(x + length - 1), y)
        ELSE Vertical(x, y, InRows(y + length - 1))

(* Mutant: the sides are as long as the rectangle is high.                 *)
DrawRectangleLong(x_start, y_start, x_end, y_end) ==
    LET x0 == InColumns(x_start)   x1 == InColumns(x_end)
        y0 == InRows(y_start)      y1 == InRows(y_end)
    IN  MovedLine(x0, y0, 1, x1 - x0 + 1) \union MovedLine(x0, y1, 1, x1 - x0 + 1)
            \union MovedLine(x0, y0 + 1, 0, y1 - y0 + 1)
            \union MovedLine(x1, y0 + 1, 0, y1 - y0 + 1)

DrawRectangle(x_start, y_start, x_end, y_end) ==
    LET x0 == InColumns(x_start)   x1 == InColumns(x_end)
        y0 == InRows(y_start)      y1 == InRows(y_end)
    IN  MovedLine(x0, y0, 1, x1 - x0 + 1) \union MovedLine(x0, y1, 1, x1 - x0 + 1)
            \union MovedLine(x0, y0 + 1, 0, y1 - y0 - 1)
            \union MovedLine(x1, y0 + 1, 0, y1 - y0 - 1)

FillRectangle(x_start, y_start, x_end, y_end) ==
    (InColumns(x_start)..InColumns(x_end)) \X (InRows(y_start)..InRows(y_end))
-----------------------------------------------------------------------------
(***************************************************************************)
(* The star on a screen of w columns and h rows: strokes of count points,  *)
(* each moved by <<right, down>> from the point before it; a stroke begins *)
(* at a move from the last point of the one before it.  Points are indices *)
(* into screen_base.                                                       *)
(***************************************************************************)
Strokes ==
    << [from |-> <<0, 0>>,   by |-> <<-1, 3>>,  count |-> 17],
       [from |-> <<-48, 0>>, by |-> <<3, 0>>,   count |-> 16],
       [from |-> <<4, 3>>,   by |-> <<4, 3>>,   count |-> 10],
       [from |-> <<-1, 3>>,  by |-> <<-1, 3>>,  count |-> 16],
       [from |-> <<4, -3>>,  by |-> <<4, -3>>,  count |-> 10],
       [from |-> <<4, 3>>,   by |-> <<4, 3>>,   count |-> 10],
       [from |-> <<-1, -3>>, by |-> <<-1, -3>>, count |-> 16],
       [from |-> <<4, -3>>,  by |-> <<4, -3>>,  count |-> 10],
       [from |-> <<-48, 0>>, by |-> <<3, 0>>,   count |-> 16],
       [from |-> <<-1, -3>>, by |-> <<-1, -3>>, count |-> 15] >>

Index(move, w) == move[1] + move[2] * w

(* Mutant: the two horizontal strokes end at their last point.             *)
LastPoint(first, stroke, w) == first + (stroke.count - 1) * Index(stroke.by, w)

(* The two horizontal strokes end where they began.                        *)
Last(first, stroke, w) ==
    IF stroke.by = <<3, 0>> THEN first ELSE first + (stroke.count - 1) * Index(stroke.by, w)

First(w, h) ==
    LET first[n \in 1..Len(Strokes)] ==
            IF n = 1 THEN (h \div 6) * w + w \div 2
            ELSE Last(first[n - 1], Strokes[n - 1], w) + Index(Strokes[n].from, w)
    IN  first

StarPoints(w, h) ==
    {First(w, h)[s[1]] + s[2] * Index(Strokes[s[1]].by, w) :
        s \in {s \in (1..Len(Strokes)) \X (0..16) : s[2] < Strokes[s[1]].count}}

(* The cells of the points of the screen, the middle of the top at <<0, 0>>.*)
Star(w, h) ==
    {<<(p % w) - (w \div 2), (p \div w) - (h \div 6)>> : p \in StarPoints(w, h) \cap 0..w * h - 1}
-----------------------------------------------------------------------------
(* The references: the border of a rectangle, and what a star is.          *)
Border(x0, y0, x1, y1) ==
    {c \in (x0..x1) \X (y0..y1) : c[1] \in {x0, x1} \/ c[2] \in {y0, y1}}

(* The star is 129 columns wide and, with its top, 127 rows high.          *)
FitsStar(w, h) == w >= 129 /\ (h \div 6) + 127 <= h

(* The right half is the left half mirrored, and no stroke leaves a hole   *)
(* where the next begins: 136 points, none drawn twice.                    *)
IsStar(cells) ==
    /\ \A c \in cells : <<-c[1], c[2]>> \in cells
    /\ <<0, 0>> \in cells /\ Cardinality(cells) = 136
=============================================================================

---------------------------- MODULE ScreenProofs ----------------------------
(***************************************************************************)
(* Proofs about what is drawn on the screen: LcdDraw, LcdShapes and        *)
(* LcdImage for every size of the screen and all arguments, NameList for   *)
(* every size of the buffers and every file; and TouchTracker and          *)
(* SingleTouch for every number of slots, all coordinates and every queue. *)
(***************************************************************************)
EXTENDS MCScreen, FiniteSetTheorems, WellFoundedInduction, TLAPS

(* A line that does not end before the screen begins is cut to the part of *)
(* it that is visible, though width and height are unsigned.               *)
THEOREM LineIsCut ==
    ASSUME NEW x \in Int, NEW y \in Int, NEW dir \in {0, 1}, NEW length \in Nat,
           ~WrapsAround(x, y, dir, length)
    PROVE  DrawLine(x, y, dir, length) = VisibleLine(x, y, dir, length)
<1> USE SizeAssumption DEF Columns, Rows
<1>1. CASE dir = 1 /\ y \in Rows
  <2>1. x + length - 1 >= 0
    BY <1>1 DEF WrapsAround
  <2>2. \A i \in Int : i \in Larger(x, 0)..LineEnd(x, length, width)
                       <=> i \in Columns /\ x <= i /\ i < x + length
    BY <2>1 DEF Larger, LineEnd, Unsigned
  <2>3. Larger(x, 0)..LineEnd(x, length, width)
            = {i \in Columns : y \in Rows /\ x <= i /\ i < x + length}
    BY <1>1, <2>2
  <2> QED  BY <1>1, <2>3 DEF DrawLine, VisibleLine, Horizontal
<1>2. CASE dir = 0 /\ x \in Columns
  <2>1. y + length - 1 >= 0
    BY <1>2 DEF WrapsAround
  <2>2. \A j \in Int : j \in Larger(y, 0)..LineEnd(y, length, height)
                       <=> j \in Rows /\ y <= j /\ j < y + length
    BY <2>1 DEF Larger, LineEnd, Unsigned
  <2>3. Larger(y, 0)..LineEnd(y, length, height)
            = {j \in Rows : x \in Columns /\ y <= j /\ j < y + length}
    BY <1>2, <2>2
  <2> QED  BY <1>2, <2>3 DEF DrawLine, VisibleLine, Vertical
<1>3. CASE ~(dir = 1 /\ y \in Rows) /\ ~(dir = 0 /\ x \in Columns)
  <2>1. DrawLine(x, y, dir, length) = {}
    BY <1>3 DEF DrawLine
  <2>2. VisibleLine(x, y, dir, length) = {}
    BY <1>3 DEF VisibleLine
  <2> QED  BY <2>1, <2>2
<1> QED  BY <1>1, <1>2, <1>3

(* With int sizes every line is cut.                                       *)
THEOREM IntLineIsCut ==
    ASSUME NEW x \in Int, NEW y \in Int, NEW dir \in {0, 1}, NEW length \in Nat
    PROVE  IntDrawLine(x, y, dir, length) = VisibleLine(x, y, dir, length)
<1> USE SizeAssumption DEF Columns, Rows
<1>1. CASE dir = 1 /\ y \in Rows
  <2>1. \A i \in Int : i \in Larger(x, 0)..IntLineEnd(x, length, width)
                       <=> i \in Columns /\ x <= i /\ i < x + length
    BY DEF Larger, IntLineEnd
  <2>2. Larger(x, 0)..IntLineEnd(x, length, width)
            = {i \in Columns : y \in Rows /\ x <= i /\ i < x + length}
    BY <1>1, <2>1
  <2> QED  BY <1>1, <2>2 DEF IntDrawLine, VisibleLine, Horizontal
<1>2. CASE dir = 0 /\ x \in Columns
  <2>1. \A j \in Int : j \in Larger(y, 0)..IntLineEnd(y, length, height)
                       <=> j \in Rows /\ y <= j /\ j < y + length
    BY DEF Larger, IntLineEnd
  <2>2. Larger(y, 0)..IntLineEnd(y, length, height)
            = {j \in Rows : x \in Columns /\ y <= j /\ j < y + length}
    BY <1>2, <2>1
  <2> QED  BY <1>2, <2>2 DEF IntDrawLine, VisibleLine, Vertical
<1>3. CASE ~(dir = 1 /\ y \in Rows) /\ ~(dir = 0 /\ x \in Columns)
  <2>1. IntDrawLine(x, y, dir, length) = {}
    BY <1>3 DEF IntDrawLine
  <2>2. VisibleLine(x, y, dir, length) = {}
    BY <1>3 DEF VisibleLine
  <2> QED  BY <2>1, <2>2
<1> QED  BY <1>1, <1>2, <1>3

(* The exception: a horizontal line that ends left of the screen is drawn  *)
(* from edge to edge, and a vertical one that ends above it likewise.      *)
THEOREM LineWrapsAround ==
    ASSUME NEW x \in Int, NEW y \in Int, NEW dir \in {0, 1}, NEW length \in Nat,
           WrapsAround(x, y, dir, length),
           x + length - 1 + Word >= width, y + length - 1 + Word >= height
    PROVE  DrawLine(x, y, dir, length) = IF dir = 1 THEN Columns \X {y} ELSE {x} \X Rows
<1>1. CASE dir = 1
  <2>1. y \in Rows /\ LineEnd(x, length, width) = width - 1 /\ Larger(x, 0) = 0
    BY <1>1, SizeAssumption, WordAssumption DEF WrapsAround, LineEnd, Unsigned, Larger
  <2>2. DrawLine(x, y, dir, length) = {<<i, y>> : i \in Columns}
    BY <1>1, <2>1 DEF DrawLine, Horizontal, Columns
  <2> QED  BY <1>1, <2>2
<1>2. CASE dir = 0
  <2>1. x \in Columns /\ LineEnd(y, length, height) = height - 1 /\ Larger(y, 0) = 0
    BY <1>2, SizeAssumption, WordAssumption DEF WrapsAround, LineEnd, Unsigned, Larger
  <2>2. DrawLine(x, y, dir, length) = {<<x, j>> : j \in Rows}
    BY <1>2, <2>1 DEF DrawLine, Vertical, Rows
  <2> QED  BY <1>2, <2>2
<1> QED  BY <1>1, <1>2

(* The target of a finger that is at least 26 cells from the left and from *)
(* the upper edge is cut to its visible part.                              *)
THEOREM TargetIsCut ==
    ASSUME NEW x \in Nat, NEW y \in Nat, x >= 26, y >= 26
    PROVE  DrawTarget(x, y) = VisibleTarget(x, y)
<1>1. ASSUME NEW l \in TargetLines(x, y)
      PROVE  DrawLine(l[1], l[2], l[3], l[4]) = VisibleLine(l[1], l[2], l[3], l[4])
  <2>1. /\ l[1] \in Int /\ l[2] \in Int /\ l[3] \in {0, 1} /\ l[4] \in Nat
        /\ l[3] = 1 => l[1] + l[4] - 1 >= 0
        /\ l[3] = 0 => l[2] + l[4] - 1 >= 0
    BY <1>1 DEF TargetLines
  <2>2. ~WrapsAround(l[1], l[2], l[3], l[4])
    BY <2>1 DEF WrapsAround
  <2> QED  BY <2>1, <2>2, LineIsCut
<1> QED  BY <1>1 DEF DrawTarget, VisibleTarget

(* With int sizes the target of every finger is.                           *)
THEOREM IntTargetIsCut ==
    ASSUME NEW x \in Nat, NEW y \in Nat
    PROVE  IntDrawTarget(x, y) = VisibleTarget(x, y)
<1>1. ASSUME NEW l \in TargetLines(x, y)
      PROVE  IntDrawLine(l[1], l[2], l[3], l[4]) = VisibleLine(l[1], l[2], l[3], l[4])
  <2>1. l[1] \in Int /\ l[2] \in Int /\ l[3] \in {0, 1} /\ l[4] \in Nat
    BY <1>1 DEF TargetLines
  <2> QED  BY <2>1, IntLineIsCut
<1> QED  BY <1>1 DEF IntDrawTarget, VisibleTarget

(* A glyph is cut to its visible part, wherever it lies, and each cell of  *)
(* the screen gets the cell of the bitmap that belongs there.              *)
THEOREM GlyphIsCut ==
    ASSUME NEW x \in Int, NEW y \in Int, NEW w \in Nat, NEW h \in Nat
    PROVE  FreetypeShow(x, y, w, h) = VisibleBitmap(x, y, w, h)
<1>1. \A i \in Int : i \in Larger(y, 0)..Smaller(y + h, height) - 1
                     <=> i \in Rows /\ y <= i /\ i < y + h
  BY SizeAssumption DEF Larger, Smaller, Rows
<1>2. \A j \in Int : j \in Larger(x, 0)..Smaller(x + w, width) - 1
                     <=> j \in Columns /\ x <= j /\ j < x + w
  BY SizeAssumption DEF Larger, Smaller, Columns
<1>3. \A i, j \in Int : /\ Larger(-y, 0) + i - Larger(y, 0) = i - y
                        /\ Larger(-x, 0) + j - Larger(x, 0) = j - x
  BY DEF Larger
<1>4. Larger(y, 0)..Smaller(y + h, height) - 1 = {i \in Rows : y <= i /\ i < y + h}
  BY <1>1 DEF Rows
<1>5. Larger(x, 0)..Smaller(x + w, width) - 1 = {j \in Columns : x <= j /\ j < x + w}
  BY <1>2 DEF Columns
<1>6. FreetypeShow(x, y, w, h) =
          {<<Larger(-y, 0) + i - Larger(y, 0), Larger(-x, 0) + j - Larger(x, 0), j, i>> :
              i \in {i \in Rows : y <= i /\ i < y + h},
              j \in {j \in Columns : x <= j /\ j < x + w}}
  BY <1>4, <1>5 DEF FreetypeShow
<1> DEFINE R == {i \in Rows : y <= i /\ i < y + h}
           C == {j \in Columns : x <= j /\ j < x + w}
<1>7. \A i \in R, j \in C :
          <<Larger(-y, 0) + i - Larger(y, 0), Larger(-x, 0) + j - Larger(x, 0), j, i>>
              = <<i - y, j - x, j, i>>
  <2>1. R \subseteq Int /\ C \subseteq Int
    BY SizeAssumption DEF Rows, Columns
  <2> QED  BY <2>1, <1>3
<1>8. {<<Larger(-y, 0) + i - Larger(y, 0), Larger(-x, 0) + j - Larger(x, 0), j, i>> :
          i \in R, j \in C} = {<<i - y, j - x, j, i>> : i \in R, j \in C}
  <2> HIDE DEF R, C
  <2> QED  BY <1>7
<1> QED  BY <1>6, <1>8 DEF VisibleBitmap

(* So is a character of show_char, whose place is not negative.            *)
THEOREM CharIsCut ==
    ASSUME NEW x \in Nat, NEW y \in Nat, NEW w \in Nat, NEW h \in Nat
    PROVE  ShowChar(x, y, w, h) = VisibleBitmap(x, y, w, h)
<1>1. CASE x >= width \/ y >= height \/ w < 1 \/ h < 1
  <2>1. ShowChar(x, y, w, h) = {}
    BY <1>1 DEF ShowChar
  <2>2. VisibleBitmap(x, y, w, h) = {}
    BY <1>1, SizeAssumption DEF VisibleBitmap, Rows, Columns
  <2> QED  BY <2>1, <2>2
<1>2. CASE ~(x >= width \/ y >= height \/ w < 1 \/ h < 1)
  <2> DEFINE lx == Smaller(x + w - 1, width - 1)
             ly == Smaller(y + h - 1, height - 1)
  <2>1. lx \in Int /\ ly \in Int
    BY SizeAssumption DEF Smaller
  <2>2. /\ \A i \in Int : i - y \in 0..ly - y <=> i \in Rows /\ y <= i /\ i < y + h
        /\ \A j \in Int : j - x \in 0..lx - x <=> j \in Columns /\ x <= j /\ j < x + w
    BY <1>2, SizeAssumption DEF Smaller, Rows, Columns
  <2>3. ShowChar(x, y, w, h) = {<<p, q, x + q, y + p>> : p \in 0..ly - y, q \in 0..lx - x}
    BY <1>2 DEF ShowChar
  <2> HIDE DEF lx, ly
  <2>4. ASSUME NEW c \in ShowChar(x, y, w, h) PROVE c \in VisibleBitmap(x, y, w, h)
    <3>1. PICK p \in 0..ly - y, q \in 0..lx - x : c = <<p, q, x + q, y + p>>
      BY <2>3, <2>4
    <3> DEFINE i == y + p
               j == x + q
    <3>2. i - y = p /\ j - x = q /\ i \in Int /\ j \in Int
      BY <2>1, <3>1
    <3>3. c = <<i - y, j - x, j, i>>
      BY <3>1, <3>2
    <3>4. i \in {k \in Rows : y <= k /\ k < y + h} /\ j \in {k \in Columns : x <= k /\ k < x + w}
      BY <2>2, <3>1, <3>2
    <3> QED  BY <3>3, <3>4 DEF VisibleBitmap
  <2>5. ASSUME NEW c \in VisibleBitmap(x, y, w, h) PROVE c \in ShowChar(x, y, w, h)
    <3>1. PICK i \in {k \in Rows : y <= k /\ k < y + h},
               j \in {k \in Columns : x <= k /\ k < x + w} : c = <<i - y, j - x, j, i>>
      BY <2>5 DEF VisibleBitmap
    <3>2. i \in Int /\ j \in Int /\ x + (j - x) = j /\ y + (i - y) = i
      BY <3>1 DEF Rows, Columns
    <3>3. i - y \in 0..ly - y /\ j - x \in 0..lx - x
      BY <2>2, <3>1, <3>2
    <3>4. c = <<i - y, j - x, x + (j - x), y + (i - y)>>
      BY <3>1, <3>2
    <3> QED  BY <2>3, <3>3, <3>4
  <2> QED  BY <2>4, <2>5
<1> QED  BY <1>1, <1>2
-----------------------------------------------------------------------------
(* A rectangle of lcd_baseshow is the border of its part on the screen,    *)
(* and a filled one is all of it.                                          *)
LEMMA MovedLines ==
    ASSUME NEW x \in Columns, NEW y \in Rows, NEW x1 \in Columns, NEW y1 \in Rows
    PROVE  /\ x <= x1 => MovedLine(x, y, 1, x1 - x + 1) = (x..x1) \X {y}
           /\ y <= y1 => MovedLine(x, y + 1, 0, y1 - y - 1) = {x} \X (y + 1..y1 - 1)
<1> USE SizeAssumption DEF Columns, Rows
<1>1. ASSUME x <= x1 PROVE MovedLine(x, y, 1, x1 - x + 1) = (x..x1) \X {y}
  <2>1. InColumns(x) = x /\ InRows(y) = y /\ InColumns(x + (x1 - x + 1) - 1) = x1
    BY <1>1 DEF InColumns, InRows, Smaller
  <2>2. MovedLine(x, y, 1, x1 - x + 1) = Horizontal(x, x1, y)
    BY <2>1 DEF MovedLine
  <2> QED  BY <2>2 DEF Horizontal
<1>2. ASSUME y <= y1 PROVE MovedLine(x, y + 1, 0, y1 - y - 1) = {x} \X (y + 1..y1 - 1)
  <2> DEFINE first == InRows(y + 1)
             last  == InRows(first + (y1 - y - 1) - 1)
  <2>1. InColumns(x) = x /\ first \in Int /\ last \in Int
    BY DEF InColumns, InRows, Smaller
  <2>2. \A j \in Int : j \in first..last <=> j \in y + 1..y1 - 1
    BY <1>2 DEF InRows, Smaller
  <2>3. first..last = y + 1..y1 - 1
    BY <2>1, <2>2
  <2>4. MovedLine(x, y + 1, 0, y1 - y - 1) = Vertical(x, first, last)
    BY <2>1 DEF MovedLine
  <2> HIDE DEF first, last
  <2>5. Vertical(x, first, last) = {<<x, j>> : j \in y + 1..y1 - 1}
    BY <2>3 DEF Vertical
  <2>6. {<<x, j>> : j \in y + 1..y1 - 1} = {x} \X (y + 1..y1 - 1)
    OBVIOUS
  <2> QED  BY <2>4, <2>5, <2>6
<1> QED  BY <1>1, <1>2

THEOREM RectangleIsBorder ==
    ASSUME NEW x \in Nat, NEW y \in Nat, NEW x1 \in Nat, NEW y1 \in Nat,
           x <= x1, y <= y1
    PROVE  DrawRectangle(x, y, x1, y1)
               = Border(InColumns(x), InRows(y), InColumns(x1), InRows(y1))
<1> DEFINE a == InColumns(x)   b == InColumns(x1)
           c == InRows(y)      d == InRows(y1)
<1>1. a \in Columns /\ b \in Columns /\ c \in Rows /\ d \in Rows /\ a <= b /\ c <= d
  BY SizeAssumption DEF InColumns, InRows, Smaller, Columns, Rows
<1>2. DrawRectangle(x, y, x1, y1)
          = MovedLine(a, c, 1, b - a + 1) \union MovedLine(a, d, 1, b - a + 1)
                \union MovedLine(a, c + 1, 0, d - c - 1) \union MovedLine(b, c + 1, 0, d - c - 1)
  BY DEF DrawRectangle
<1> HIDE DEF a, b, c, d
<1>3. DrawRectangle(x, y, x1, y1)
          = ((a..b) \X {c}) \union ((a..b) \X {d})
                \union ({a} \X (c + 1..d - 1)) \union ({b} \X (c + 1..d - 1))
  BY <1>1, <1>2, MovedLines
<1>4. /\ c \in c..d /\ d \in c..d /\ a \in a..b /\ b \in a..b
      /\ \A j \in c..d : j \in {c, d} \/ j \in c + 1..d - 1
      /\ c + 1..d - 1 \subseteq c..d
  BY <1>1 DEF Columns, Rows
<1>5. ASSUME NEW e \in DrawRectangle(x, y, x1, y1) PROVE e \in Border(a, c, b, d)
  BY <1>3, <1>4, <1>5 DEF Border
<1>6. ASSUME NEW e \in Border(a, c, b, d) PROVE e \in DrawRectangle(x, y, x1, y1)
  <2>1. PICK i \in a..b, j \in c..d : e = <<i, j>>
    BY <1>6 DEF Border
  <2>2. i \in {a, b} \/ j \in {c, d}
    BY <1>6, <2>1 DEF Border
  <2> QED  BY <1>3, <1>4, <2>1, <2>2
<1>7. DrawRectangle(x, y, x1, y1) = Border(a, c, b, d)
  BY <1>5, <1>6
<1> QED  BY <1>7 DEF a, b, c, d

THEOREM PointIsBorder ==
    ASSUME NEW x \in Nat, NEW y \in Nat
    PROVE  DrawPoint(x, y) = Border(InColumns(x), InRows(y), InColumns(x), InRows(y))
<1>1. InColumns(x) \in Int /\ InRows(y) \in Int
  BY SizeAssumption DEF InColumns, InRows, Smaller
<1>2. \A i \in Int : i..i = {i}
  OBVIOUS
<1> QED  BY <1>1, <1>2 DEF DrawPoint, Border
-----------------------------------------------------------------------------
(* Of a JPEG or PNG image the visible part is shown, pixel by pixel.       *)
THEOREM ImageIsShown ==
    ASSUME NEW w \in Nat, NEW h \in Nat
    PROVE  ShowJpeg(w, h) = VisibleBitmap(0, 0, w, h) /\ ShowPng(w, h) = VisibleBitmap(0, 0, w, h)
<1>1. /\ 0..Smaller(h, height) - 1 = {i \in Rows : 0 <= i /\ i < 0 + h}
      /\ 0..Smaller(w, width) - 1 = {j \in Columns : 0 <= j /\ j < 0 + w}
  BY SizeAssumption DEF Smaller, Rows, Columns
<1>2. /\ \A i \in Rows : i - 0 = i
      /\ \A j \in Columns : j - 0 = j
  BY SizeAssumption DEF Rows, Columns
<1>3. VisibleBitmap(0, 0, w, h)
          = {<<i, j, j, i>> : i \in {i \in Rows : 0 <= i /\ i < 0 + h},
                              j \in {j \in Columns : 0 <= j /\ j < 0 + w}}
  BY <1>2 DEF VisibleBitmap
<1> QED  BY <1>1, <1>3 DEF ShowJpeg, ShowPng

(* What is read of a BMP file.                                             *)
LEMMA DivisionIsUnique ==
    ASSUME NEW s \in Nat, NEW r \in Nat, NEW q \in 0..s - 1
    PROVE  (r * s + q) \div s = r /\ (r * s + q) % s = q
<1> DEFINE a == r * s + q
           d == a \div s
           m == a % s
<1>1. s > 0 /\ a \in Int
  OBVIOUS
<1>2. d \in Int /\ m \in 0..s - 1 /\ a = s * d + m
  BY <1>1
<1> HIDE DEF d, m
<1>3. ASSUME d > r PROVE FALSE
  <2>1. s * d >= s * (r + 1)
    BY <1>1, <1>2, <1>3
  <2>2. s * (r + 1) = r * s + s
    OBVIOUS
  <2> QED  BY <1>1, <1>2, <2>1, <2>2
<1>4. ASSUME d < r PROVE FALSE
  <2>1. s * r >= s * (d + 1)
    BY <1>1, <1>2, <1>4
  <2>2. s * (d + 1) = s * d + s
    BY <1>2
  <2> QED  BY <1>1, <1>2, <2>1, <2>2
<1>5. d = r
  BY <1>2, <1>3, <1>4
<1> QED  BY <1>1, <1>2, <1>5 DEF d, m

LEMMA PixelIsRead ==
    ASSUME NEW w \in Nat, NEW rows \in Nat, NEW q \in 0..w - 1, w % 2 = 0 \/ rows = 0
    PROVE  PixelRead(w, rows, q) = <<rows, q>>
<1>1. CASE w % 2 = 0
  BY <1>1, DivisionIsUnique DEF PixelRead, Stride
<1>2. CASE rows = 0
  <2>1. Stride(w) \in Nat /\ q \in 0..Stride(w) - 1
    BY DEF Stride
  <2>2. rows * w + q = 0 * Stride(w) + q
    BY <1>2, <2>1
  <2>3. (0 * Stride(w) + q) \div Stride(w) = 0 /\ (0 * Stride(w) + q) % Stride(w) = q
    BY <2>1, DivisionIsUnique
  <2> QED  BY <1>2, <2>2, <2>3 DEF PixelRead
<1> QED  BY <1>1, <1>2

LEMMA PixelIsAnother ==
    ASSUME NEW w \in Nat, NEW rows \in Nat, w % 2 = 1, rows > 0
    PROVE  PixelRead(w, rows, 0) # <<rows, 0>>
<1> SUFFICES ASSUME PixelRead(w, rows, 0) = <<rows, 0>> PROVE FALSE
  OBVIOUS
<1>1. (rows * w + 0) \div (w + 1) = rows /\ (rows * w + 0) % (w + 1) = 0
  BY DEF PixelRead, Stride
<1>2. rows * w + 0 \in Int /\ w + 1 > 0
  OBVIOUS
<1> DEFINE at == rows * w + 0
<1>3. at = (w + 1) * (at \div (w + 1)) + (at % (w + 1))
  BY <1>2
<1>4. rows * w = (w + 1) * rows
  BY <1>1, <1>3
<1> QED  BY <1>4

LEMMA VisibleCorner ==
    ASSUME NEW w \in Nat, NEW h \in Nat
    PROVE  VisibleBitmap(0, 0, w, h)
               = {<<i, j, j, i>> : i \in 0..Smaller(h, height) - 1, j \in 0..Smaller(w, width) - 1}
BY ImageIsShown DEF ShowJpeg

(* A BMP file with an even number of columns, or of which only the first   *)
(* row of the file is read, is shown as it is.                             *)
THEOREM BmpIsShown ==
    ASSUME NEW w \in Nat, NEW h \in Nat, NEW bottomUp \in BOOLEAN,
           w % 2 = 0 \/ ~ReadsOn(w, h, bottomUp)
    PROVE  ShowBmp(w, h, bottomUp) = VisibleBitmap(0, 0, w, h)
<1> DEFINE min     == Smaller(h, height)
           wide    == Smaller(w, width)
           skipped == IF bottomUp THEN h - min ELSE 0
           row(i)  == RowOf(i, min, bottomUp)
<1>1. /\ min \in Nat /\ wide \in Nat /\ skipped \in Nat /\ min <= h /\ wide <= w
      /\ bottomUp => skipped = h - min
      /\ ~bottomUp => skipped = 0
      /\ min > 0 => h > 0
  BY SizeAssumption DEF Smaller
<1>2. ASSUME NEW i \in 0..min - 1 PROVE w % 2 = 0 \/ skipped + i = 0
  <2>1. ~ReadsOn(w, h, bottomUp) => h <= 1 \/ (~bottomUp /\ height = 1)
    BY SizeAssumption DEF ReadsOn
  <2>2. h <= 1 \/ (~bottomUp /\ height = 1) => skipped + i = 0
    BY SizeAssumption DEF Smaller
  <2> QED  BY <2>1, <2>2
<1>3. \A i \in 0..min - 1 : RowOf(skipped + i, h, bottomUp) = row(i) /\ row(i) \in 0..min - 1
                            /\ row(row(i)) = i
  BY <1>1 DEF RowOf
<1>4. ShowBmp(w, h, bottomUp)
          = {<<RowOf(PixelRead(w, skipped + i, q)[1], h, bottomUp),
               PixelRead(w, skipped + i, q)[2], q, row(i)>> : i \in 0..min - 1, q \in 0..wide - 1}
  BY DEF ShowBmp
<1>5. VisibleBitmap(0, 0, w, h) = {<<i, j, j, i>> : i \in 0..min - 1, j \in 0..wide - 1}
  BY VisibleCorner
<1> HIDE DEF min, wide, skipped, row
<1>6. ASSUME NEW i \in 0..min - 1, NEW q \in 0..wide - 1
      PROVE  PixelRead(w, skipped + i, q) = <<skipped + i, q>>
  <2>1. skipped + i \in Nat /\ q \in 0..w - 1
    BY <1>1
  <2> QED  BY <2>1, <1>2, PixelIsRead
<1>7. ShowBmp(w, h, bottomUp) = {<<row(i), q, q, row(i)>> : i \in 0..min - 1, q \in 0..wide - 1}
  BY <1>3, <1>4, <1>6
<1>8. ASSUME NEW c \in ShowBmp(w, h, bottomUp) PROVE c \in VisibleBitmap(0, 0, w, h)
  BY <1>3, <1>5, <1>7, <1>8
<1>9. ASSUME NEW c \in VisibleBitmap(0, 0, w, h) PROVE c \in ShowBmp(w, h, bottomUp)
  <2>1. PICK i \in 0..min - 1, j \in 0..wide - 1 : c = <<i, j, j, i>>
    BY <1>5, <1>9
  <2>2. c = <<row(row(i)), j, j, row(row(i))>> /\ row(i) \in 0..min - 1
    BY <2>1, <1>3
  <2> QED  BY <2>2, <1>7
<1> QED  BY <1>8, <1>9

(* A BMP file with an odd number of columns is slanted otherwise: of one   *)
(* of its rows the first pixel is not where it belongs.                    *)
THEOREM BmpIsSlanted ==
    ASSUME NEW w \in Nat, NEW h \in Nat, NEW bottomUp \in BOOLEAN,
           w % 2 = 1, ReadsOn(w, h, bottomUp)
    PROVE  ShowBmp(w, h, bottomUp) # VisibleBitmap(0, 0, w, h)
<1> DEFINE min     == Smaller(h, height)
           skipped == IF bottomUp THEN h - min ELSE 0
           i       == IF skipped > 0 THEN 0 ELSE 1
           pixel   == PixelRead(w, skipped + i, 0)
           cell    == <<RowOf(pixel[1], h, bottomUp), pixel[2], 0, RowOf(i, min, bottomUp)>>
<1>1. w > 0 /\ h > 1 /\ (bottomUp \/ height > 1)
  BY DEF ReadsOn
<1>2. /\ min \in Nat /\ skipped \in Nat /\ i \in 0..min - 1 /\ skipped + i > 0
      /\ 0 \in 0..Smaller(w, width) - 1
      /\ bottomUp => skipped = h - min
      /\ ~bottomUp => skipped = 0
  BY <1>1, SizeAssumption DEF Smaller
<1>3. cell \in ShowBmp(w, h, bottomUp)
  BY <1>2 DEF ShowBmp
<1>4. pixel = <<pixel[1], pixel[2]>> /\ pixel[1] \in Int /\ pixel[2] \in Int
  <2>1. (skipped + i) * w + 0 \in Int /\ Stride(w) \in Nat /\ Stride(w) > 0
    BY <1>1, <1>2 DEF Stride
  <2> QED  BY <2>1 DEF PixelRead
<1>5. pixel # <<skipped + i, 0>>
  BY <1>2, PixelIsAnother
<1> HIDE DEF min, skipped, i, pixel
<1>6. ASSUME cell \in VisibleBitmap(0, 0, w, h) PROVE FALSE
  <2>1. pixel[2] = 0 /\ RowOf(pixel[1], h, bottomUp) = RowOf(i, min, bottomUp)
    <3> HIDE DEF cell
    <3>1. PICK p \in 0..Smaller(h, height) - 1, q \in 0..Smaller(w, width) - 1 :
              cell = <<p, q, q, p>>
      BY <1>6, VisibleCorner
    <3> QED  BY <3>1 DEF cell
  <2>2. pixel[1] = skipped + i
    BY <2>1, <1>2, <1>4 DEF RowOf
  <2> QED  BY <2>1, <2>2, <1>4, <1>5
<1> QED  BY <1>3, <1>6

(* The same of an image shown turned, of which every row is read.          *)
THEOREM TurnedBmpIsShown ==
    ASSUME NEW w \in Nat, NEW h \in Nat, NEW bottomUp \in BOOLEAN,
           w % 2 = 0 \/ h <= 1
    PROVE  ShowTurnedBmp(w, h, bottomUp) = VisibleTurned(w, h)
<1> DEFINE rows    == 0..Smaller(h, width) - 1
           columns == 0..Smaller(w, height) - 1
<1>1. rows = {i \in Columns : i < h} /\ columns = {j \in Rows : j < w}
  BY SizeAssumption DEF Smaller, Rows, Columns
<1>2. ASSUME NEW i \in rows, NEW j \in columns
      PROVE  PixelRead(w, RowOf(i, h, bottomUp), j) = <<RowOf(i, h, bottomUp), j>>
             /\ RowOf(RowOf(i, h, bottomUp), h, bottomUp) = i
  <2>1. /\ RowOf(i, h, bottomUp) \in Nat /\ j \in 0..w - 1
        /\ h <= 1 => RowOf(i, h, bottomUp) = 0
        /\ RowOf(RowOf(i, h, bottomUp), h, bottomUp) = i
    BY SizeAssumption DEF RowOf, Smaller
  <2> QED  BY <2>1, PixelIsRead
<1>3. ShowTurnedBmp(w, h, bottomUp)
          = {<<RowOf(PixelRead(w, RowOf(i, h, bottomUp), j)[1], h, bottomUp),
               PixelRead(w, RowOf(i, h, bottomUp), j)[2], i, height - 1 - j>> :
                 i \in rows, j \in columns}
  BY DEF ShowTurnedBmp
<1> HIDE DEF rows, columns
<1>4. ShowTurnedBmp(w, h, bottomUp) = {<<i, j, i, height - 1 - j>> : i \in rows, j \in columns}
  BY <1>2, <1>3
<1> QED  BY <1>1, <1>4 DEF VisibleTurned

THEOREM TurnedBmpIsSlanted ==
    ASSUME NEW w \in Nat, NEW h \in Nat, NEW bottomUp \in BOOLEAN,
           w % 2 = 1, h > 1, bottomUp \/ width > 1
    PROVE  ShowTurnedBmp(w, h, bottomUp) # VisibleTurned(w, h)
<1> DEFINE i     == IF bottomUp THEN 0 ELSE 1
           row   == RowOf(i, h, bottomUp)
           pixel == PixelRead(w, row, 0)
           cell  == <<RowOf(pixel[1], h, bottomUp), pixel[2], i, height - 1 - 0>>
<1>1. row \in Nat /\ row > 0
  BY DEF RowOf
<1>2. i \in 0..Smaller(h, width) - 1 /\ 0 \in 0..Smaller(w, height) - 1
  BY SizeAssumption DEF Smaller
<1>3. cell \in ShowTurnedBmp(w, h, bottomUp)
  <2> HIDE DEF i
  <2> QED  BY <1>2 DEF ShowTurnedBmp
<1>4. pixel = <<pixel[1], pixel[2]>> /\ pixel[1] \in Int /\ pixel[2] \in Int
  <2>1. row * w + 0 \in Int /\ Stride(w) \in Nat /\ Stride(w) > 0
    BY <1>1 DEF Stride
  <2> QED  BY <2>1 DEF PixelRead
<1>5. pixel # <<row, 0>>
  BY <1>1, PixelIsAnother
<1> HIDE DEF pixel
<1>6. ASSUME cell \in VisibleTurned(w, h) PROVE FALSE
  <2>1. PICK p \in {p \in Columns : p < h}, q \in {q \in Rows : q < w} :
            cell = <<p, q, p, height - 1 - q>>
    <3> HIDE DEF cell
    <3> QED  BY <1>6 DEF VisibleTurned
  <2>2. p = i /\ q = 0
    BY <2>1, SizeAssumption DEF Rows, Columns
  <2>3. pixel[2] = 0 /\ RowOf(pixel[1], h, bottomUp) = i
    BY <2>1, <2>2
  <2>4. pixel[1] = row
    BY <2>3, <1>4 DEF RowOf
  <2> QED  BY <2>3, <2>4, <1>4, <1>5
<1> QED  BY <1>3, <1>6
-----------------------------------------------------------------------------
FileInv ==
    /\ lines \in Nat /\ n \in Nat /\ n <= lines
    /\ file \in [1..lines -> Names]
    /\ china_str \in [Places -> 0..n]

(* What is left in a place is from the latest name that reached it.        *)
LatestInv ==
    \A p \in Places : \A m \in 1..n :
        china_str[p] = m => /\ p <= file[m].length
                            /\ \A k \in m + 1..n : file[k].length < p

(* The latest name is in its places, with its null behind it if wide.      *)
LastInv ==
    n > 0 => /\ \A p \in 1..file[n].length : china_str[p] = n
             /\ file[n].chars = "wide" => china_str[file[n].length + 1] = 0

(* A narrow name leaves the tail of the name before it alone.              *)
BeforeInv ==
    n > 1 /\ file[n].chars = "narrow"
    => \A p \in 1..file[n - 1].length : china_str[p] \in {n - 1, n}

IInv == FileInv /\ LatestInv /\ LastInv /\ BeforeInv

LEMMA NameFacts ==
    ASSUME NEW name \in Names
    PROVE  /\ name.length \in Nat /\ name.length <= Size - 2
           /\ name.chars = "wide" => name.length + 1 \in Places
           /\ name.chars \in {"narrow", "wide"}
BY BufferSizeAssumption DEF Names, Places

LEMMA InitIInv == Init => IInv
BY LinesAssumption DEF Init, IInv, FileInv, LatestInv, LastInv, BeforeInv

LEMMA DrawIInv == IInv /\ Draw => IInv'
<1> SUFFICES ASSUME IInv, Draw PROVE IInv'
  OBVIOUS
<1> DEFINE name == file[n + 1]
<1>1. /\ n < lines /\ n' = n + 1 /\ UNCHANGED <<file, lines>>
      /\ china_str' = Convert(name, n + 1)
  BY DEF Draw
<1>2. lines \in Nat /\ n \in Nat /\ Size \in Nat /\ china_str \in [Places -> 0..n]
  BY BufferSizeAssumption DEF IInv, FileInv
<1>3. \A k \in 1..lines : file[k] \in Names
  BY DEF IInv, FileInv
<1>4. name \in Names
  BY <1>1, <1>2, <1>3
<1>5. \A k \in 1..lines : file[k].length \in Nat /\ file[k].length <= Size - 2
  BY <1>3, NameFacts
<1>6. ASSUME NEW p \in Places
      PROVE  /\ p <= name.length => china_str'[p] = n + 1
             /\ p > name.length /\ ~(p = name.length + 1 /\ name.chars = "wide")
                => china_str'[p] = china_str[p]
             /\ p = name.length + 1 /\ name.chars = "wide" => china_str'[p] = 0
  BY <1>1, <1>2, <1>4, NameFacts DEF Convert, Places
<1>7. FileInv'
  BY <1>1, <1>2 DEF IInv, FileInv, Convert
<1>8. LatestInv'
  <2> SUFFICES ASSUME NEW p \in Places, NEW m \in 1..n + 1, china_str'[p] = m
               PROVE  /\ p <= file[m].length
                      /\ \A k \in m + 1..n + 1 : file[k].length < p
    BY <1>1 DEF LatestInv
  <2>1. CASE p <= name.length
    BY <2>1, <1>2, <1>6 DEF Places
  <2>2. CASE p > name.length
    <3>1. china_str[p] = m /\ m \in 1..n
      BY <2>2, <1>2, <1>4, <1>6, NameFacts DEF Places
    <3>2. p <= file[m].length /\ \A k \in m + 1..n : file[k].length < p
      BY <3>1 DEF IInv, LatestInv
    <3>3. QED
      BY <3>2, <2>2, <1>2, <3>1
  <2>3. QED
    BY <2>1, <2>2, <1>4, NameFacts DEF Places
<1>9. LastInv'
  BY <1>1, <1>2, <1>4, <1>6, NameFacts DEF LastInv, Places
<1>10. BeforeInv'
  <2> SUFFICES ASSUME n + 1 > 1, name.chars = "narrow",
                      NEW p \in 1..file[n].length
               PROVE  china_str'[p] \in {n, n + 1}
    BY <1>1, <1>2 DEF BeforeInv
  <2>1. p \in Places /\ china_str[p] = n
    BY <1>1, <1>2, <1>5 DEF IInv, LastInv, Places
  <2>2. QED
    BY <2>1, <1>2, <1>4, <1>6, NameFacts DEF Places
<1>11. QED
  BY <1>7, <1>8, <1>9, <1>10 DEF IInv

LEMMA NextIInv == IInv /\ [Next]_vars => IInv'
<1> SUFFICES ASSUME IInv, [Next]_vars PROVE IInv'
  OBVIOUS
<1>1. CASE Draw
  BY <1>1, DrawIInv
<1>2. CASE Open \/ EndOfFile \/ Ended \/ UNCHANGED vars
  BY <1>2 DEF Open, EndOfFile, Ended, vars, IInv, FileInv, LatestInv, LastInv, BeforeInv
<1>3. QED
  BY <1>1, <1>2 DEF Next

THEOREM Invariance == Spec => []IInv
BY InitIInv, NextIInv, PTL DEF Spec

(* In every name drawn, a character of another name lies behind the end of *)
(* the last one, which has no wide character, and is from the latest name  *)
(* that reached its place.                                                 *)
THEOREM TailsAreOld == Spec => []TailIsOld
<1>1. IInv => TailIsOld
  <2> SUFFICES ASSUME IInv, NEW p \in Shown
               PROVE  LET m == china_str[p]
                      IN  /\ p <= file[m].length
                          /\ m < n => p > file[n].length /\ file[n].chars = "narrow"
                          /\ \A k \in m + 1..n : file[k].length < p
    BY DEF TailIsOld
  <2> DEFINE m == china_str[p]
  <2>1. p \in Places /\ p \in 1..p /\ n \in Nat /\ m \in 1..n
    BY BufferSizeAssumption DEF IInv, FileInv, Shown, Places
  <2>2. p <= file[m].length /\ \A k \in m + 1..n : file[k].length < p
    BY <2>1 DEF IInv, LatestInv
  <2>3. ASSUME m < n PROVE p > file[n].length /\ file[n].chars = "narrow"
    <3>1. file[n] \in Names
      BY <2>1 DEF IInv, FileInv
    <3>2. file[n].length < p
      BY <2>1, <2>2, <2>3
    <3>3. file[n].chars = "wide" => china_str[file[n].length + 1] = 0
      BY <2>1 DEF IInv, LastInv
    <3>4. file[n].length + 1 \in 1..p
      BY <3>1, <3>2, <2>1, NameFacts DEF Places
    <3>5. china_str[file[n].length + 1] # 0
      BY <3>4 DEF Shown
    <3>6. QED
      BY <3>1, <3>2, <3>3, <3>5, <2>1, NameFacts
  <2>4. QED
    BY <2>2, <2>3
<1>2. QED
  BY <1>1, Invariance, PTL

(* A name with a wide character, or as long as every name before it, is    *)
(* drawn as it is in the file.                                             *)
THEOREM NamesAreExact == Spec => []ExactNames
<1>1. IInv => ExactNames
  <2> SUFFICES ASSUME IInv, n > 0,
                      \/ file[n].chars = "wide"
                      \/ \A m \in 1..n - 1 : file[m].length <= file[n].length
               PROVE  Shown = 1..file[n].length
    BY DEF ExactNames
  <2>1. n \in Nat /\ Size \in Nat /\ \A m \in 1..n : file[m] \in Names
    BY BufferSizeAssumption DEF IInv, FileInv
  <2>2. \A m \in 1..n : file[m].length \in Nat /\ file[m].length <= Size - 2
    BY <2>1, NameFacts
  <2>3. /\ \A p \in 1..file[n].length : china_str[p] = n
        /\ file[n].chars = "wide" => china_str[file[n].length + 1] = 0
    BY DEF IInv, LastInv
  <2>4. ASSUME NEW p \in 1..file[n].length PROVE p \in Shown
    BY <2>1, <2>2, <2>3 DEF Shown, Places
  <2>5. ASSUME NEW p \in Shown PROVE p \in 1..file[n].length
    <3>1. /\ p \in Nat /\ p >= 1 /\ p \in Places
          /\ \A q \in 1..p : china_str[q] # 0
      BY <2>1 DEF Shown, Places
    <3>2. china_str[p] \in 1..n
      BY <3>1, <2>1 DEF IInv, FileInv
    <3>3. p <= file[china_str[p]].length
      BY <3>1, <3>2 DEF IInv, LatestInv
    <3>4. CASE file[n].chars = "wide"
      <4>1. ~(file[n].length + 1 \in 1..p)
        BY <3>1, <3>4, <2>3
      <4>2. QED
        BY <4>1, <3>1, <2>1, <2>2
    <3>5. CASE \A m \in 1..n - 1 : file[m].length <= file[n].length
      BY <3>1, <3>2, <3>3, <3>5, <2>1, <2>2
    <3>6. QED
      BY <3>4, <3>5
  <2>6. QED
    BY <2>4, <2>5
<1>2. QED
  BY <1>1, Invariance, PTL

(* A narrow name is always drawn with the tail of a longer name before it. *)
THEOREM TailsAreShown == Spec => []TailIsShown
<1>1. IInv => TailIsShown
  <2> SUFFICES ASSUME IInv, n > 1, file[n].chars = "narrow",
                      NEW p \in 1..file[n - 1].length
               PROVE  p \in Shown
    BY DEF TailIsShown
  <2>1. n \in Nat /\ n - 1 \in 1..lines /\ file[n - 1] \in Names
    BY DEF IInv, FileInv
  <2>2. file[n - 1].length \in Nat /\ file[n - 1].length <= Size - 2
    BY <2>1, NameFacts
  <2>3. \A q \in 1..file[n - 1].length : china_str[q] \in {n - 1, n}
    BY DEF IInv, BeforeInv
  <2>4. QED
    BY <2>1, <2>2, <2>3, BufferSizeAssumption DEF Shown, Places
<1>2. QED
  BY <1>1, Invariance, PTL
-----------------------------------------------------------------------------
(* Whatever is called, and with whatever arguments, what is drawn is what  *)
(* is to be drawn.  The star has a proof of its own below.                *)
Calls == LineCalls \union TargetCalls \union CharCalls \union GlyphCalls
                   \union ImageCalls \union ShapeCalls \union StarCalls

CallInv == call = <<"">> \/ call \in Calls
DrawnInv == DrawingIsCut /\ ImagesShown

LEMMA Arguments ==
    ASSUME call \in Calls
    PROVE  /\ call[1] \in {"line", "int_line"} => call \in LineCalls
           /\ call[1] \in {"target", "int_target"} => call \in TargetCalls
           /\ call[1] = "char" => call \in CharCalls
           /\ call[1] = "glyph" => call \in GlyphCalls
           /\ call[1] \in {"bmp", "bmp_top_down", "jpeg", "png", "turned", "turned_top_down"}
                  => call \in ImageCalls
           /\ call[1] \in {"point", "rectangle", "fill"} => call \in ShapeCalls
BY DEF Calls, LineCalls, TargetCalls, CharCalls, GlyphCalls, ImageCalls, ShapeCalls, StarCalls

LEMMA Bounds ==
    /\ \A x \in Near(width) : x \in Int /\ x >= -Margin
    /\ \A y \in Near(height) : y \in Int /\ y >= -Margin
    /\ Lengths \subseteq Nat /\ Sizes \subseteq Nat /\ Columns \subseteq Nat /\ Rows \subseteq Nat
    /\ Word \in Nat /\ width \in Nat /\ height \in Nat /\ Margin \in Nat
BY SizeAssumption, WordAssumption, MarginAssumption DEF Near, Lengths, Sizes, Columns, Rows

LEMMA LineCallsRight == call \in Calls /\ (Line \/ IntLine) => DrawnInv'
<1> SUFFICES ASSUME call \in Calls, Line \/ IntLine PROVE DrawnInv'
  OBVIOUS
<1>1. call \in LineCalls /\ call' = call /\ call[1] \in {"line", "int_line"}
  BY Arguments DEF Line, IntLine, Call
<1>2. /\ call[2] \in Near(width) /\ call[3] \in Near(height)
      /\ call[4] \in {0, 1} /\ call[5] \in Lengths
  BY <1>1 DEF LineCalls
<1>3. /\ call[2] \in Int /\ call[3] \in Int /\ call[5] \in Nat
      /\ call[2] + call[5] - 1 + Word >= width /\ call[3] + call[5] - 1 + Word >= height
  <2>1. /\ call[2] \in Int /\ call[2] >= -Margin
        /\ call[3] \in Int /\ call[3] >= -Margin /\ call[5] \in Nat
    BY <1>2, Bounds
  <2> QED  BY <2>1, Bounds, MarginAssumption
<1>4. LinesCut'
  <2>1. CASE Line
    <3>1. drawn' = DrawLine(call[2], call[3], call[4], call[5]) /\ call[1] = "line"
      BY <2>1 DEF Line, Call
    <3>2. CASE WrapsAround(call[2], call[3], call[4], call[5])
      <4>1. drawn' = IF call[4] = 1 THEN Columns \X {call[3]} ELSE {call[2]} \X Rows
        <5> DEFINE x == call[2]   y == call[3]   dir == call[4]   length == call[5]
        <5>1. /\ x \in Int /\ y \in Int /\ dir \in {0, 1} /\ length \in Nat
              /\ WrapsAround(x, y, dir, length) /\ drawn' = DrawLine(x, y, dir, length)
              /\ x + length - 1 + Word >= width /\ y + length - 1 + Word >= height
          BY <3>1, <3>2, <1>2, <1>3
        <5> HIDE DEF x, y, dir, length
        <5>2. drawn' = IF dir = 1 THEN Columns \X {y} ELSE {x} \X Rows
          BY <5>1, LineWrapsAround
        <5> QED  BY <5>2 DEF x, y, dir
      <4> QED  BY <4>1, <3>1, <3>2, <1>1 DEF LinesCut, Has
    <3>3. CASE ~WrapsAround(call[2], call[3], call[4], call[5])
      <4>1. drawn' = VisibleLine(call[2], call[3], call[4], call[5])
        BY <3>1, <3>3, <1>2, <1>3, LineIsCut
      <4> QED  BY <4>1, <3>1, <3>3, <1>1 DEF LinesCut, Has
    <3> QED  BY <3>2, <3>3
  <2>2. CASE IntLine
    <3>1. drawn' = VisibleLine(call[2], call[3], call[4], call[5]) /\ call[1] = "int_line"
      BY <2>2, <1>2, <1>3, IntLineIsCut DEF IntLine, Call
    <3> QED  BY <3>1, <1>1 DEF LinesCut, Has
  <2> QED  BY <2>1, <2>2
<1>5. (TargetsCut /\ BitmapsCut /\ RectanglesCut /\ ImagesShown)'
  BY <1>1 DEF TargetsCut, BitmapsCut, RectanglesCut, ImagesShown,
       Has
<1> QED  BY <1>4, <1>5 DEF DrawnInv, DrawingIsCut

LEMMA TargetCallsRight == call \in Calls /\ (Target \/ IntTarget) => DrawnInv'
<1> SUFFICES ASSUME call \in Calls, Target \/ IntTarget PROVE DrawnInv'
  OBVIOUS
<1>1. call \in TargetCalls /\ call' = call /\ call[1] \in {"target", "int_target"}
  BY Arguments DEF Target, IntTarget, Call
<1>2. call[2] \in Nat /\ call[3] \in Nat
  BY <1>1, Bounds DEF TargetCalls
<1>3. TargetsCut'
  BY <1>1, <1>2, TargetIsCut, IntTargetIsCut DEF TargetsCut, Has, Target, IntTarget, Call
<1>4. (LinesCut /\ BitmapsCut /\ RectanglesCut /\ ImagesShown)'
  BY <1>1 DEF LinesCut, BitmapsCut, RectanglesCut, ImagesShown,
       Has
<1> QED  BY <1>3, <1>4 DEF DrawnInv, DrawingIsCut

LEMMA BitmapCallsRight == call \in Calls /\ (Char \/ Glyph) => DrawnInv'
<1> SUFFICES ASSUME call \in Calls, Char \/ Glyph PROVE DrawnInv'
  OBVIOUS
<1>1. call \in CharCalls \union GlyphCalls /\ call' = call /\ call[1] \in {"char", "glyph"}
  BY Arguments DEF Char, Glyph, Call
<1>2. /\ call[2] \in Int /\ call[3] \in Int /\ call[4] \in Nat /\ call[5] \in Nat
      /\ call[1] = "char" => call[2] >= 0 /\ call[3] >= 0
  BY <1>1, Bounds DEF CharCalls, GlyphCalls
<1>3. BitmapsCut'
  BY <1>1, <1>2, CharIsCut, GlyphIsCut DEF BitmapsCut, Has, Char, Glyph, Call
<1>4. (LinesCut /\ TargetsCut /\ RectanglesCut /\ ImagesShown)'
  BY <1>1 DEF LinesCut, TargetsCut, RectanglesCut, ImagesShown,
       Has
<1> QED  BY <1>3, <1>4 DEF DrawnInv, DrawingIsCut

LEMMA ShapeCallsRight == call \in Calls /\ (Point \/ Rectangle \/ Fill) => DrawnInv'
<1> SUFFICES ASSUME call \in Calls, Point \/ Rectangle \/ Fill PROVE DrawnInv'
  OBVIOUS
<1>1. call \in ShapeCalls /\ call' = call /\ call[1] \in {"point", "rectangle", "fill"}
  BY Arguments DEF Point, Rectangle, Fill, Call
<1>2. call[2] \in Nat /\ call[3] \in Nat /\ call[4] \in Nat /\ call[5] \in Nat
  <2>1. /\ call[2] \in Near(width) /\ call[2] >= 0 /\ call[3] \in Near(height) /\ call[3] >= 0
        /\ call[4] \in Lengths /\ call[5] \in Lengths
    BY <1>1 DEF ShapeCalls
  <2>2. call[2] \in Int /\ call[3] \in Int /\ call[4] \in Nat /\ call[5] \in Nat
    BY <2>1, Bounds
  <2> QED  BY <2>1, <2>2
<1>3. /\ call[2] + call[4] \in Nat /\ call[2] <= call[2] + call[4]
      /\ call[3] + call[5] \in Nat /\ call[3] <= call[3] + call[5]
  BY <1>2
<1>4. RectanglesCut'
  <2>1. CASE Point
    BY <2>1, <1>1, <1>2, PointIsBorder DEF RectanglesCut, Has, Point, Call
  <2>2. CASE Rectangle
    <3>1. /\ drawn' = DrawRectangle(call[2], call[3], call[2] + call[4], call[3] + call[5])
          /\ call[1] = "rectangle"
      BY <2>2 DEF Rectangle, Call
    <3>2. drawn' = Border(InColumns(call[2]), InRows(call[3]),
                          InColumns(call[2] + call[4]), InRows(call[3] + call[5]))
      BY <3>1, <1>2, <1>3, RectangleIsBorder
    <3> QED  BY <3>1, <3>2, <1>1 DEF RectanglesCut, Has
  <2>3. CASE Fill
    BY <2>3, <1>1 DEF RectanglesCut, Has, Fill, Call, FillRectangle
  <2> QED  BY <2>1, <2>2, <2>3
<1>5. (LinesCut /\ TargetsCut /\ BitmapsCut /\ ImagesShown)'
  BY <1>1 DEF LinesCut, TargetsCut, BitmapsCut, ImagesShown,
       Has
<1> QED  BY <1>4, <1>5 DEF DrawnInv, DrawingIsCut

LEMMA ImageCallsRight ==
    call \in Calls /\ (Bmp \/ BmpTopDown \/ Jpeg \/ Png \/ Turned \/ TurnedTopDown) => DrawnInv'
<1> SUFFICES ASSUME call \in Calls,
                    Bmp \/ BmpTopDown \/ Jpeg \/ Png \/ Turned \/ TurnedTopDown
             PROVE  DrawnInv'
  OBVIOUS
<1> DEFINE w == call[4]   h == call[5]
<1>1. /\ call \in ImageCalls /\ call' = call
      /\ call[1] \in {"bmp", "bmp_top_down", "jpeg", "png", "turned", "turned_top_down"}
  BY Arguments DEF Bmp, BmpTopDown, Jpeg, Png, Turned, TurnedTopDown, Call
<1>2. w \in Nat /\ h \in Nat
  BY <1>1, Bounds DEF ImageCalls
<1>3. w % 2 \in {0, 1}
  BY <1>2
<1>4. ImagesShown'
  <2>1. CASE Bmp
    <3>1. drawn' = ShowBmp(w, h, TRUE) /\ call[1] = "bmp"
      BY <2>1 DEF Bmp, Call
    <3>2. w % 2 = 0 \/ ~ReadsOn(w, h, TRUE) => ShowBmp(w, h, TRUE) = VisibleBitmap(0, 0, w, h)
      BY <1>2, BmpIsShown
    <3>3. w % 2 = 1 /\ ReadsOn(w, h, TRUE) => ShowBmp(w, h, TRUE) # VisibleBitmap(0, 0, w, h)
      BY <1>2, BmpIsSlanted
    <3>4. drawn' = VisibleBitmap(0, 0, w, h) <=> ~(w % 2 = 1 /\ ReadsOn(w, h, TRUE))
      BY <3>1, <3>2, <3>3, <1>3
    <3> QED  BY <3>1, <3>4, <1>1 DEF ImagesShown,
       Has
  <2>2. CASE BmpTopDown
    <3>1. drawn' = ShowBmp(w, h, FALSE) /\ call[1] = "bmp_top_down"
      BY <2>2 DEF BmpTopDown, Call
    <3>2. w % 2 = 0 \/ ~ReadsOn(w, h, FALSE) => ShowBmp(w, h, FALSE) = VisibleBitmap(0, 0, w, h)
      BY <1>2, BmpIsShown
    <3>3. w % 2 = 1 /\ ReadsOn(w, h, FALSE) => ShowBmp(w, h, FALSE) # VisibleBitmap(0, 0, w, h)
      BY <1>2, BmpIsSlanted
    <3>4. drawn' = VisibleBitmap(0, 0, w, h) <=> ~(w % 2 = 1 /\ ReadsOn(w, h, FALSE))
      BY <3>1, <3>2, <3>3, <1>3
    <3> QED  BY <3>1, <3>4, <1>1 DEF ImagesShown,
       Has
  <2>3. CASE Jpeg \/ Png
    BY <2>3, <1>1, <1>2, ImageIsShown DEF ImagesShown, Has, Jpeg, Png, Call
  <2>4. CASE Turned
    <3>1. drawn' = ShowTurnedBmp(w, h, TRUE) /\ call[1] = "turned"
      BY <2>4 DEF Turned, Call
    <3>2. w % 2 = 0 \/ ~(h > 1) => ShowTurnedBmp(w, h, TRUE) = VisibleTurned(w, h)
      <4> HIDE DEF w, h
      <4>1. ~(h > 1) => h <= 1
        BY <1>2
      <4> QED  BY <1>2, <4>1, TurnedBmpIsShown
    <3>3. w % 2 = 1 /\ h > 1 => ShowTurnedBmp(w, h, TRUE) # VisibleTurned(w, h)
      BY <1>2, TurnedBmpIsSlanted
    <3>4. drawn' = VisibleTurned(w, h) <=> ~(w % 2 = 1 /\ h > 1)
      BY <3>1, <3>2, <3>3, <1>3
    <3> QED  BY <3>1, <3>4, <1>1 DEF ImagesShown,
       Has
  <2>5. CASE TurnedTopDown
    BY <2>5, <1>1, <1>2, <1>3, TurnedBmpIsShown DEF ImagesShown, Has, TurnedTopDown, Call
  <2> QED  BY <2>1, <2>2, <2>3, <2>4, <2>5
<1>5. (LinesCut /\ TargetsCut /\ BitmapsCut /\ RectanglesCut)'
  BY <1>1 DEF LinesCut, TargetsCut, BitmapsCut, RectanglesCut, Has
<1> QED  BY <1>4, <1>5 DEF DrawnInv, DrawingIsCut

LEMMA StarCallsApart == call \in Calls /\ StarDrawn => DrawnInv'
BY DEF StarDrawn, Call, DrawnInv, DrawingIsCut, LinesCut, TargetsCut, BitmapsCut, RectanglesCut,
       ImagesShown, Has

LEMMA SameCall == DrawnInv /\ UNCHANGED callVars => DrawnInv'
<1> SUFFICES ASSUME DrawnInv, UNCHANGED callVars PROVE DrawnInv'
  OBVIOUS
<1>1. call' = call /\ drawn' = drawn
  BY DEF callVars
<1>2. (LinesCut /\ TargetsCut)'
  BY <1>1 DEF DrawnInv, DrawingIsCut, LinesCut, TargetsCut, Has
<1>3. (BitmapsCut /\ RectanglesCut)'
  BY <1>1 DEF DrawnInv, DrawingIsCut, BitmapsCut, RectanglesCut, Has
<1>4. ImagesShown'
  BY <1>1 DEF DrawnInv, DrawingIsCut, ImagesShown,
       Has
<1> QED  BY <1>2, <1>3, <1>4 DEF DrawnInv, DrawingIsCut

LEMMA CallsInit == MCInit => CallInv /\ DrawnInv
<1> SUFFICES ASSUME MCInit PROVE CallInv /\ DrawnInv
  OBVIOUS
<1>1. CASE CallInit
  BY <1>1 DEF CallInit, CallInv, Calls, DrawnInv, DrawingIsCut, LinesCut, TargetsCut, BitmapsCut,
              RectanglesCut, ImagesShown,
       Has
<1>2. CASE NoCall
  BY <1>2 DEF NoCall, CallInv, DrawnInv, DrawingIsCut, LinesCut, TargetsCut, BitmapsCut,
              RectanglesCut, ImagesShown,
       Has
<1> QED  BY <1>1, <1>2 DEF MCInit

LEMMA CallsStep ==
    CallInv /\ DrawnInv /\ [MCNext]_<<which, callVars, vars, touchVars, singleVars>>
    => CallInv' /\ DrawnInv'
<1> SUFFICES ASSUME CallInv, DrawnInv,
                    [MCNext]_<<which, callVars, vars, touchVars, singleVars>>
             PROVE  CallInv' /\ DrawnInv'
  OBVIOUS
<1>1. CASE CallNext
  <2>1. call' = call
    BY <1>1 DEF CallNext, Line, IntLine, Target, IntTarget, Char, Glyph, Bmp, BmpTopDown, Jpeg,
                Png, Turned, TurnedTopDown, Point, Rectangle, Fill, StarDrawn, Call, callVars
  <2>2. CASE UNCHANGED callVars
    BY <2>1, <2>2, SameCall DEF CallInv
  <2>3. CASE call = <<"">>
    <3>1. UNCHANGED callVars
      BY <1>1, <2>3 DEF CallNext, Line, IntLine, Target, IntTarget, Char, Glyph, Bmp, BmpTopDown,
              Jpeg, Png, Turned, TurnedTopDown, Point, Rectangle, Fill, StarDrawn, Call
    <3> QED  BY <3>1, <2>2
  <2>4. CASE call \in Calls /\ ~UNCHANGED callVars
    <3>1. DrawnInv'
      BY <1>1, <2>4, LineCallsRight, TargetCallsRight, BitmapCallsRight, ShapeCallsRight,
         ImageCallsRight, StarCallsApart DEF CallNext
    <3> QED  BY <2>1, <2>4, <3>1 DEF CallInv
  <2> QED  BY <2>2, <2>3, <2>4 DEF CallInv
<1>2. CASE UNCHANGED callVars
  BY <1>2, SameCall DEF CallInv, callVars
<1> QED  BY <1>1, <1>2 DEF MCNext

(* Lines, targets, bitmaps, points and rectangles are cut to the screen,   *)
(* whatever the sizes of the screen and the arguments.                     *)
THEOREM DrawingsAreCut == MCSpec => []DrawingIsCut
<1>1. DrawnInv => DrawingIsCut
  BY DEF DrawnInv
<1> QED  BY <1>1, CallsInit, CallsStep, PTL DEF MCSpec

(* Of every image the visible part is shown, but for the BMP files with an *)
(* odd number of columns, which are slanted unless one row is all that is  *)
(* read, and turned images with rows top down.                             *)
THEOREM ImagesAreShown == MCSpec => []ImagesShown
<1>1. DrawnInv => ImagesShown
  BY DEF DrawnInv
<1> QED  BY <1>1, CallsInit, CallsStep, PTL DEF MCSpec
-----------------------------------------------------------------------------
(* The star: where the strokes begin, seen from its top, and their points. *)
Begin == << <<0, 0>>, <<-64, 48>>, <<-60, 51>>, <<-25, 81>>, <<-36, 123>>,
            <<4, 99>>, <<39, 123>>, <<28, 75>>, <<16, 48>>, <<15, 45>> >>

PointsOf    == <<17, 16, 10, 16, 10, 10, 16, 10, 16, 15>>
Steps     == << <<-1, 3>>, <<3, 0>>, <<4, 3>>, <<-1, 3>>, <<4, -3>>,
                <<4, 3>>, <<-1, -3>>, <<4, -3>>, <<3, 0>>, <<-1, -3>> >>

Marks == {s \in (1..10) \X (0..16) : s[2] < PointsOf[s[1]]}

Right(a, j) == Begin[a][1] + j * Steps[a][1]
Down(a, j)  == Begin[a][2] + j * Steps[a][2]

Spot(s) == <<Right(s[1], s[2]), Down(s[1], s[2])>>
WholeStar == {Spot(s) : s \in Marks}

(* The index of a point of the star whose top is at row top and column mid. *)
At(top, mid, w, a, j) == (top + Down(a, j)) * w + (mid + Right(a, j))

LEMMA Numbers ==
    /\ \A a \in 1..10 : /\ PointsOf[a] \in 10..17
                        /\ Begin[a][1] \in Int /\ Begin[a][2] \in Nat
                        /\ Steps[a][1] \in Int /\ Steps[a][2] \in Int
    /\ Len(Strokes) = 10
    /\ \A a \in 1..10 : Strokes[a].count = PointsOf[a] /\ Strokes[a].by = Steps[a]
<1>1. Len(Strokes) = 10
  BY DEF Strokes
<1>2. ASSUME NEW a \in 1..10
      PROVE  /\ PointsOf[a] \in 10..17
             /\ Begin[a][1] \in Int /\ Begin[a][2] \in Nat
             /\ Steps[a][1] \in Int /\ Steps[a][2] \in Int
  <2>1. a \in {1, 2, 3, 4, 5, 6, 7, 8, 9, 10}
    OBVIOUS
  <2> QED  BY <2>1 DEF PointsOf, Begin, Steps
<1>3. ASSUME NEW a \in 1..10 PROVE Strokes[a].count = PointsOf[a] /\ Strokes[a].by = Steps[a]
  <2>1. a \in {1, 2, 3, 4, 5, 6, 7, 8, 9, 10}
    OBVIOUS
  <2>2. Strokes[a].count = PointsOf[a]
    BY <2>1 DEF PointsOf, Strokes
  <2>3. Strokes[a].by = Steps[a]
    BY <2>1, SMTT(30) DEF Steps, Strokes
  <2> QED  BY <2>2, <2>3
<1> QED  BY <1>1, <1>2, <1>3

(* A point's place, stroke by stroke.                                      *)
LEMMA Spots ==
    ASSUME NEW s \in Marks
    PROVE  /\ s[1] \in 1..10 /\ s[2] \in 0..16 /\ s[2] < PointsOf[s[1]]
           /\ Right(s[1], s[2]) \in -64..64 /\ Down(s[1], s[2]) \in 0..126
           /\ s[1] = 1 => Spot(s) = <<-s[2], 3 * s[2]>> /\ s[2] <= 16
           /\ s[1] = 2 => Spot(s) = <<3 * s[2] - 64, 48>> /\ s[2] <= 15
           /\ s[1] = 3 => Spot(s) = <<4 * s[2] - 60, 51 + 3 * s[2]>> /\ s[2] <= 9
           /\ s[1] = 4 => Spot(s) = <<-25 - s[2], 81 + 3 * s[2]>> /\ s[2] <= 15
           /\ s[1] = 5 => Spot(s) = <<4 * s[2] - 36, 123 - 3 * s[2]>> /\ s[2] <= 9
           /\ s[1] = 6 => Spot(s) = <<4 + 4 * s[2], 99 + 3 * s[2]>> /\ s[2] <= 9
           /\ s[1] = 7 => Spot(s) = <<39 - s[2], 123 - 3 * s[2]>> /\ s[2] <= 15
           /\ s[1] = 8 => Spot(s) = <<28 + 4 * s[2], 75 - 3 * s[2]>> /\ s[2] <= 9
           /\ s[1] = 9 => Spot(s) = <<16 + 3 * s[2], 48>> /\ s[2] <= 15
           /\ s[1] = 10 => Spot(s) = <<15 - s[2], 45 - 3 * s[2]>> /\ s[2] <= 14
<1>1. s[1] \in 1..10 /\ s[2] \in 0..16 /\ s[2] < PointsOf[s[1]]
  BY DEF Marks
<1>2. s[1] \in {1, 2, 3, 4, 5, 6, 7, 8, 9, 10}
  BY <1>1
<1> DEFINE inside == Right(s[1], s[2]) \in -64..64 /\ Down(s[1], s[2]) \in 0..126
<1>3. s[1] = 1 => inside /\ Spot(s) = <<-s[2], 3 * s[2]>> /\ s[2] <= 16
  BY <1>1 DEF Spot, Right, Down, PointsOf, Begin, Steps
<1>4. s[1] = 2 => inside /\ Spot(s) = <<3 * s[2] - 64, 48>> /\ s[2] <= 15
  BY <1>1 DEF Spot, Right, Down, PointsOf, Begin, Steps
<1>5. s[1] = 3 => inside /\ Spot(s) = <<4 * s[2] - 60, 51 + 3 * s[2]>> /\ s[2] <= 9
  BY <1>1 DEF Spot, Right, Down, PointsOf, Begin, Steps
<1>6. s[1] = 4 => inside /\ Spot(s) = <<-25 - s[2], 81 + 3 * s[2]>> /\ s[2] <= 15
  BY <1>1 DEF Spot, Right, Down, PointsOf, Begin, Steps
<1>7. s[1] = 5 => inside /\ Spot(s) = <<4 * s[2] - 36, 123 - 3 * s[2]>> /\ s[2] <= 9
  BY <1>1 DEF Spot, Right, Down, PointsOf, Begin, Steps
<1>8. s[1] = 6 => inside /\ Spot(s) = <<4 + 4 * s[2], 99 + 3 * s[2]>> /\ s[2] <= 9
  BY <1>1 DEF Spot, Right, Down, PointsOf, Begin, Steps
<1>9. s[1] = 7 => inside /\ Spot(s) = <<39 - s[2], 123 - 3 * s[2]>> /\ s[2] <= 15
  BY <1>1 DEF Spot, Right, Down, PointsOf, Begin, Steps
<1>10. s[1] = 8 => inside /\ Spot(s) = <<28 + 4 * s[2], 75 - 3 * s[2]>> /\ s[2] <= 9
  BY <1>1 DEF Spot, Right, Down, PointsOf, Begin, Steps
<1>11. s[1] = 9 => inside /\ Spot(s) = <<16 + 3 * s[2], 48>> /\ s[2] <= 15
  BY <1>1 DEF Spot, Right, Down, PointsOf, Begin, Steps
<1>12. s[1] = 10 => inside /\ Spot(s) = <<15 - s[2], 45 - 3 * s[2]>> /\ s[2] <= 14
  BY <1>1 DEF Spot, Right, Down, PointsOf, Begin, Steps
<1>13. inside
  <2> HIDE DEF inside
  <2>1. s[1] \in {1, 2, 3, 4, 5} => inside
    BY <1>3, <1>4, <1>5, <1>6, <1>7
  <2>2. s[1] \in {6, 7, 8, 9, 10} => inside
    BY <1>8, <1>9, <1>10, <1>11, <1>12
  <2> QED  BY <1>2, <2>1, <2>2
<1>14. /\ s[1] = 1 => Spot(s) = <<-s[2], 3 * s[2]>> /\ s[2] <= 16
       /\ s[1] = 2 => Spot(s) = <<3 * s[2] - 64, 48>> /\ s[2] <= 15
       /\ s[1] = 3 => Spot(s) = <<4 * s[2] - 60, 51 + 3 * s[2]>> /\ s[2] <= 9
       /\ s[1] = 4 => Spot(s) = <<-25 - s[2], 81 + 3 * s[2]>> /\ s[2] <= 15
       /\ s[1] = 5 => Spot(s) = <<4 * s[2] - 36, 123 - 3 * s[2]>> /\ s[2] <= 9
       /\ s[1] = 6 => Spot(s) = <<4 + 4 * s[2], 99 + 3 * s[2]>> /\ s[2] <= 9
       /\ s[1] = 7 => Spot(s) = <<39 - s[2], 123 - 3 * s[2]>> /\ s[2] <= 15
       /\ s[1] = 8 => Spot(s) = <<28 + 4 * s[2], 75 - 3 * s[2]>> /\ s[2] <= 9
       /\ s[1] = 9 => Spot(s) = <<16 + 3 * s[2], 48>> /\ s[2] <= 15
       /\ s[1] = 10 => Spot(s) = <<15 - s[2], 45 - 3 * s[2]>> /\ s[2] <= 14
  <2> HIDE DEF inside
  <2> QED  BY <1>3, <1>4, <1>5, <1>6, <1>7, <1>8, <1>9, <1>10, <1>11, <1>12
<1> QED  BY <1>1, <1>13, <1>14

LEMMA MarksAre ==
    ASSUME NEW a \in 1..10, NEW j \in Nat, j < PointsOf[a]
    PROVE  <<a, j>> \in Marks
BY Numbers DEF Marks

(* The strokes follow one another as the code says.                        *)
LEMMA NextStroke ==
    ASSUME NEW top \in Nat, NEW mid \in Nat, NEW w \in Nat, NEW m \in 2..10
    PROVE  Last(At(top, mid, w, m - 1, 0), Strokes[m - 1], w) + Index(Strokes[m].from, w)
              = At(top, mid, w, m, 0)
<1>1. m \in {2, 3, 4, 5, 6, 7, 8, 9, 10}
  OBVIOUS
<1>2. CASE m \in {2, 3, 4}
  BY <1>2 DEF At, Right, Down, Begin, Steps, Last, Index, Strokes
<1>3. CASE m \in {5, 6, 7}
  BY <1>3 DEF At, Right, Down, Begin, Steps, Last, Index, Strokes
<1>4. CASE m \in {8, 9, 10}
  BY <1>4 DEF At, Right, Down, Begin, Steps, Last, Index, Strokes
<1> QED  BY <1>1, <1>2, <1>3, <1>4

LEMMA FirstPoints ==
    ASSUME NEW w \in Nat, NEW h \in Nat
    PROVE  \A a \in 1..10 : First(w, h)[a] = At(h \div 6, w \div 2, w, a, 0)
<1> DEFINE top == h \div 6
           mid == w \div 2
           next(f, m) == IF m = 1 THEN top * w + mid
                         ELSE Last(f[m - 1], Strokes[m - 1], w) + Index(Strokes[m].from, w)
           rule(f) == [m \in 1..Len(Strokes) |-> next(f, m)]
           g == [m \in 1..10 |-> At(top, mid, w, m, 0)]
           first == CHOOSE f : f = rule(f)
<1>1. top \in Nat /\ mid \in Nat
  OBVIOUS
<1>2. First(w, h) = first
  BY DEF First
<1> HIDE DEF top, mid
<1>3. At(top, mid, w, 1, 0) = top * w + mid
  BY <1>1 DEF At, Right, Down, Begin, Steps
<1>4. g = rule(g)
  <2>1. \A m \in 1..10 : next(g, m) = g[m]
    <3> SUFFICES ASSUME NEW m \in 1..10 PROVE next(g, m) = g[m]
      OBVIOUS
    <3>1. CASE m = 1
      BY <3>1, <1>3
    <3>2. CASE m # 1
      <4>1. m \in 2..10 /\ m - 1 \in 1..10
        BY <3>2
      <4> QED  BY <4>1, <1>1, NextStroke
    <3> QED  BY <3>1, <3>2
  <2> QED  BY <2>1, Numbers
<1>5. first = rule(first)
  BY <1>4
<1> HIDE DEF first
<1>6. \A m \in 1..10 : first[m] = next(first, m)
  BY <1>5, Numbers
<1>7. first[1] = At(top, mid, w, 1, 0)
  BY <1>3, <1>6
<1>8. \A m \in 2..10 : first[m - 1] = At(top, mid, w, m - 1, 0) => first[m] = At(top, mid, w, m, 0)
  <2> SUFFICES ASSUME NEW m \in 2..10, first[m - 1] = At(top, mid, w, m - 1, 0)
               PROVE  first[m] = At(top, mid, w, m, 0)
    OBVIOUS
  <2>1. m \in 1..10 /\ m # 1
    OBVIOUS
  <2>2. next(first, m) = Last(first[m - 1], Strokes[m - 1], w) + Index(Strokes[m].from, w)
    BY <2>1
  <2>3. Last(At(top, mid, w, m - 1, 0), Strokes[m - 1], w) + Index(Strokes[m].from, w)
           = At(top, mid, w, m, 0)
    BY <1>1, NextStroke
  <2> HIDE DEF next
  <2> QED  BY <2>1, <2>2, <2>3, <1>6
<1> HIDE DEF next, g, rule
<1> DEFINE right(m) == first[m] = At(top, mid, w, m, 0)
<1>9. right(1) /\ \A m \in 2..10 : right(m - 1) => right(m)
  BY <1>7, <1>8
<1> HIDE DEF right
<1>10. /\ right(1) => right(2)
       /\ right(2) => right(3)
       /\ right(3) => right(4)
       /\ right(4) => right(5)
       /\ right(5) => right(6)
  BY <1>9
<1>11. /\ right(6) => right(7)
       /\ right(7) => right(8)
       /\ right(8) => right(9)
       /\ right(9) => right(10)
  BY <1>9
<1>12. \A a \in 1..10 : right(a)
  <2> SUFFICES ASSUME NEW a \in 1..10 PROVE right(a)
    OBVIOUS
  <2>1. a \in {1, 2, 3, 4, 5, 6, 7, 8, 9, 10}
    OBVIOUS
  <2> QED  BY <2>1, <1>9, <1>10, <1>11
<1> QED  BY <1>2, <1>12 DEF right, top, mid

LEMMA PointsAre ==
    ASSUME NEW w \in Nat, NEW h \in Nat
    PROVE  StarPoints(w, h) = {At(h \div 6, w \div 2, w, s[1], s[2]) : s \in Marks}
<1> DEFINE top == h \div 6
           mid == w \div 2
<1>1. top \in Nat /\ mid \in Nat
  OBVIOUS
<1>2. Marks = {s \in (1..Len(Strokes)) \X (0..16) : s[2] < Strokes[s[1]].count}
  BY Numbers DEF Marks
<1>3. ASSUME NEW s \in Marks
      PROVE  First(w, h)[s[1]] + s[2] * Index(Strokes[s[1]].by, w) = At(top, mid, w, s[1], s[2])
  <2> DEFINE a == s[1]   j == s[2]
  <2>1. a \in 1..10 /\ j \in Nat
    BY DEF Marks
  <2>2. First(w, h)[a] = At(top, mid, w, a, 0)
    BY <2>1, FirstPoints
  <2>3. Strokes[a].by = Steps[a]
    BY <2>1, Numbers
  <2>4. Begin[a][1] \in Int /\ Begin[a][2] \in Int /\ Steps[a][1] \in Int /\ Steps[a][2] \in Int
    BY <2>1, Numbers
  <2> HIDE DEF a, j, top, mid
  <2>5. At(top, mid, w, a, 0) + j * Index(Steps[a], w) = At(top, mid, w, a, j)
    BY <2>1, <2>4, <1>1 DEF At, Right, Down, Index
  <2> QED  BY <2>2, <2>3, <2>5 DEF a, j
<1> QED  BY <1>2, <1>3 DEF StarPoints, top, mid

(* On a screen that is wide enough every point of the star is at its place, *)
(* unless it is below the last row.                                        *)
LEMMA WideStar ==
    ASSUME NEW w \in Nat, NEW h \in Nat, w >= 129
    PROVE  Star(w, h) = {Spot(s) : s \in {s \in Marks : h \div 6 + Down(s[1], s[2]) < h}}
<1> DEFINE top == h \div 6
           mid == w \div 2
           place(p) == <<(p % w) - mid, (p \div w) - top>>
           at(s) == At(top, mid, w, s[1], s[2])
           seen == {s \in Marks : top + Down(s[1], s[2]) < h}
<1>1. top \in Nat /\ mid \in Nat /\ mid >= 64 /\ mid + 64 < w
  OBVIOUS
<1>2. StarPoints(w, h) = {at(s) : s \in Marks}
  BY PointsAre
<1>3. Star(w, h) = {place(p) : p \in StarPoints(w, h) \cap 0..w * h - 1}
  BY DEF Star
<1> HIDE DEF top, mid
<1>4. ASSUME NEW s \in Marks
      PROVE  place(at(s)) = Spot(s) /\ (at(s) \in 0..w * h - 1 <=> s \in seen)
  <2> DEFINE r == top + Down(s[1], s[2])
             q == mid + Right(s[1], s[2])
  <2>1. Right(s[1], s[2]) \in -64..64 /\ Down(s[1], s[2]) \in 0..126
    BY Spots
  <2>2. r \in Nat /\ q \in 0..w - 1 /\ at(s) = r * w + q
    BY <2>1, <1>1 DEF At
  <2>3. at(s) \div w = r /\ at(s) % w = q
    <3> HIDE DEF r, q, at
    <3> QED  BY <2>2, DivisionIsUnique
  <2>4. place(at(s)) = Spot(s)
    BY <2>1, <2>3, <1>1 DEF Spot
  <2>5. r * w + q \in 0..w * h - 1 <=> r < h
    <3> HIDE DEF r, q, at
    <3>1. CASE r < h
      <4>1. (r + 1) * w <= h * w
        BY <2>2, <3>1
      <4> QED  BY <2>2, <3>1, <4>1
    <3>2. CASE r >= h
      <4>1. r * w >= h * w
        BY <2>2, <3>2
      <4>2. h * w = w * h
        OBVIOUS
      <4> QED  BY <2>2, <3>2, <4>1, <4>2
    <3> QED  BY <2>2, <3>1, <3>2
  <2> QED  BY <2>2, <2>4, <2>5
<1> HIDE DEF at, place
<1>5. {place(p) : p \in {at(s) : s \in Marks} \cap 0..w * h - 1} = {Spot(s) : s \in seen}
  <2>1. ASSUME NEW c \in {place(p) : p \in {at(s) : s \in Marks} \cap 0..w * h - 1}
        PROVE  c \in {Spot(s) : s \in seen}
    <3>1. PICK s \in Marks : at(s) \in 0..w * h - 1 /\ c = place(at(s))
      OBVIOUS
    <3>2. s \in seen /\ c = Spot(s)
      BY <3>1, <1>4
    <3> QED  BY <3>2
  <2>2. ASSUME NEW s \in seen
        PROVE  Spot(s) \in {place(p) : p \in {at(z) : z \in Marks} \cap 0..w * h - 1}
    <3>1. s \in Marks /\ at(s) \in 0..w * h - 1 /\ place(at(s)) = Spot(s)
      BY <1>4
    <3> QED  BY <3>1
  <2> QED  BY <2>1, <2>2
<1> QED  BY <1>2, <1>3, <1>5 DEF top

(* The points of each stroke.                                              *)
LEMMA StrokePoints ==
    /\ \A k \in 0..16 : <<1, k>> \in Marks /\ Spot(<<1, k>>) = <<-k, 3 * k>>
    /\ \A k \in 0..15 : <<2, k>> \in Marks /\ Spot(<<2, k>>) = <<3 * k - 64, 48>>
    /\ \A k \in 0..9 : <<3, k>> \in Marks /\ Spot(<<3, k>>) = <<4 * k - 60, 51 + 3 * k>>
    /\ \A k \in 0..15 : <<4, k>> \in Marks /\ Spot(<<4, k>>) = <<-25 - k, 81 + 3 * k>>
    /\ \A k \in 0..9 : <<5, k>> \in Marks /\ Spot(<<5, k>>) = <<4 * k - 36, 123 - 3 * k>>
    /\ \A k \in 0..9 : <<6, k>> \in Marks /\ Spot(<<6, k>>) = <<4 + 4 * k, 99 + 3 * k>>
    /\ \A k \in 0..15 : <<7, k>> \in Marks /\ Spot(<<7, k>>) = <<39 - k, 123 - 3 * k>>
    /\ \A k \in 0..9 : <<8, k>> \in Marks /\ Spot(<<8, k>>) = <<28 + 4 * k, 75 - 3 * k>>
    /\ \A k \in 0..15 : <<9, k>> \in Marks /\ Spot(<<9, k>>) = <<16 + 3 * k, 48>>
    /\ \A k \in 0..14 : <<10, k>> \in Marks /\ Spot(<<10, k>>) = <<15 - k, 45 - 3 * k>>
<1>1. ASSUME NEW k \in 0..16 PROVE <<1, k>> \in Marks /\ Spot(<<1, k>>) = <<-k, 3 * k>>
  <2>1. PointsOf[1] = 17
    BY DEF PointsOf
  <2>2. <<1, k>> \in Marks
    BY <2>1 DEF Marks
  <2> QED  BY <2>2 DEF Spot, Right, Down, Begin, Steps
<1>2. ASSUME NEW k \in 0..15 PROVE <<2, k>> \in Marks /\ Spot(<<2, k>>) = <<3 * k - 64, 48>>
  <2>1. PointsOf[2] = 16
    BY DEF PointsOf
  <2>2. <<2, k>> \in Marks
    BY <2>1 DEF Marks
  <2> QED  BY <2>2 DEF Spot, Right, Down, Begin, Steps
<1>3. ASSUME NEW k \in 0..9 PROVE <<3, k>> \in Marks /\ Spot(<<3, k>>) = <<4 * k - 60, 51 + 3 * k>>
  <2>1. PointsOf[3] = 10
    BY DEF PointsOf
  <2>2. <<3, k>> \in Marks
    BY <2>1 DEF Marks
  <2> QED  BY <2>2 DEF Spot, Right, Down, Begin, Steps
<1>4. ASSUME NEW k \in 0..15 PROVE <<4, k>> \in Marks /\ Spot(<<4, k>>) = <<-25 - k, 81 + 3 * k>>
  <2>1. PointsOf[4] = 16
    BY DEF PointsOf
  <2>2. <<4, k>> \in Marks
    BY <2>1 DEF Marks
  <2> QED  BY <2>2 DEF Spot, Right, Down, Begin, Steps
<1>5. ASSUME NEW k \in 0..9 PROVE <<5, k>> \in Marks /\ Spot(<<5, k>>) = <<4 * k - 36, 123 - 3 * k>>
  <2>1. PointsOf[5] = 10
    BY DEF PointsOf
  <2>2. <<5, k>> \in Marks
    BY <2>1 DEF Marks
  <2> QED  BY <2>2 DEF Spot, Right, Down, Begin, Steps
<1>6. ASSUME NEW k \in 0..9 PROVE <<6, k>> \in Marks /\ Spot(<<6, k>>) = <<4 + 4 * k, 99 + 3 * k>>
  <2>1. PointsOf[6] = 10
    BY DEF PointsOf
  <2>2. <<6, k>> \in Marks
    BY <2>1 DEF Marks
  <2> QED  BY <2>2 DEF Spot, Right, Down, Begin, Steps
<1>7. ASSUME NEW k \in 0..15 PROVE <<7, k>> \in Marks /\ Spot(<<7, k>>) = <<39 - k, 123 - 3 * k>>
  <2>1. PointsOf[7] = 16
    BY DEF PointsOf
  <2>2. <<7, k>> \in Marks
    BY <2>1 DEF Marks
  <2> QED  BY <2>2 DEF Spot, Right, Down, Begin, Steps
<1>8. ASSUME NEW k \in 0..9 PROVE <<8, k>> \in Marks /\ Spot(<<8, k>>) = <<28 + 4 * k, 75 - 3 * k>>
  <2>1. PointsOf[8] = 10
    BY DEF PointsOf
  <2>2. <<8, k>> \in Marks
    BY <2>1 DEF Marks
  <2> QED  BY <2>2 DEF Spot, Right, Down, Begin, Steps
<1>9. ASSUME NEW k \in 0..15 PROVE <<9, k>> \in Marks /\ Spot(<<9, k>>) = <<16 + 3 * k, 48>>
  <2>1. PointsOf[9] = 16
    BY DEF PointsOf
  <2>2. <<9, k>> \in Marks
    BY <2>1 DEF Marks
  <2> QED  BY <2>2 DEF Spot, Right, Down, Begin, Steps
<1>10. ASSUME NEW k \in 0..14 PROVE <<10, k>> \in Marks /\ Spot(<<10, k>>) = <<15 - k, 45 - 3 * k>>
  <2>1. PointsOf[10] = 15
    BY DEF PointsOf
  <2>2. <<10, k>> \in Marks
    BY <2>1 DEF Marks
  <2> QED  BY <2>2 DEF Spot, Right, Down, Begin, Steps
<1> QED  BY <1>1, <1>2, <1>3, <1>4, <1>5, <1>6, <1>7, <1>8, <1>9, <1>10

(* The right half is the left half mirrored.                               *)
LEMMA Mirrored ==
    ASSUME NEW s \in Marks
    PROVE  \E z \in Marks : Spot(z) = <<-Spot(s)[1], Spot(s)[2]>>
<1> DEFINE j == s[2]
           mirror(a, k) == <<a, k>> \in Marks /\ Spot(<<a, k>>) = <<-Spot(s)[1], Spot(s)[2]>>
<1>1. s[1] \in {1, 2, 3, 4, 5, 6, 7, 8, 9, 10} /\ j \in 0..16 /\ j < PointsOf[s[1]]
  BY DEF Marks
<1>2. CASE s[1] = 1
  <2>1. j \in 0..16 /\ Spot(s) = <<-j, 3 * j>>
    BY <1>1, <1>2 DEF Spot, Right, Down, PointsOf, Begin, Steps
  <2>2. j = 0 => mirror(1, 0)
    <3> DEFINE k == 0
    <3>1. k \in 0..16
      OBVIOUS
    <3> HIDE DEF k
    <3>2. <<1, k>> \in Marks /\ Spot(<<1, k>>) = <<-k, 3 * k>>
      BY <3>1, StrokePoints
    <3> QED  BY <2>1, <3>2 DEF k
  <2>3. j \in 1..15 => mirror(10, 15 - j)
    <3> SUFFICES ASSUME j \in 1..15 PROVE mirror(10, 15 - j)
      OBVIOUS
    <3> DEFINE k == 15 - j
    <3>1. k \in 0..14
      OBVIOUS
    <3> HIDE DEF k
    <3>2. <<10, k>> \in Marks /\ Spot(<<10, k>>) = <<15 - k, 45 - 3 * k>>
      BY <3>1, StrokePoints
    <3> QED  BY <2>1, <3>2 DEF k
  <2>4. j = 16 => mirror(9, 0)
    <3> DEFINE k == 0
    <3>1. k \in 0..15
      OBVIOUS
    <3> HIDE DEF k
    <3>2. <<9, k>> \in Marks /\ Spot(<<9, k>>) = <<16 + 3 * k, 48>>
      BY <3>1, StrokePoints
    <3> QED  BY <2>1, <3>2 DEF k
  <2> QED  BY <2>1, <2>2, <2>3, <2>4
<1>3. CASE s[1] = 10
  <2>1. j \in 0..14 /\ Spot(s) = <<15 - j, 45 - 3 * j>>
    BY <1>1, <1>3 DEF Spot, Right, Down, PointsOf, Begin, Steps
  <2>2. j \in 0..14 => mirror(1, 15 - j)
    <3> SUFFICES ASSUME j \in 0..14 PROVE mirror(1, 15 - j)
      OBVIOUS
    <3> DEFINE k == 15 - j
    <3>1. k \in 0..16
      OBVIOUS
    <3> HIDE DEF k
    <3>2. <<1, k>> \in Marks /\ Spot(<<1, k>>) = <<-k, 3 * k>>
      BY <3>1, StrokePoints
    <3> QED  BY <2>1, <3>2 DEF k
  <2> QED  BY <2>1, <2>2
<1>4. CASE s[1] = 2
  <2>1. j \in 0..15 /\ Spot(s) = <<3 * j - 64, 48>>
    BY <1>1, <1>4 DEF Spot, Right, Down, PointsOf, Begin, Steps
  <2>2. j = 0 => mirror(8, 9)
    <3> DEFINE k == 9
    <3>1. k \in 0..9
      OBVIOUS
    <3> HIDE DEF k
    <3>2. <<8, k>> \in Marks /\ Spot(<<8, k>>) = <<28 + 4 * k, 75 - 3 * k>>
      BY <3>1, StrokePoints
    <3> QED  BY <2>1, <3>2 DEF k
  <2>3. j \in 1..15 => mirror(9, 16 - j)
    <3> SUFFICES ASSUME j \in 1..15 PROVE mirror(9, 16 - j)
      OBVIOUS
    <3> DEFINE k == 16 - j
    <3>1. k \in 0..15
      OBVIOUS
    <3> HIDE DEF k
    <3>2. <<9, k>> \in Marks /\ Spot(<<9, k>>) = <<16 + 3 * k, 48>>
      BY <3>1, StrokePoints
    <3> QED  BY <2>1, <3>2 DEF k
  <2> QED  BY <2>1, <2>2, <2>3
<1>5. CASE s[1] = 9
  <2>1. j \in 0..15 /\ Spot(s) = <<16 + 3 * j, 48>>
    BY <1>1, <1>5 DEF Spot, Right, Down, PointsOf, Begin, Steps
  <2>2. j = 0 => mirror(1, 16)
    <3> DEFINE k == 16
    <3>1. k \in 0..16
      OBVIOUS
    <3> HIDE DEF k
    <3>2. <<1, k>> \in Marks /\ Spot(<<1, k>>) = <<-k, 3 * k>>
      BY <3>1, StrokePoints
    <3> QED  BY <2>1, <3>2 DEF k
  <2>3. j \in 1..15 => mirror(2, 16 - j)
    <3> SUFFICES ASSUME j \in 1..15 PROVE mirror(2, 16 - j)
      OBVIOUS
    <3> DEFINE k == 16 - j
    <3>1. k \in 0..15
      OBVIOUS
    <3> HIDE DEF k
    <3>2. <<2, k>> \in Marks /\ Spot(<<2, k>>) = <<3 * k - 64, 48>>
      BY <3>1, StrokePoints
    <3> QED  BY <2>1, <3>2 DEF k
  <2> QED  BY <2>1, <2>2, <2>3
<1>6. CASE s[1] = 8
  <2>1. j \in 0..9 /\ Spot(s) = <<28 + 4 * j, 75 - 3 * j>>
    BY <1>1, <1>6 DEF Spot, Right, Down, PointsOf, Begin, Steps
  <2>2. j \in 0..8 => mirror(3, 8 - j)
    <3> SUFFICES ASSUME j \in 0..8 PROVE mirror(3, 8 - j)
      OBVIOUS
    <3> DEFINE k == 8 - j
    <3>1. k \in 0..9
      OBVIOUS
    <3> HIDE DEF k
    <3>2. <<3, k>> \in Marks /\ Spot(<<3, k>>) = <<4 * k - 60, 51 + 3 * k>>
      BY <3>1, StrokePoints
    <3> QED  BY <2>1, <3>2 DEF k
  <2>3. j = 9 => mirror(2, 0)
    <3> DEFINE k == 0
    <3>1. k \in 0..15
      OBVIOUS
    <3> HIDE DEF k
    <3>2. <<2, k>> \in Marks /\ Spot(<<2, k>>) = <<3 * k - 64, 48>>
      BY <3>1, StrokePoints
    <3> QED  BY <2>1, <3>2 DEF k
  <2> QED  BY <2>1, <2>2, <2>3
<1>7. CASE s[1] = 3
  <2>1. j \in 0..9 /\ Spot(s) = <<4 * j - 60, 51 + 3 * j>>
    BY <1>1, <1>7 DEF Spot, Right, Down, PointsOf, Begin, Steps
  <2>2. j \in 0..8 => mirror(8, 8 - j)
    <3> SUFFICES ASSUME j \in 0..8 PROVE mirror(8, 8 - j)
      OBVIOUS
    <3> DEFINE k == 8 - j
    <3>1. k \in 0..9
      OBVIOUS
    <3> HIDE DEF k
    <3>2. <<8, k>> \in Marks /\ Spot(<<8, k>>) = <<28 + 4 * k, 75 - 3 * k>>
      BY <3>1, StrokePoints
    <3> QED  BY <2>1, <3>2 DEF k
  <2>3. j = 9 => mirror(7, 15)
    <3> DEFINE k == 15
    <3>1. k \in 0..15
      OBVIOUS
    <3> HIDE DEF k
    <3>2. <<7, k>> \in Marks /\ Spot(<<7, k>>) = <<39 - k, 123 - 3 * k>>
      BY <3>1, StrokePoints
    <3> QED  BY <2>1, <3>2 DEF k
  <2> QED  BY <2>1, <2>2, <2>3
<1>8. CASE s[1] = 7
  <2>1. j \in 0..15 /\ Spot(s) = <<39 - j, 123 - 3 * j>>
    BY <1>1, <1>8 DEF Spot, Right, Down, PointsOf, Begin, Steps
  <2>2. j \in 0..14 => mirror(4, 14 - j)
    <3> SUFFICES ASSUME j \in 0..14 PROVE mirror(4, 14 - j)
      OBVIOUS
    <3> DEFINE k == 14 - j
    <3>1. k \in 0..15
      OBVIOUS
    <3> HIDE DEF k
    <3>2. <<4, k>> \in Marks /\ Spot(<<4, k>>) = <<-25 - k, 81 + 3 * k>>
      BY <3>1, StrokePoints
    <3> QED  BY <2>1, <3>2 DEF k
  <2>3. j = 15 => mirror(3, 9)
    <3> DEFINE k == 9
    <3>1. k \in 0..9
      OBVIOUS
    <3> HIDE DEF k
    <3>2. <<3, k>> \in Marks /\ Spot(<<3, k>>) = <<4 * k - 60, 51 + 3 * k>>
      BY <3>1, StrokePoints
    <3> QED  BY <2>1, <3>2 DEF k
  <2> QED  BY <2>1, <2>2, <2>3
<1>9. CASE s[1] = 4
  <2>1. j \in 0..15 /\ Spot(s) = <<-25 - j, 81 + 3 * j>>
    BY <1>1, <1>9 DEF Spot, Right, Down, PointsOf, Begin, Steps
  <2>2. j \in 0..14 => mirror(7, 14 - j)
    <3> SUFFICES ASSUME j \in 0..14 PROVE mirror(7, 14 - j)
      OBVIOUS
    <3> DEFINE k == 14 - j
    <3>1. k \in 0..15
      OBVIOUS
    <3> HIDE DEF k
    <3>2. <<7, k>> \in Marks /\ Spot(<<7, k>>) = <<39 - k, 123 - 3 * k>>
      BY <3>1, StrokePoints
    <3> QED  BY <2>1, <3>2 DEF k
  <2>3. j = 15 => mirror(6, 9)
    <3> DEFINE k == 9
    <3>1. k \in 0..9
      OBVIOUS
    <3> HIDE DEF k
    <3>2. <<6, k>> \in Marks /\ Spot(<<6, k>>) = <<4 + 4 * k, 99 + 3 * k>>
      BY <3>1, StrokePoints
    <3> QED  BY <2>1, <3>2 DEF k
  <2> QED  BY <2>1, <2>2, <2>3
<1>10. CASE s[1] = 6
  <2>1. j \in 0..9 /\ Spot(s) = <<4 + 4 * j, 99 + 3 * j>>
    BY <1>1, <1>10 DEF Spot, Right, Down, PointsOf, Begin, Steps
  <2>2. j \in 0..8 => mirror(5, 8 - j)
    <3> SUFFICES ASSUME j \in 0..8 PROVE mirror(5, 8 - j)
      OBVIOUS
    <3> DEFINE k == 8 - j
    <3>1. k \in 0..9
      OBVIOUS
    <3> HIDE DEF k
    <3>2. <<5, k>> \in Marks /\ Spot(<<5, k>>) = <<4 * k - 36, 123 - 3 * k>>
      BY <3>1, StrokePoints
    <3> QED  BY <2>1, <3>2 DEF k
  <2>3. j = 9 => mirror(4, 15)
    <3> DEFINE k == 15
    <3>1. k \in 0..15
      OBVIOUS
    <3> HIDE DEF k
    <3>2. <<4, k>> \in Marks /\ Spot(<<4, k>>) = <<-25 - k, 81 + 3 * k>>
      BY <3>1, StrokePoints
    <3> QED  BY <2>1, <3>2 DEF k
  <2> QED  BY <2>1, <2>2, <2>3
<1>11. CASE s[1] = 5
  <2>1. j \in 0..9 /\ Spot(s) = <<4 * j - 36, 123 - 3 * j>>
    BY <1>1, <1>11 DEF Spot, Right, Down, PointsOf, Begin, Steps
  <2>2. j \in 0..8 => mirror(6, 8 - j)
    <3> SUFFICES ASSUME j \in 0..8 PROVE mirror(6, 8 - j)
      OBVIOUS
    <3> DEFINE k == 8 - j
    <3>1. k \in 0..9
      OBVIOUS
    <3> HIDE DEF k
    <3>2. <<6, k>> \in Marks /\ Spot(<<6, k>>) = <<4 + 4 * k, 99 + 3 * k>>
      BY <3>1, StrokePoints
    <3> QED  BY <2>1, <3>2 DEF k
  <2>3. j = 9 => mirror(5, 9)
    <3> DEFINE k == 9
    <3>1. k \in 0..9
      OBVIOUS
    <3> HIDE DEF k
    <3>2. <<5, k>> \in Marks /\ Spot(<<5, k>>) = <<4 * k - 36, 123 - 3 * k>>
      BY <3>1, StrokePoints
    <3> QED  BY <2>1, <3>2 DEF k
  <2> QED  BY <2>1, <2>2, <2>3
<1> QED  BY <1>1, <1>2, <1>3, <1>4, <1>5, <1>6, <1>7, <1>8, <1>9, <1>10, <1>11

(* No two points are the same.                                             *)
LEMMA SpotsDiffer ==
    ASSUME NEW s \in Marks, NEW z \in Marks, Spot(s) = Spot(z)
    PROVE  s = z
<1>1. s = <<s[1], s[2]>> /\ z = <<z[1], z[2]>>
  BY DEF Marks
<1>2. s[1] \in {1, 2, 3, 4, 5, 6, 7, 8, 9, 10} /\ s[2] \in Nat
  BY Spots
<1>3. z[1] \in {1, 2, 3, 4, 5, 6, 7, 8, 9, 10} /\ z[2] \in Nat
  BY Spots
<1> DEFINE apart(a) == s[1] = a => z[1] = a /\ s[2] = z[2]
<1>4. apart(1)
  BY <1>2, <1>3, Spots
<1>5. apart(2)
  BY <1>2, <1>3, Spots
<1>6. apart(3)
  BY <1>2, <1>3, Spots
<1>7. apart(4)
  BY <1>2, <1>3, Spots
<1>8. apart(5)
  BY <1>2, <1>3, Spots
<1>9. apart(6)
  BY <1>2, <1>3, Spots
<1>10. apart(7)
  BY <1>2, <1>3, Spots
<1>11. apart(8)
  BY <1>2, <1>3, Spots
<1>12. apart(9)
  BY <1>2, <1>3, Spots
<1>13. apart(10)
  BY <1>2, <1>3, Spots
<1> QED  BY <1>1, <1>2, <1>4, <1>5, <1>6, <1>7, <1>8, <1>9, <1>10, <1>11, <1>12, <1>13
(* There are 136 points.                                                   *)
Skipped == <<0, 17, 33, 43, 59, 69, 79, 95, 105, 121>>

LEMMA MarksCount == IsFiniteSet(Marks) /\ Cardinality(Marks) = 136
<1> DEFINE number(s) == Skipped[s[1]] + s[2] + 1
           f == [s \in Marks |-> number(s)]
<1>1. IsFiniteSet(Marks)
  <2>1. \A a, b \in Int : IsFiniteSet(a..b)
    BY FS_Interval
  <2>2. 0 \in Int /\ 1 \in Int /\ 10 \in Int /\ 16 \in Int
    OBVIOUS
  <2>3. IsFiniteSet(1..10) /\ IsFiniteSet(0..16)
    BY <2>1, <2>2, Zenon
  <2>4. IsFiniteSet((1..10) \X (0..16))
    BY <2>3, FS_Product
  <2> QED  BY <2>4, FS_Subset DEF Marks
<1>2. ASSUME NEW s \in Marks
      PROVE  /\ s = <<s[1], s[2]>> /\ s[1] \in {1, 2, 3, 4, 5, 6, 7, 8, 9, 10}
             /\ number(s) \in 1..136
             /\ number(s) > Skipped[s[1]] /\ number(s) <= Skipped[s[1]] + PointsOf[s[1]]
             /\ number(s) = Skipped[s[1]] + s[2] + 1 /\ s[2] \in Nat
  BY Spots DEF Marks, PointsOf, Skipped
<1>3. ASSUME NEW s \in Marks, NEW z \in Marks, number(s) = number(z) PROVE s = z
  <2> DEFINE a == s[1]   m == z[1]
  <2>1. /\ a \in {1, 2, 3, 4, 5, 6, 7, 8, 9, 10} /\ m \in {1, 2, 3, 4, 5, 6, 7, 8, 9, 10}
        /\ Skipped[a] < Skipped[m] + PointsOf[m] /\ Skipped[m] < Skipped[a] + PointsOf[a]
    <3>1. Skipped[a] \in Int /\ Skipped[m] \in Int /\ PointsOf[a] \in Int /\ PointsOf[m] \in Int
      BY <1>2 DEF Skipped, PointsOf
    <3> HIDE DEF number
    <3> QED  BY <1>2, <1>3, <3>1
  <2> HIDE DEF a, m, number
  <2>2. a = m
    BY <2>1 DEF Skipped, PointsOf
  <2>3. Skipped[a] \in Int
    BY <2>1 DEF Skipped
  <2> QED  BY <1>2, <1>3, <2>2, <2>3 DEF a, m
<1>4. ASSUME NEW i \in 1..136 PROVE \E s \in Marks : number(s) = i
  <2>1. \A a \in 1..10 : \A j \in Nat :
            j < PointsOf[a] /\ Skipped[a] + j + 1 = i => \E s \in Marks : number(s) = i
    <3> SUFFICES ASSUME NEW a \in 1..10, NEW j \in Nat, j < PointsOf[a], Skipped[a] + j + 1 = i
                 PROVE  \E s \in Marks : number(s) = i
      OBVIOUS
    <3>1. <<a, j>> \in Marks /\ number(<<a, j>>) = i
      BY MarksAre
    <3> QED  BY <3>1
  <2> HIDE DEF number
  <2>2. CASE i \in 1..17
    <3>1. 1 \in 1..10 /\ i - 1 \in Nat /\ i - 1 < PointsOf[1] /\ Skipped[1] + (i - 1) + 1 = i
      BY <2>2 DEF PointsOf, Skipped
    <3> QED  BY <3>1, <2>1
  <2>3. CASE i \in 18..33
    <3>1. 2 \in 1..10 /\ i - 18 \in Nat /\ i - 18 < PointsOf[2] /\ Skipped[2] + (i - 18) + 1 = i
      BY <2>3 DEF PointsOf, Skipped
    <3> QED  BY <3>1, <2>1
  <2>4. CASE i \in 34..43
    <3>1. 3 \in 1..10 /\ i - 34 \in Nat /\ i - 34 < PointsOf[3] /\ Skipped[3] + (i - 34) + 1 = i
      BY <2>4 DEF PointsOf, Skipped
    <3> QED  BY <3>1, <2>1
  <2>5. CASE i \in 44..59
    <3>1. 4 \in 1..10 /\ i - 44 \in Nat /\ i - 44 < PointsOf[4] /\ Skipped[4] + (i - 44) + 1 = i
      BY <2>5 DEF PointsOf, Skipped
    <3> QED  BY <3>1, <2>1
  <2>6. CASE i \in 60..69
    <3>1. 5 \in 1..10 /\ i - 60 \in Nat /\ i - 60 < PointsOf[5] /\ Skipped[5] + (i - 60) + 1 = i
      BY <2>6 DEF PointsOf, Skipped
    <3> QED  BY <3>1, <2>1
  <2>7. CASE i \in 70..79
    <3>1. 6 \in 1..10 /\ i - 70 \in Nat /\ i - 70 < PointsOf[6] /\ Skipped[6] + (i - 70) + 1 = i
      BY <2>7 DEF PointsOf, Skipped
    <3> QED  BY <3>1, <2>1
  <2>8. CASE i \in 80..95
    <3>1. 7 \in 1..10 /\ i - 80 \in Nat /\ i - 80 < PointsOf[7] /\ Skipped[7] + (i - 80) + 1 = i
      BY <2>8 DEF PointsOf, Skipped
    <3> QED  BY <3>1, <2>1
  <2>9. CASE i \in 96..105
    <3>1. 8 \in 1..10 /\ i - 96 \in Nat /\ i - 96 < PointsOf[8] /\ Skipped[8] + (i - 96) + 1 = i
      BY <2>9 DEF PointsOf, Skipped
    <3> QED  BY <3>1, <2>1
  <2>10. CASE i \in 106..121
    <3>1. 9 \in 1..10 /\ i - 106 \in Nat /\ i - 106 < PointsOf[9] /\ Skipped[9] + (i - 106) + 1 = i
      BY <2>10 DEF PointsOf, Skipped
    <3> QED  BY <3>1, <2>1
  <2>11. CASE i \in 122..136
    <3>1. /\ 10 \in 1..10 /\ i - 122 \in Nat /\ i - 122 < PointsOf[10]
          /\ Skipped[10] + (i - 122) + 1 = i
      BY <2>11 DEF PointsOf, Skipped
    <3> QED  BY <3>1, <2>1
  <2> QED  BY <2>2, <2>3, <2>4, <2>5, <2>6, <2>7, <2>8, <2>9, <2>10, <2>11
<1>5. f \in Bijection(Marks, 1..136)
  BY <1>2, <1>3, <1>4 DEF Bijection, Injection, Surjection, IsInjective
<1>6. ExistsBijection(Marks, 1..136)
  BY <1>5 DEF ExistsBijection
<1>7. Cardinality(1..136) = 136
  <2>1. \A a, b \in Int : Cardinality(a..b) = IF a > b THEN 0 ELSE b - a + 1
    BY FS_Interval
  <2>2. 1 \in Int /\ 136 \in Int
    OBVIOUS
  <2>3. Cardinality(1..136) = IF 1 > 136 THEN 0 ELSE 136 - 1 + 1
    BY <2>1, <2>2, Zenon
  <2> QED  BY <2>3
<1> QED  BY <1>1, <1>6, <1>7, FS_Bijection

LEMMA WholeStarCounts == IsFiniteSet(WholeStar) /\ Cardinality(WholeStar) = 136
<1> DEFINE f == [s \in Marks |-> Spot(s)]
<1>1. f \in Bijection(Marks, WholeStar)
  BY SpotsDiffer DEF WholeStar, Bijection, Injection, Surjection, IsInjective
<1>2. ExistsBijection(Marks, WholeStar)
  BY <1>1 DEF ExistsBijection
<1> QED  BY <1>2, MarksCount, FS_Bijection

(* The points of the strokes are a star.                                   *)
LEMMA WholeIsStar == IsStar(WholeStar)
<1>1. \A c \in WholeStar : <<-c[1], c[2]>> \in WholeStar
  BY Mirrored DEF WholeStar
<1>2. <<0, 0>> \in WholeStar
  <2>1. <<1, 0>> \in Marks /\ Spot(<<1, 0>>) = <<0, 0>>
    BY StrokePoints
  <2> QED  BY <2>1 DEF WholeStar
<1> QED  BY <1>1, <1>2, WholeStarCounts DEF IsStar

(* On a screen of 129 columns or more a star is drawn if, and only if, its *)
(* last row is on the screen.                                              *)
LEMMA WideStarIsStar ==
    ASSUME NEW w \in Nat, NEW h \in Nat, w >= 129
    PROVE  IsStar(Star(w, h)) <=> FitsStar(w, h)
<1> DEFINE top == h \div 6
           seen == {s \in Marks : top + Down(s[1], s[2]) < h}
<1>1. top \in Nat
  OBVIOUS
<1>2. Star(w, h) = {Spot(s) : s \in seen}
  BY WideStar
<1>3. FitsStar(w, h) <=> top + 127 <= h
  BY DEF FitsStar
<1> HIDE DEF top
<1>4. CASE top + 127 <= h
  <2>1. \A s \in Marks : Down(s[1], s[2]) \in 0..126
    BY Spots
  <2>2. \A s \in Marks : top + Down(s[1], s[2]) < h
    BY <1>1, <1>4, <2>1
  <2>3. seen = Marks
    BY <2>2
  <2> QED  BY <1>2, <1>3, <1>4, <2>3, WholeIsStar DEF WholeStar
<1>5. CASE ~(top + 127 <= h)
  <2>1. <<4, 15>> \in Marks /\ Spot(<<4, 15>>) = <<-40, 126>>
    BY StrokePoints
  <2>2. <<-40, 126>> \notin Star(w, h)
    <3> SUFFICES ASSUME NEW s \in seen, Spot(s) = <<-40, 126>> PROVE FALSE
      BY <1>2
    <3>1. Down(s[1], s[2]) = 126
      BY DEF Spot
    <3> QED  BY <3>1, <1>1, <1>5
  <2>3. Star(w, h) \subseteq WholeStar /\ Star(w, h) # WholeStar
    BY <1>2, <2>1, <2>2 DEF WholeStar
  <2>4. Cardinality(Star(w, h)) # 136
    BY <2>3, WholeStarCounts, FS_Subset
  <2> QED  BY <1>3, <1>5, <2>4 DEF IsStar
<1> QED  BY <1>4, <1>5

(* On one that is narrower the left tip is wrapped to the row above, or    *)
(* has no mirror image.                                                    *)
LEMMA NarrowStar ==
    ASSUME NEW w \in {127, 128}, NEW h \in 149..154
    PROVE  ~IsStar(Star(w, h))
<1> DEFINE top == h \div 6
           mid == w \div 2
           place(p) == <<(p % w) - mid, (p \div w) - top>>
           tip == At(top, mid, w, 2, 0)
<1>1. top \in {24, 25}
  OBVIOUS
<1>2. Star(w, h) = {place(p) : p \in StarPoints(w, h) \cap 0..w * h - 1}
  BY DEF Star
<1>3. StarPoints(w, h) = {At(top, mid, w, s[1], s[2]) : s \in Marks}
  BY PointsAre
<1>4. tip = (top + 48) * w + mid - 64 /\ tip \in StarPoints(w, h) /\ tip \in 0..w * h - 1
  <2>1. <<2, 0>> \in Marks
    BY StrokePoints
  <2>2. Right(2, 0) = -64 /\ Down(2, 0) = 48
    BY DEF Right, Down, Begin, Steps
  <2>3. tip = (top + 48) * w + mid - 64
    BY <1>1, <2>2 DEF At
  <2> QED  BY <1>1, <1>3, <2>1, <2>3
<1>5. place(tip) \in Star(w, h)
  BY <1>2, <1>4
<1>6. CASE w = 128
  <2>1. mid = 64 /\ place(tip)[1] = -64
    BY <1>1, <1>4, <1>6
  <2>2. ASSUME NEW c \in Star(w, h) PROVE c[1] # 64
    <3>1. PICK p \in 0..w * h - 1 : c = place(p)
      BY <1>2
    <3>2. p % w \in 0..127
      BY <1>6
    <3>3. c[1] = (p % w) - 64
      BY <3>1, <2>1
    <3> HIDE DEF place, tip, mid
    <3> QED  BY <3>2, <3>3
  <2>3. \E c \in Star(w, h) : c[1] = -64
    BY <1>5, <2>1
  <2>4. \A c \in Star(w, h) : c[1] = -64 => <<64, c[2]>> \notin Star(w, h)
    BY <2>2
  <2> HIDE DEF place, tip, mid, top
  <2>5. PICK c \in Star(w, h) : c[1] = -64
    BY <2>3
  <2>6. -c[1] = 64
    <3>1. c[1] \in Int
      BY <2>5
    <3>2. c[1] = 0 - 64
      BY <2>5
    <3>3. -c[1] = 0 - c[1]
      BY <3>1
    <3> QED BY <3>1, <3>2, <3>3
  <2> QED  BY <2>4, <2>5, <2>6 DEF IsStar
<1>7. CASE w = 127
  <2>1. mid = 63 /\ place(tip) = <<63, 47>>
    BY <1>1, <1>4, <1>7
  <2>2. ASSUME <<-63, 47>> \in Star(w, h) PROVE FALSE
    <3>1. PICK p \in StarPoints(w, h) \cap 0..w * h - 1 : <<-63, 47>> = place(p)
      BY <1>2, <2>2
    <3>2. p = (top + 47) * 127
      <4>1. p \in Nat /\ p % 127 = 0 /\ p \div 127 = top + 47
        BY <3>1, <1>1, <1>7, <2>1
      <4> HIDE DEF top
      <4> QED  BY <4>1, <1>1
    <3>3. PICK s \in Marks : p = At(top, mid, w, s[1], s[2])
      BY <3>1, <1>3
    <3>4. (47 - Down(s[1], s[2])) * 127 = 63 + Right(s[1], s[2])
      <4>1. Down(s[1], s[2]) \in Int /\ Right(s[1], s[2]) \in Int
        BY Spots
      <4> HIDE DEF top, mid
      <4> QED  BY <3>2, <3>3, <4>1, <1>1, <1>7, <2>1 DEF At
    <3>5. \/ Right(s[1], s[2]) = -63 /\ Down(s[1], s[2]) = 47
          \/ Right(s[1], s[2]) = 64 /\ Down(s[1], s[2]) = 46
      <4>1. Right(s[1], s[2]) \in -64..64 /\ Down(s[1], s[2]) \in 0..126
        BY Spots
      <4> QED  BY <3>4, <4>1
    <3> QED  BY <3>5, Spots DEF Spot
  <2> QED  BY <1>5, <2>1, <2>2 DEF IsStar
<1> QED  BY <1>6, <1>7

LEMMA StarCallRight == call \in Calls /\ StarDrawn => StarIsWhole'
<1> SUFFICES ASSUME call \in Calls, StarDrawn PROVE StarIsWhole'
  OBVIOUS
<1> DEFINE w == call[4]   h == call[5]
<1>1. call[1] = "star" /\ call' = call /\ drawn' = Star(w, h)
  BY DEF StarDrawn, Call
<1>2. call \in StarCalls
  BY <1>1 DEF Calls, LineCalls, TargetCalls, CharCalls, GlyphCalls, ImageCalls, ShapeCalls
<1>3. w \in 127..131 /\ h \in 149..154
  BY <1>2 DEF StarCalls
<1> HIDE DEF w, h
<1>4. IsStar(Star(w, h)) <=> FitsStar(w, h)
  <2>1. CASE w >= 129
    BY <2>1, <1>3, WideStarIsStar
  <2>2. CASE ~(w >= 129)
    <3>1. w \in {127, 128}
      BY <2>2, <1>3
    <3> QED  BY <2>2, <3>1, <1>3, NarrowStar DEF FitsStar
  <2> QED  BY <2>1, <2>2
<1> QED  BY <1>1, <1>4 DEF StarIsWhole, w, h

LEMMA StarStep ==
    CallInv /\ StarIsWhole /\ [MCNext]_<<which, callVars, vars, touchVars, singleVars>>
    => StarIsWhole'
<1> SUFFICES ASSUME CallInv, StarIsWhole,
                    [MCNext]_<<which, callVars, vars, touchVars, singleVars>>
             PROVE  StarIsWhole'
  OBVIOUS
<1>1. CASE UNCHANGED callVars
  BY <1>1 DEF StarIsWhole, Has, callVars
<1>2. CASE CallNext /\ ~UNCHANGED callVars
  <2>1. call' = call
    BY <1>2 DEF CallNext, Line, IntLine, Target, IntTarget, Char, Glyph, Bmp, BmpTopDown, Jpeg,
                Png, Turned, TurnedTopDown, Point, Rectangle, Fill, StarDrawn, Call, callVars
  <2>2. CASE StarDrawn
    <3>1. call \in Calls
      <4>1. call[1] = "star"
        BY <2>2 DEF StarDrawn, Call
      <4>2. <<"">>[1] = "" /\ "" # "star"
        OBVIOUS
      <4>3. call # <<"">>
        BY <4>1, <4>2
      <4> QED  BY <4>3 DEF CallInv
    <3> QED  BY <2>2, <3>1, StarCallRight
  <2>3. CASE ~StarDrawn
    <3>1. call[1] # "star"
      BY <1>2, <2>3 DEF CallNext, Line, IntLine, Target, IntTarget, Char, Glyph, Bmp, BmpTopDown,
              Jpeg, Png, Turned, TurnedTopDown, Point, Rectangle, Fill, Call
    <3> QED  BY <2>1, <3>1 DEF StarIsWhole, Has
  <2> QED  BY <2>2, <2>3
<1> QED  BY <1>1, <1>2 DEF MCNext, callVars

(* The star is one, and symmetric, exactly on the screens that have room   *)
(* for it: 129 columns, and 127 rows under its top, which stands a sixth   *)
(* down the screen.                                                        *)
THEOREM StarsAreWhole == MCSpec => []StarIsWhole
<1>1. MCInit => StarIsWhole
  <2>1. CASE CallInit
    BY <2>1 DEF CallInit, StarIsWhole, Has
  <2>2. CASE NoCall
    BY <2>2 DEF NoCall, StarIsWhole, Has
  <2> QED  BY <2>1, <2>2 DEF MCInit
<1>2. MCSpec => []CallInv
  <2>1. MCInit => CallInv /\ DrawnInv
    BY CallsInit
  <2>2. /\ CallInv /\ DrawnInv /\ [MCNext]_<<which, callVars, vars, touchVars, singleVars>>
        => CallInv' /\ DrawnInv'
    BY CallsStep
  <2> QED  BY <2>1, <2>2, PTL DEF MCSpec
<1> QED  BY <1>1, <1>2, StarStep, PTL DEF MCSpec
-----------------------------------------------------------------------------
(* Touches: the events, and what they can say.                             *)
Axes  == {"x", "y"}
Moves == {"id", "x", "y"}

(* What a finger does in a frame.                                          *)
Deed   == [what : T!Whats, place : T!Places]
Values == T!Slots \cup {-1, 0} \cup Xs \cup Ys \cup [T!Slots -> Deed]
Events == [code : T!Codes, value : Values, of : T!Slots]

(* The value of an event is one of its code.                               *)
Fits(e) ==
    /\ e.code = "slot" => e.value = e.of
    /\ e.code = "id" => e.value \in {-1, 0}
    /\ e.code = "x" => e.value \in Xs
    /\ e.code = "y" => e.value \in Ys
    /\ e.code = "report" => e.value \in [T!Slots -> Deed]

(* What may be in the queue.                                               *)
Queues == {q \in Seq(Events) : \A i \in 1..Len(q) : Fits(q[i])}

(* The types of the tracker's state.                                       *)
TouchTypes ==
    /\ finger \in [T!Slots -> [down : BOOLEAN, place : T!Places]]
    /\ kslot \in T!Slots /\ slot \in T!Slots
    /\ queue \in Queues /\ Len(queue) <= QueueMax
    /\ mt \in [T!Slots -> [place : T!Places, id : {-2, -1, 0}, valid : BOOLEAN]]
    /\ sure \in [T!Slots -> SUBSET Axes] /\ slotSure \in BOOLEAN /\ sound \in BOOLEAN

(* A loss stands first, a report last.                                     *)
Lost(q) == q # <<>> /\ q[1].code = "dropped"

Ends(q) ==
    /\ \A i \in 2..Len(q) : q[i].code # "dropped"
    /\ q # <<>> => q[Len(q)].code = "report"

(* The slot an event is about, or l, the one of the next after them all,   *)
(* is what the last slot event before it says, and s if there is none.     *)
About(q, l, i) == IF i <= Len(q) THEN q[i].of ELSE l
Counts(q, i)   == i = Len(q) + 1 \/ q[i].code \in Moves
NoSlot(q, i, j) == \A k \in i..j : q[k].code # "slot"

Agrees(q, l) ==
    \A i \in 1..Len(q) + 1 : \A j \in 1..i - 1 :
        Counts(q, i) /\ q[j].code = "slot" /\ NoSlot(q, j + 1, i - 1) => q[j].of = About(q, l, i)

Starts(q, l, s) ==
    \A i \in 1..Len(q) + 1 : Counts(q, i) /\ NoSlot(q, 1, i - 1) => About(q, l, i) = s

(* The program's slot is the kernel's as far as no loss hides it.          *)
SlotInv == Agrees(queue, kslot) /\ (~Lost(queue) /\ slotSure => Starts(queue, kslot, slot))

(* The events of the report p, and whether it has one of slot s.           *)
Part(q, i, p) == /\ i \in 1..p - 1 /\ q[p].code = "report"
                 /\ \A k \in i..p - 1 : q[k].code # "report"

Tells(q, p, s, codes) ==
    \E i \in 1..p - 1 : Part(q, i, p) /\ q[i].of = s /\ q[i].code \in codes

FirstReport(q, p)   == /\ p \in 1..Len(q) /\ q[p].code = "report"
                       /\ \A k \in 1..p - 1 : q[k].code # "report"
NextReport(q, o, p) == /\ p \in 1..Len(q) /\ o \in 1..p - 1
                       /\ q[o].code = "report" /\ q[p].code = "report"
                       /\ \A k \in o + 1..p - 1 : q[k].code # "report"

IdOf(what) == CASE what = "press" -> 0 [] what = "release" -> -1 [] OTHER -> -2

(* An event says what its slot did, c.                                     *)
Says(e, c) ==
    /\ e.code \in Moves => c.what # "none"
    /\ e.code = "id" => e.value = IdOf(c.what)
    /\ e.code \in Axes => e.value = c.place[e.code]

Truth(q) ==
    \A p \in 1..Len(q) : \A i \in 1..p - 1 : Part(q, i, p) => Says(q[i], q[p].value[q[i].of])

(* Between two reports every change is told.                               *)
Told(q, p, s, c, old) ==
    /\ c.what \in {"press", "release"} => Tells(q, p, s, {"id"})
    /\ c.what = "slide" => Tells(q, p, s, Axes)
    /\ \A a \in Axes : c.place[a] = old[a] \/ Tells(q, p, s, {a})

AllTold(q) ==
    \A p \in 1..Len(q) : \A o \in 1..p - 1 : NextReport(q, o, p) => \A s \in T!Slots :
        Told(q, p, s, q[p].value[s], q[o].value[s].place)

(* Before the first report it is told or has been.                         *)
Known(q, p, s, c, m, sur, snd) ==
    /\ snd /\ ~Lost(q) =>
        /\ m.id \in {-2, IdOf(c.what)}
        /\ c.what \in {"press", "release"} /\ m.id = -2 => Tells(q, p, s, {"id"})
        /\ c.what = "slide" => m.valid \/ Tells(q, p, s, Axes)
        /\ c.what = "none" => ~m.valid
    /\ \A a \in sur : Lost(q) \/ m.place[a] = c.place[a] \/ Tells(q, p, s, {a})

FirstInv ==
    \A p \in 1..Len(queue) : FirstReport(queue, p) => \A s \in T!Slots :
        Known(queue, p, s, queue[p].value[s], mt[s], sure[s], sound)

(* What is known of a slot of which nothing has come since the last        *)
(* report.                                                                 *)
RestInv ==
    /\ \A s \in T!Slots : ~mt[s].valid => mt[s].id = -2
    /\ queue = <<>> => \A s \in T!Slots :
           ~mt[s].valid /\ \A a \in sure[s] : mt[s].place[a] = finger[s].place[a]
    /\ queue # <<>> => \A s \in T!Slots : finger[s].place = queue[Len(queue)].value[s].place

(* The inductive invariant of the tracker.                                 *)
TouchInv == /\ TouchTypes /\ Ends(queue) /\ SlotInv /\ Truth(queue) /\ AllTold(queue)
            /\ FirstInv /\ RestInv
            /\ T!KindsAreTrue /\ T!PlacesAreTrue

(* Induction, for sets.                                                    *)
LEMMA LeastNat == ASSUME NEW T0, T0 \subseteq Nat, T0 # {} PROVE \E m \in T0 : \A z \in T0 : m <= z
<1>1. PICK R : IsWellFoundedOn(R, Nat) /\ \A x, y \in Nat : x < y => <<x, y>> \in R
  <2>1. \A x, y \in Nat : x < y => <<x, y>> \in OpToRel(<, Nat)
    BY DEF OpToRel
  <2> QED  BY <2>1, NatLessThanWellFounded
<1>2. ASSUME NEW S, S = Nat, IsWellFoundedOn(R, S), T0 \subseteq S
      PROVE  \E m \in T0 : \A z \in T0 : ~(<<z, m>> \in R)
  <2>1. \A Q : IsWellFoundedOn(Q, S) => \E m \in T0 : \A z \in T0 : ~(<<z, m>> \in Q)
    BY <1>2, WFMin, Zenon
  <2> QED  BY <1>2, <2>1, Zenon
<1>3. \E m \in T0 : \A z \in T0 : ~(<<z, m>> \in R)
  BY <1>1, <1>2, Zenon
<1>4. PICK m \in T0 : \A z \in T0 : ~(<<z, m>> \in R)
  BY <1>3, Zenon
<1>5. ASSUME NEW z \in T0 PROVE m <= z
  <2>1. z \in Nat /\ m \in Nat
    OBVIOUS
  <2>2. z < m => <<z, m>> \in R
    BY <1>1, <2>1, Zenon
  <2>3. ~(<<z, m>> \in R)
    BY <1>4, Zenon
  <2>4. ~(z < m)
    BY <2>2, <2>3, Zenon
  <2> QED  BY <2>1, <2>4
<1> QED  BY <1>5

(* The packet is built slot after slot.                                    *)
PacketSoFar(u, change) ==
    u = [s \in -1..MaxSlot |-> IF s = -1 THEN [events |-> <<>>, last |-> kslot]
                               ELSE T!AddSlot(u[s - 1], s, change[s])]

(* Packet, which is recursive, is defined: it is the last of the packets   *)
(* so far, each of which adds a slot to the one before.                    *)
LEMMA PacketSteps ==
    ASSUME NEW change PROVE \E u : PacketSoFar(u, change) /\ T!Packet(change) = u[MaxSlot]
<1> DEFINE start == [events |-> <<>>, last |-> kslot]
           So(m, u) == u = [s \in -1..m |-> IF s = -1 THEN start
                                            ELSE T!AddSlot(u[s - 1], s, change[s])]
           Undefined == {m \in Nat : ~ \E u : So(m - 1, u)}
<1>1. ASSUME NEW m \in Nat, NEW g, So(m - 1, g) PROVE \E u : So(m, u)
  <2> DEFINE h == [s \in -1..m |-> IF s = m THEN T!AddSlot(g[m - 1], m, change[m]) ELSE g[s]]
  <2>1. \A s \in -1..m : s = m \/ s \in -1..m - 1
    OBVIOUS
  <2>2. \A s \in -1..m - 1 : h[s] = g[s]
    OBVIOUS
  <2>3. h[m] = T!AddSlot(h[m - 1], m, change[m])
    BY <2>2
  <2>4. \A s \in -1..m - 1 : g[s] = IF s = -1 THEN start ELSE T!AddSlot(g[s - 1], s, change[s])
    <3>1. \A s \in -1..m - 1 :
             [r \in -1..m - 1 |-> IF r = -1 THEN start ELSE T!AddSlot(g[r - 1], r, change[r])][s]
                 = IF s = -1 THEN start ELSE T!AddSlot(g[s - 1], s, change[s])
      OBVIOUS
    <3> QED  BY <1>1, <3>1, Zenon
  <2>5. \A s \in -1..m : h[s] = IF s = -1 THEN start ELSE T!AddSlot(h[s - 1], s, change[s])
    <3> TAKE s \in -1..m
    <3>1. CASE s = m
      BY <2>3, <3>1
    <3>2. CASE s # m
      <4>1. s \in -1..m - 1 /\ (s # -1 => s - 1 \in -1..m - 1)
        BY <3>2
      <4> QED  BY <2>2, <2>4, <4>1
    <3> QED  BY <3>1, <3>2
  <2>6. So(m, h)
    <3> DEFINE H(s) == IF s = -1 THEN start ELSE T!AddSlot(h[s - 1], s, change[s])
    <3>1. h = [s \in -1..m |-> h[s]]
      OBVIOUS
    <3>2. [s \in -1..m |-> h[s]] = [s \in -1..m |-> H(s)]
      <4>1. \A s \in -1..m : h[s] = H(s)
        BY <2>5
      <4> HIDE DEF h, H
      <4> QED  BY <4>1
    <3>3. h = [s \in -1..m |-> H(s)]
      BY <3>1, <3>2, Zenon
    <3> HIDE DEF h
    <3> QED  BY <3>3
  <2> QED  BY <2>6
<1>2. \E u : So(-1, u)
  <2>1. -1..-1 = {-1}
    OBVIOUS
  <2>2. So(-1, [s \in -1..-1 |-> start])
    BY <2>1
  <2> QED  BY <2>2
<1> HIDE DEF So
<1>3. Undefined = {}
  <2> SUFFICES ASSUME Undefined # {} PROVE FALSE
    OBVIOUS
  <2>1. PICK m \in Undefined : \A z \in Undefined : m <= z
    <3>1. Undefined \subseteq Nat
      OBVIOUS
    <3> HIDE DEF Undefined
    <3> QED  BY <3>1, LeastNat
  <2>2. m \in Nat /\ ~ \E u : So(m - 1, u)
    OBVIOUS
  <2>3. CASE m = 0
    BY <1>2, <2>2, <2>3
  <2>4. CASE m # 0
    <3>1. m - 1 \in Nat /\ m - 1 \notin Undefined
      BY <2>1, <2>2, <2>4
    <3>2. \E u : So(m - 1 - 1, u)
      BY <3>1
    <3> QED  BY <1>1, <2>2, <3>1, <3>2
  <2> QED  BY <2>3, <2>4
<1>4. \E u : So(MaxSlot, u)
  <2>1. \E m \in Nat : m - 1 = MaxSlot
    <3>1. MaxSlot \in Nat
      BY QueueAssumption
    <3>2. \A z \in Nat : z + 1 \in Nat /\ z + 1 - 1 = z
      OBVIOUS
    <3> QED  BY <3>1, <3>2
  <2>2. PICK m \in Nat : m - 1 = MaxSlot
    BY <2>1
  <2>3. \E u : So(m - 1, u)
    BY <1>3
  <2> QED  BY <2>2, <2>3
<1>5. T!Packet(change) = (CHOOSE u : So(MaxSlot, u))[MaxSlot]
  BY Zenon DEF T!Packet, So
<1>6. So(MaxSlot, CHOOSE u : So(MaxSlot, u))
  BY <1>4, Zenon
<1>7. PacketSoFar(CHOOSE u : So(MaxSlot, u), change)
  BY <1>6, Zenon DEF So, PacketSoFar
<1> QED  BY <1>5, <1>7, Zenon

(* A sequence after another.                                               *)
LEMMA JoinFacts ==
    ASSUME NEW E, NEW a \in Seq(E), NEW b \in Seq(E), NEW r, r = a \o b,
           NEW m, m = Len(a), NEW z, z = Len(r)
    PROVE  /\ r \in Seq(E) /\ z = m + Len(b) /\ m \in Nat /\ z \in Nat /\ Len(b) \in Nat
           /\ \A i \in 1..m : r[i] = a[i]
           /\ \A i \in m + 1..z : i - m \in 1..Len(b) /\ r[i] = b[i - m]
<1>1. /\ r \in Seq(E) /\ z = m + Len(b) /\ m \in Nat /\ z \in Nat /\ Len(b) \in Nat
      /\ \A i \in 1..m : r[i] = a[i]
  OBVIOUS
<1>2. \A i \in m + 1..z : i - m \in 1..Len(b)
  BY <1>1
<1>3. \A i \in 1..Len(b) : (a \o b)[Len(a) + i] = b[i]
  OBVIOUS
<1>4. \A i \in m + 1..z : r[m + (i - m)] = b[i - m]
  BY <1>2, <1>3
<1>5. \A i \in m + 1..z : m + (i - m) = i
  BY <1>1
<1> QED  BY <1>1, <1>2, <1>4, <1>5

(* One event.                                                              *)
LEMMA EventFacts ==
    ASSUME NEW code \in T!Codes, NEW value \in Values, NEW s \in T!Slots
    PROVE  /\ T!Event(code, value, s) \in Seq(Events) /\ Len(T!Event(code, value, s)) = 1
           /\ T!Event(code, value, s)[1].code = code
           /\ T!Event(code, value, s)[1].value = value
           /\ T!Event(code, value, s)[1].of = s
<1>1. [code |-> code, value |-> value, of |-> s] \in Events
  BY DEF Events
<1> DEFINE e == [code |-> code, value |-> value, of |-> s]
<1>2. T!Event(code, value, s) = <<e>>
  BY DEF T!Event
<1>3. e.code = code /\ e.value = value /\ e.of = s /\ e \in Events
  BY <1>1
<1> HIDE DEF e
<1> QED  BY <1>2, <1>3

(* What a slot that did something adds.                                    *)
Added(e, s, c) ==
    /\ e.code \in {"slot", "id", "x", "y"} /\ e.of = s /\ Fits(e)
    /\ e.code = "id" => e.value = IdOf(c.what)
    /\ e.code \in Axes => e.value = c.place[e.code]

SlotSaid(s, last) == IF s = last THEN <<>> ELSE T!Event("slot", s, s)

(* The slot event of a slot, sent unless the slot was sent last.           *)
LEMMA SlotPart ==
    ASSUME NEW s \in T!Slots, NEW last \in T!Slots, NEW c
    PROVE  /\ SlotSaid(s, last) \in Seq(Events)
           /\ Len(SlotSaid(s, last)) = IF s = last THEN 0 ELSE 1
           /\ \A i \in 1..Len(SlotSaid(s, last)) :
                  SlotSaid(s, last)[i].code = "slot" /\ Added(SlotSaid(s, last)[i], s, c)
<1> DEFINE B == SlotSaid(s, last)
<1>1. CASE s = last
  <2>1. B = <<>>
    BY <1>1 DEF SlotSaid
  <2> QED  BY <1>1, <2>1
<1>2. CASE s # last
  <2>1. B = T!Event("slot", s, s)
    BY <1>2 DEF SlotSaid
  <2>2. s \in Values /\ "slot" \in T!Codes
    BY DEF Values, T!Codes
  <2> HIDE DEF B
  <2>3. /\ B \in Seq(Events) /\ Len(B) = 1
        /\ B[1].code = "slot" /\ B[1].value = s /\ B[1].of = s
    BY <2>1, <2>2, EventFacts
  <2>4. Added(B[1], s, c)
    BY <2>3 DEF Added, Fits, Axes
  <2>5. \A i \in 1..Len(B) : i = 1
    BY <2>3
  <2>6. \A i \in 1..Len(B) : B[i].code = "slot" /\ Added(B[i], s, c)
    BY <2>3, <2>4, <2>5
  <2> QED  BY <1>2, <2>3, <2>6 DEF B
<1> QED  BY <1>1, <1>2

(* The id event of a slot, sent for a press and a release.                 *)
LEMMA IdPart ==
    ASSUME NEW s \in T!Slots, NEW c \in Deed
    PROVE  /\ T!SlotEvents(s, c) \in Seq(Events)
           /\ Len(T!SlotEvents(s, c)) = IF c.what \in {"press", "release"} THEN 1 ELSE 0
           /\ \A i \in 1..Len(T!SlotEvents(s, c)) :
                  T!SlotEvents(s, c)[i].code = "id" /\ Added(T!SlotEvents(s, c)[i], s, c)
<1> DEFINE B == T!SlotEvents(s, c)
<1>1. CASE c.what \in {"press", "release"}
  <2> DEFINE v == IdOf(c.what)
  <2>1. v \in {0, -1} /\ B = T!Event("id", v, s)
    BY <1>1 DEF IdOf, T!SlotEvents
  <2>2. v \in Values /\ "id" \in T!Codes
    BY <2>1 DEF Values, T!Codes
  <2> HIDE DEF v, B
  <2>3. /\ B \in Seq(Events) /\ Len(B) = 1
        /\ B[1].code = "id" /\ B[1].value = v /\ B[1].of = s
    BY <2>1, <2>2, EventFacts
  <2>4. Added(B[1], s, c)
    BY <2>1, <2>3 DEF Added, Fits, Axes, v
  <2>5. \A i \in 1..Len(B) : i = 1
    BY <2>3
  <2>6. \A i \in 1..Len(B) : B[i].code = "id" /\ Added(B[i], s, c)
    BY <2>3, <2>4, <2>5
  <2> QED  BY <1>1, <2>3, <2>6 DEF B
<1>2. CASE c.what \notin {"press", "release"}
  <2>1. B = <<>>
    BY <1>2 DEF T!SlotEvents
  <2> QED  BY <1>2, <2>1
<1> QED  BY <1>1, <1>2

(* The event of a coordinate, sent if it has changed.                      *)
LEMMA AxisPart ==
    ASSUME NEW s \in T!Slots, NEW c \in Deed, NEW a \in Axes
    PROVE  /\ T!AxisEvents(s, c, a) \in Seq(Events)
           /\ Len(T!AxisEvents(s, c, a)) = IF c.place[a] # finger[s].place[a] THEN 1 ELSE 0
           /\ \A i \in 1..Len(T!AxisEvents(s, c, a)) :
                  T!AxisEvents(s, c, a)[i].code = a /\ Added(T!AxisEvents(s, c, a)[i], s, c)
<1> DEFINE B == T!AxisEvents(s, c, a)
<1>1. CASE c.place[a] # finger[s].place[a]
  <2>1. c.place \in T!Places
    BY DEF Deed
  <2>2. /\ a = "x" => c.place[a] \in Xs
        /\ a = "y" => c.place[a] \in Ys
    BY <2>1 DEF T!Places
  <2>3. c.place[a] \in Values /\ a \in T!Codes
    BY <2>2 DEF Values, T!Codes, Axes
  <2>4. B = T!Event(a, c.place[a], s)
    BY <1>1 DEF T!AxisEvents
  <2> HIDE DEF B
  <2>5. /\ B \in Seq(Events) /\ Len(B) = 1
        /\ B[1].code = a /\ B[1].value = c.place[a] /\ B[1].of = s
    BY <2>3, <2>4, EventFacts
  <2>6. Added(B[1], s, c)
    BY <2>2, <2>5 DEF Added, Fits, Axes
  <2>7. \A i \in 1..Len(B) : i = 1
    BY <2>5
  <2>8. \A i \in 1..Len(B) : B[i].code = a /\ Added(B[i], s, c)
    BY <2>5, <2>6, <2>7
  <2> QED  BY <1>1, <2>5, <2>8 DEF B
<1>2. CASE c.place[a] = finger[s].place[a]
  <2>1. B = <<>>
    BY <1>2 DEF T!AxisEvents
  <2> QED  BY <1>2, <2>1
<1> QED  BY <1>1, <1>2

(* A part of a packet is one event at most.                                *)
LEMMA OneMore ==
    ASSUME NEW m \in Nat, NEW l \in {0, 1}, NEW z, z = m + l PROVE z \in {m, m + 1}
OBVIOUS

(* The four parts of the events of a slot: the slot, its id and its        *)
(* coordinates, x and y, each of them if it is needed.                     *)
IsPart(part, code, needed, s, c) ==
    /\ part \in Seq(Events) /\ Len(part) = IF needed THEN 1 ELSE 0
    /\ \A i \in 1..Len(part) : part[i].code = code /\ Added(part[i], s, c)

PartsFacts(r, s, c, old, said) ==
    /\ r \in Seq(Events) /\ Len(r) \in 0..4 /\ (said => 1 <= Len(r)) /\ (~said => Len(r) <= 3)
    /\ \A i \in 1..Len(r) : Added(r[i], s, c) /\ (r[i].code = "slot" <=> i = 1 /\ said)
    /\ c.what \in {"press", "release"} => \E i \in 1..Len(r) : r[i].code = "id"
    /\ \A a \in Axes : c.place[a] = old[a] \/ \E i \in 1..Len(r) : r[i].code = a

(* The four parts after one another.                                       *)
LEMMA PartsAreWhole ==
    ASSUME NEW s, NEW c, NEW old, NEW said \in BOOLEAN, NEW A, NEW B, NEW X, NEW Y, NEW r,
           IsPart(A, "slot", said, s, c),
           IsPart(B, "id", c.what \in {"press", "release"}, s, c),
           IsPart(X, "x", c.place["x"] # old["x"], s, c),
           IsPart(Y, "y", c.place["y"] # old["y"], s, c),
           r = ((A \o B) \o X) \o Y
    PROVE  PartsFacts(r, s, c, old, said)
<1> DEFINE r2 == A \o B   r3 == r2 \o X   r4 == r3 \o Y
           n1 == Len(A)   n2 == Len(r2)   n3 == Len(r3)   n4 == Len(r4)
<1>1. /\ A \in Seq(Events) /\ Len(A) = IF said THEN 1 ELSE 0
      /\ \A i \in 1..Len(A) : A[i].code = "slot" /\ Added(A[i], s, c)
  BY DEF IsPart
<1>2. /\ B \in Seq(Events) /\ Len(B) = IF c.what \in {"press", "release"} THEN 1 ELSE 0
      /\ \A i \in 1..Len(B) : B[i].code = "id" /\ Added(B[i], s, c)
  BY DEF IsPart
<1>3. /\ X \in Seq(Events) /\ Len(X) = IF c.place["x"] # old["x"] THEN 1 ELSE 0
      /\ \A i \in 1..Len(X) : X[i].code = "x" /\ Added(X[i], s, c)
  BY DEF IsPart
<1>4. /\ Y \in Seq(Events) /\ Len(Y) = IF c.place["y"] # old["y"] THEN 1 ELSE 0
      /\ \A i \in 1..Len(Y) : Y[i].code = "y" /\ Added(Y[i], s, c)
  BY DEF IsPart
<1>5. r = r4
  OBVIOUS
<1>6. /\ n1 = Len(A) /\ n2 = Len(r2) /\ n3 = Len(r3) /\ n4 = Len(r4)
      /\ r2 = A \o B /\ r3 = r2 \o X /\ r4 = r3 \o Y
  OBVIOUS
<1> HIDE DEF r2, r3, r4, n1, n2, n3, n4
<1>7. /\ r2 \in Seq(Events) /\ n2 = n1 + Len(B) /\ n1 \in Nat
      /\ \A i \in 1..n1 : r2[i] = A[i]
      /\ \A i \in n1 + 1..n2 : i - n1 \in 1..Len(B) /\ r2[i] = B[i - n1]
  <2>1. A \in Seq(Events) /\ B \in Seq(Events) /\ r2 = A \o B /\ n1 = Len(A) /\ n2 = Len(r2)
    BY <1>1, <1>2, <1>6
  <2> QED  BY <2>1, JoinFacts
<1>8. /\ r3 \in Seq(Events) /\ n3 = n2 + Len(X) /\ n2 \in Nat
      /\ \A i \in 1..n2 : r3[i] = r2[i]
      /\ \A i \in n2 + 1..n3 : i - n2 \in 1..Len(X) /\ r3[i] = X[i - n2]
  <2>1. r2 \in Seq(Events) /\ X \in Seq(Events) /\ r3 = r2 \o X /\ n2 = Len(r2) /\ n3 = Len(r3)
    BY <1>3, <1>6, <1>7
  <2> QED  BY <2>1, JoinFacts
<1>9. /\ r4 \in Seq(Events) /\ n4 = n3 + Len(Y) /\ n3 \in Nat
      /\ \A i \in 1..n3 : r4[i] = r3[i]
      /\ \A i \in n3 + 1..n4 : i - n3 \in 1..Len(Y) /\ r4[i] = Y[i - n3]
  <2>1. r3 \in Seq(Events) /\ Y \in Seq(Events) /\ r4 = r3 \o Y /\ n3 = Len(r3) /\ n4 = Len(r4)
    BY <1>4, <1>6, <1>8
  <2> QED  BY <2>1, JoinFacts
<1>10. Len(A) \in {0, 1} /\ Len(B) \in {0, 1} /\ Len(X) \in {0, 1} /\ Len(Y) \in {0, 1}
  BY <1>1, <1>2, <1>3, <1>4
<1>11. /\ n1 \in {0, 1} /\ n2 \in {n1, n1 + 1} /\ n3 \in {n2, n2 + 1} /\ n4 \in {n3, n3 + 1}
       /\ n1 = 1 <=> said
  <2>1. n1 \in {0, 1} /\ (n1 = 1 <=> said)
    BY <1>1, <1>6
  <2>2. n2 \in {n1, n1 + 1}
    BY <1>7, <1>10, OneMore
  <2>3. n3 \in {n2, n2 + 1}
    BY <1>8, <1>10, OneMore
  <2>4. n4 \in {n3, n3 + 1}
    BY <1>9, <1>10, OneMore
  <2> QED  BY <2>1, <2>2, <2>3, <2>4
<1>12. ASSUME NEW i \in 1..n1 PROVE r4[i].code = "slot" /\ Added(r4[i], s, c)
  <2>1. i \in 1..n2 /\ i \in 1..n3 /\ i \in 1..Len(A)
    BY <1>11, <1>6
  <2>2. r4[i] = A[i]
    BY <1>7, <1>8, <1>9, <2>1
  <2> QED  BY <1>1, <2>1, <2>2
<1>13. ASSUME NEW i \in n1 + 1..n2 PROVE r4[i].code = "id" /\ Added(r4[i], s, c)
  <2>1. i \in 1..n2 /\ i \in 1..n3
    BY <1>11
  <2>2. r4[i] = B[i - n1] /\ i - n1 \in 1..Len(B)
    BY <1>7, <1>8, <1>9, <2>1
  <2> QED  BY <1>2, <2>2
<1>14. ASSUME NEW i \in n2 + 1..n3 PROVE r4[i].code = "x" /\ Added(r4[i], s, c)
  <2>1. i \in 1..n3
    BY <1>11
  <2>2. r4[i] = X[i - n2] /\ i - n2 \in 1..Len(X)
    BY <1>8, <1>9, <2>1
  <2> QED  BY <1>3, <2>2
<1>15. ASSUME NEW i \in n3 + 1..n4 PROVE r4[i].code = "y" /\ Added(r4[i], s, c)
  <2>1. r4[i] = Y[i - n3] /\ i - n3 \in 1..Len(Y)
    BY <1>9
  <2> QED  BY <1>4, <2>1
<1>16. \A i \in 1..n4 : i \in 1..n1 \/ i \in n1 + 1..n2 \/ i \in n2 + 1..n3 \/ i \in n3 + 1..n4
  BY <1>11
<1>17. ASSUME NEW i \in 1..n4
       PROVE  Added(r4[i], s, c) /\ (r4[i].code = "slot" <=> i = 1 /\ said)
  <2>1. i \in 1..n1 <=> i = 1 /\ said
    BY <1>11
  <2> QED  BY <1>12, <1>13, <1>14, <1>15, <1>16, <2>1
<1>18. n4 \in 0..4 /\ (said => 1 <= n4) /\ (~said => n4 <= 3)
  BY <1>11
<1>19. c.what \in {"press", "release"} => \E i \in 1..n4 : r4[i].code = "id"
  <2> SUFFICES ASSUME c.what \in {"press", "release"} PROVE \E i \in 1..n4 : r4[i].code = "id"
    OBVIOUS
  <2>1. n2 = n1 + 1
    BY <1>2, <1>7
  <2>2. n2 \in n1 + 1..n2 /\ n2 \in 1..n4
    BY <1>11, <2>1
  <2> QED  BY <1>13, <2>2
<1>20. ASSUME NEW a \in Axes, c.place[a] # old[a] PROVE \E i \in 1..n4 : r4[i].code = a
  <2>1. CASE a = "x"
    <3>1. n3 = n2 + 1
      BY <1>3, <1>8, <1>20, <2>1
    <3>2. n3 \in n2 + 1..n3 /\ n3 \in 1..n4
      BY <1>11, <3>1
    <3> QED  BY <1>14, <2>1, <3>2
  <2>2. CASE a = "y"
    <3>1. n4 = n3 + 1
      BY <1>4, <1>9, <1>20, <2>2
    <3>2. n4 \in n3 + 1..n4 /\ n4 \in 1..n4
      BY <1>11, <3>1
    <3> QED  BY <1>15, <2>2, <3>2
  <2> QED  BY <2>1, <2>2 DEF Axes
<1>21. r4 \in Seq(Events) /\ Len(r4) = n4
  BY <1>6, <1>9
<1>22. \A a \in Axes : c.place[a] = old[a] \/ \E i \in 1..n4 : r4[i].code = a
  BY <1>20
<1> QED  BY <1>5, <1>17, <1>18, <1>19, <1>21, <1>22 DEF PartsFacts

(* The events of a packet that names no slot.                              *)
LEMMA PartsUnsaid ==
    ASSUME NEW r, NEW s, NEW c, NEW old, PartsFacts(r, s, c, old, FALSE)
    PROVE  Len(r) \in 0..3 /\ \A i \in 1..Len(r) : Added(r[i], s, c) /\ r[i].of = s
<1>1. Len(r) \in 0..3
  BY DEF PartsFacts
<1>2. \A i \in 1..Len(r) : Added(r[i], s, c)
  BY DEF PartsFacts
<1> QED  BY <1>1, <1>2 DEF Added

(* The packet of a slot.                                                   *)
LEMMA SlotPacketFacts ==
    ASSUME NEW last \in T!Slots, NEW s \in T!Slots, NEW c \in Deed, NEW r,
           r = T!SlotPacket(last, s, c)
    PROVE  PartsFacts(r, s, c, finger[s].place, s # last)
<1> DEFINE A == SlotSaid(s, last)
           B == T!SlotEvents(s, c)
           X == T!AxisEvents(s, c, "x")
           Y == T!AxisEvents(s, c, "y")
           said == s # last   old == finger[s].place
<1>1. IsPart(A, "slot", said, s, c)
  BY SlotPart DEF IsPart
<1>2. IsPart(B, "id", c.what \in {"press", "release"}, s, c)
  BY IdPart DEF IsPart
<1>3. IsPart(X, "x", c.place["x"] # old["x"], s, c)
  BY AxisPart DEF IsPart, Axes
<1>4. IsPart(Y, "y", c.place["y"] # old["y"], s, c)
  BY AxisPart DEF IsPart, Axes
<1>5. r = ((A \o B) \o X) \o Y
  BY DEF T!SlotPacket, SlotSaid
<1>6. said \in BOOLEAN
  OBVIOUS
<1> HIDE DEF A, B, X, Y, said, old
<1>7. PartsFacts(r, s, c, old, said)
  BY <1>1, <1>2, <1>3, <1>4, <1>5, <1>6, PartsAreWhole
<1> QED  BY <1>7 DEF said, old

(* A packet after another.                                                 *)
LEMMA JoinAgrees ==
    ASSUME NEW a \in Seq(Events), NEW b \in Seq(Events), NEW r, r = a \o b, NEW l1, NEW l2,
           Agrees(a, l1), Agrees(b, l2), Starts(b, l2, l1)
    PROVE  Agrees(r, l2) /\ \A s : Starts(a, l1, s) => Starts(r, l2, s)
<1> DEFINE m == Len(a)   z == Len(r)   d == Len(b)
<1>1. /\ z = m + d /\ m \in Nat /\ z \in Nat /\ d \in Nat
      /\ \A i \in 1..m : r[i] = a[i]
      /\ \A i \in m + 1..z : i - m \in 1..d /\ r[i] = b[i - m]
  BY JoinFacts
<1>2. m = Len(a) /\ z = Len(r) /\ d = Len(b)
  OBVIOUS
<1> HIDE DEF m, z, d
<1>3. ASSUME NEW i \in 1..m
      PROVE  (Counts(r, i) => Counts(a, i)) /\ About(r, l2, i) = About(a, l1, i)
  <2>1. i # z + 1 /\ i <= z /\ i <= m
    BY <1>1
  <2> QED  BY <1>1, <1>2, <2>1 DEF Counts, About
<1>4. ASSUME NEW i \in m + 1..z + 1
      PROVE  /\ i - m \in 1..d + 1
             /\ (Counts(r, i) => Counts(b, i - m)) /\ About(r, l2, i) = About(b, l2, i - m)
  <2>1. CASE i = z + 1
    <3>1. i - m = d + 1 /\ d + 1 \in 1..d + 1 /\ ~(i <= z) /\ ~(i - m <= d)
      BY <1>1, <2>1
    <3> QED  BY <1>2, <3>1 DEF Counts, About
  <2>2. CASE i # z + 1
    <3>1. i \in m + 1..z /\ i <= z
      BY <1>1, <2>2
    <3>2. i - m \in 1..d /\ r[i] = b[i - m]
      BY <1>1, <3>1
    <3>3. i - m \in 1..d + 1 /\ i - m <= d
      BY <1>1, <3>2
    <3> QED  BY <1>2, <2>2, <3>1, <3>2, <3>3 DEF Counts, About
  <2> QED  BY <2>1, <2>2
<1>5. ASSUME NEW i \in m + 1..z + 1, NEW j \in 1..d + 1, NoSlot(r, j + m, i - 1)
      PROVE  NoSlot(b, j, i - m - 1)
  <2>1. ASSUME NEW k \in j..i - m - 1 PROVE b[k].code # "slot"
    <3>1. k + m \in j + m..i - 1 /\ k + m \in m + 1..z /\ (k + m) - m = k
      BY <1>1
    <3>2. \A h \in m + 1..z : r[h] = b[h - m]
      BY <1>1
    <3>3. r[k + m] = b[(k + m) - m]
      BY <3>1, <3>2, Zenon
    <3>4. r[k + m].code # "slot"
      BY <1>5, <3>1 DEF NoSlot
    <3> QED  BY <3>1, <3>3, <3>4, Zenon
  <2> QED  BY <2>1 DEF NoSlot
<1>6. ASSUME NEW h \in 0..m, NEW j \in 1..h + 1, NEW e \in h..z, NoSlot(r, j, e)
      PROVE  NoSlot(a, j, h)
  <2>1. ASSUME NEW k \in j..h PROVE a[k].code # "slot"
    <3>1. k \in j..e /\ k \in 1..m
      BY <1>1
    <3> QED  BY <1>1, <1>6, <3>1 DEF NoSlot
  <2> QED  BY <2>1 DEF NoSlot
<1>7. Counts(a, m + 1) /\ About(a, l1, m + 1) = l1 /\ m + 1 \in 1..m + 1
      /\ m + 1 - 1 = m /\ m \in 0..m
  BY <1>1, <1>2 DEF Counts, About
<1>8. ASSUME NEW i \in m + 1..z + 1, Counts(r, i), NoSlot(r, m + 1, i - 1)
      PROVE  About(r, l2, i) = l1
  <2>1. 1 \in 1..d + 1 /\ 1 + m = m + 1
    BY <1>1
  <2>2. NoSlot(b, 1, i - m - 1)
    BY <1>5, <1>8, <2>1
  <2> QED  BY <1>2, <1>4, <1>8, <2>2 DEF Starts
<1>9. ASSUME NEW i \in 1..z + 1, NEW j \in 1..i - 1, Counts(r, i), r[j].code = "slot",
             NoSlot(r, j + 1, i - 1)
      PROVE  r[j].of = About(r, l2, i)
  <2>1. CASE i <= m
    <3>1. /\ i \in 1..m /\ i \in 1..m + 1 /\ j \in 1..m /\ j + 1 \in 1..i - 1 + 1
          /\ i - 1 \in 0..m /\ i - 1 \in i - 1..z
      BY <1>1, <2>1
    <3>2. NoSlot(a, j + 1, i - 1)
      BY <1>6, <1>9, <3>1
    <3>3. a[j].of = About(a, l1, i)
      BY <1>1, <1>2, <1>3, <1>9, <3>1, <3>2 DEF Agrees
    <3> QED  BY <1>1, <1>3, <3>1, <3>3
  <2>2. CASE i > m /\ j > m
    <3>1. i \in m + 1..z + 1 /\ j \in m + 1..z /\ j - m + 1 \in 1..d + 1 /\ j - m + 1 + m = j + 1
      BY <1>1, <2>2
    <3>2. NoSlot(b, j - m + 1, i - m - 1)
      BY <1>5, <1>9, <3>1
    <3>3. i - m \in 1..d + 1 /\ j - m \in 1..i - m - 1
      BY <1>1, <2>2
    <3>4. b[j - m].of = About(b, l2, i - m)
      BY <1>1, <1>2, <1>4, <1>9, <3>1, <3>2, <3>3 DEF Agrees
    <3> QED  BY <1>1, <1>4, <3>1, <3>4
  <2>3. CASE i > m /\ j <= m
    <3>1. /\ i \in m + 1..z + 1 /\ j \in 1..m /\ j \in 1..m + 1 - 1 /\ j + 1 \in 1..m + 1
          /\ i - 1 \in m..z
      BY <1>1, <2>3
    <3>2. NoSlot(a, j + 1, m)
      BY <1>6, <1>7, <1>9, <3>1
    <3>3. a[j].of = l1
      <4>1. a[j].code = "slot" /\ NoSlot(a, j + 1, m + 1 - 1)
        BY <1>1, <1>7, <1>9, <3>1, <3>2
      <4>2. \A i1 \in 1..m + 1 : \A j1 \in 1..i1 - 1 :
              Counts(a, i1) /\ a[j1].code = "slot" /\ NoSlot(a, j1 + 1, i1 - 1)
              => a[j1].of = About(a, l1, i1)
        BY <1>2 DEF Agrees
      <4> QED  BY <1>7, <3>1, <4>1, <4>2
    <3>4. NoSlot(r, m + 1, i - 1)
      <4>1. \A k \in m + 1..i - 1 : k \in j + 1..i - 1
        BY <1>1, <2>3
      <4> QED  BY <1>9, <4>1 DEF NoSlot
    <3>5. About(r, l2, i) = l1
      BY <1>8, <1>9, <3>1, <3>4
    <3> QED  BY <1>1, <3>1, <3>3, <3>5
  <2>4. i <= m \/ (i > m /\ j > m) \/ (i > m /\ j <= m)
    BY <1>1
  <2> QED  BY <2>1, <2>2, <2>3, <2>4
<1>10. ASSUME NEW s, Starts(a, l1, s), NEW i \in 1..z + 1, Counts(r, i), NoSlot(r, 1, i - 1)
       PROVE  About(r, l2, i) = s
  <2>1. CASE i <= m
    <3>1. /\ i \in 1..m /\ i \in 1..m + 1 /\ 1 \in 1..i - 1 + 1
          /\ i - 1 \in 0..m /\ i - 1 \in i - 1..z
      BY <1>1, <2>1
    <3>2. NoSlot(a, 1, i - 1)
      BY <1>6, <1>10, <3>1
    <3> QED  BY <1>2, <1>3, <1>10, <3>1, <3>2 DEF Starts
  <2>2. CASE i > m
    <3>1. i \in m + 1..z + 1 /\ 1 \in 1..m + 1 /\ i - 1 \in m..z
      BY <1>1, <2>2
    <3>2. NoSlot(a, 1, m)
      BY <1>6, <1>7, <1>10, <3>1
    <3>3. l1 = s
      BY <1>2, <1>7, <1>10, <3>2 DEF Starts
    <3>4. NoSlot(r, m + 1, i - 1)
      <4>1. \A k \in m + 1..i - 1 : k \in 1..i - 1
        BY <1>1, <2>2
      <4> QED  BY <1>10, <4>1 DEF NoSlot
    <3>5. About(r, l2, i) = l1
      BY <1>8, <1>10, <3>1, <3>4
    <3> QED  BY <3>3, <3>5
  <2> QED  BY <1>1, <2>1, <2>2
<1>11. Agrees(r, l2)
  BY <1>2, <1>9 DEF Agrees
<1> QED  BY <1>2, <1>10, <1>11 DEF Starts

(* From its k-th event on the queue q stands in r, d further on.           *)
Inside(q, r, d, k) ==
    /\ q \in Seq(Events) /\ r \in Seq(Events) /\ d \in Int /\ k \in Nat \ {0}
    /\ \A i \in k..Len(q) : i + d \in 1..Len(r) /\ r[i + d] = q[i]

(* An event of a report stays one.                                         *)
LEMMA InsidePart ==
    ASSUME NEW q, NEW r, NEW d, NEW k, Inside(q, r, d, k),
           NEW p \in k..Len(q), NEW i \in k..p - 1
    PROVE  Part(q, i, p) <=> Part(r, i + d, p + d)
<1> DEFINE z == Len(q)
<1>1. /\ z \in Nat /\ d \in Int /\ k \in Nat \ {0} /\ i \in Int /\ p \in Int
      /\ \A j \in k..z : r[j + d] = q[j]
  BY DEF Inside
<1>2. \A j \in k..z : j + d \in 1..Len(r)
  BY DEF Inside
<1>3. Len(r) \in Nat
  BY DEF Inside
<1> HIDE DEF z
<1>4. i \in 1..p - 1 /\ p \in k..z /\ i \in k..z
  BY <1>1 DEF z
<1>5. i + d \in 1..Len(r) /\ r[p + d] = q[p]
  BY <1>1, <1>2, <1>4
<1>6. i + d \in 1..(p + d) - 1
  BY <1>1, <1>3, <1>4, <1>5
<1>7. ASSUME \A j \in i..p - 1 : q[j].code # "report", NEW h \in i + d..(p + d) - 1
      PROVE  r[h].code # "report"
  <2>1. h - d \in i..p - 1 /\ (h - d) + d = h
    BY <1>1
  <2>2. h - d \in k..z
    BY <1>1, <1>4, <2>1
  <2>3. r[(h - d) + d] = q[h - d] /\ q[h - d].code # "report"
    BY <1>1, <1>7, <2>1, <2>2
  <2> QED  BY <2>1, <2>3, Zenon
<1>8. ASSUME \A h \in i + d..(p + d) - 1 : r[h].code # "report", NEW j \in i..p - 1
      PROVE  q[j].code # "report"
  <2>1. j + d \in i + d..(p + d) - 1 /\ j \in k..z
    BY <1>1, <1>4
  <2> QED  BY <1>1, <1>8, <2>1
<1>9. (\A j \in i..p - 1 : q[j].code # "report")
      <=> \A h \in i + d..(p + d) - 1 : r[h].code # "report"
  BY <1>7, <1>8
<1> QED  BY <1>4, <1>5, <1>6, <1>9 DEF Part

(* What a report tells it tells still.                                     *)
LEMMA InsideTells ==
    ASSUME NEW q, NEW r, NEW d, NEW k, Inside(q, r, d, k), NEW p \in k..Len(q), NEW s, NEW codes
    PROVE  /\ \A i \in k..p - 1 :
                  Part(r, i + d, p + d) /\ r[i + d].of = s /\ r[i + d].code \in codes
                  => Tells(q, p, s, codes)
           /\ k = 1 /\ Tells(q, p, s, codes) => Tells(r, p + d, s, codes)
<1>1. /\ d \in Int /\ k \in Nat \ {0} /\ Len(q) \in Nat
      /\ \A i \in k..Len(q) : i + d \in 1..Len(r) /\ r[i + d] = q[i]
  BY DEF Inside
<1>2. ASSUME NEW i \in k..p - 1 PROVE i \in 1..p - 1 /\ i \in k..Len(q) /\ r[i + d] = q[i]
  BY <1>1
<1>3. ASSUME NEW i \in k..p - 1, Part(r, i + d, p + d), r[i + d].of = s, r[i + d].code \in codes
      PROVE  Tells(q, p, s, codes)
  BY <1>2, <1>3, InsidePart DEF Tells
<1>4. ASSUME k = 1, NEW i \in 1..p - 1, Part(q, i, p), q[i].of = s, q[i].code \in codes
      PROVE  Tells(r, p + d, s, codes)
  <2>1. Part(r, i + d, p + d)
    BY <1>4, InsidePart
  <2>2. i + d \in 1..(p + d) - 1
    BY <2>1 DEF Part
  <2> QED  BY <1>2, <1>4, <2>1, <2>2 DEF Tells
<1>5. k = 1 /\ Tells(q, p, s, codes) => Tells(r, p + d, s, codes)
  BY <1>4 DEF Tells
<1> QED  BY <1>3, <1>5

(* Two reports after one another stay so.                                  *)
LEMMA InsideReports ==
    ASSUME NEW q, NEW r, NEW d, NEW k, Inside(q, r, d, k),
           NEW p \in k..Len(q), NEW o \in k..p - 1
    PROVE  NextReport(q, o, p) <=> NextReport(r, o + d, p + d)
<1>1. /\ Len(q) \in Nat /\ d \in Int /\ k \in Nat \ {0} /\ o \in Int /\ p \in Int
      /\ \A j \in k..Len(q) : r[j + d] = q[j]
  BY DEF Inside
<1>2. \A j \in k..Len(q) : j + d \in 1..Len(r)
  BY DEF Inside
<1>3. o \in k..Len(q) /\ p \in 1..Len(q) /\ o \in 1..p - 1 /\ Len(r) \in Nat
  BY <1>1 DEF Inside
<1>4. r[o + d] = q[o] /\ r[p + d] = q[p] /\ p + d \in 1..Len(r) /\ o + d \in 1..Len(r)
  BY <1>1, <1>2, <1>3
<1>5. o + d \in 1..(p + d) - 1
  BY <1>1, <1>3, <1>4
<1>6. ASSUME \A j \in o + 1..p - 1 : q[j].code # "report", NEW h \in o + d + 1..(p + d) - 1
      PROVE  r[h].code # "report"
  <2>1. h - d \in o + 1..p - 1 /\ (h - d) + d = h
    BY <1>1
  <2>2. h - d \in k..Len(q)
    BY <1>1, <1>3, <2>1
  <2>3. r[(h - d) + d] = q[h - d] /\ q[h - d].code # "report"
    BY <1>1, <1>6, <2>1, <2>2
  <2> QED  BY <2>1, <2>3, Zenon
<1>7. ASSUME \A h \in o + d + 1..(p + d) - 1 : r[h].code # "report", NEW j \in o + 1..p - 1
      PROVE  q[j].code # "report"
  <2>1. j + d \in o + d + 1..(p + d) - 1 /\ j \in k..Len(q)
    BY <1>1, <1>3
  <2> QED  BY <1>1, <1>7, <2>1
<1>8. (\A j \in o + 1..p - 1 : q[j].code # "report")
          <=> \A h \in o + d + 1..(p + d) - 1 : r[h].code # "report"
  BY <1>6, <1>7
<1> QED  BY <1>3, <1>4, <1>5, <1>8 DEF NextReport

(* What holds of a queue holds of its rest, also of the rest after a loss. *)
LEMMA RestHolds ==
    ASSUME NEW q, NEW r, NEW d, NEW k \in {1, 2}, Inside(q, r, d, k), Len(r) = Len(q) + d,
           k = 2 => Len(q) >= 1 /\ q[1].code = "dropped"
    PROVE  /\ Truth(r) => Truth(q)
           /\ AllTold(r) => AllTold(q)
           /\ \A l : Agrees(r, l) => Agrees(q, l)
<1> DEFINE z == Len(q)
<1>1. /\ z \in Nat /\ d \in Int /\ k \in Nat \ {0} /\ Len(r) \in Nat /\ Len(r) = z + d
      /\ \A i \in k..z : r[i + d] = q[i]
  BY DEF Inside
<1>2. \A i \in k..z : i + d \in 1..Len(r)
  BY DEF Inside
<1>3. z = Len(q)
  OBVIOUS
<1> HIDE DEF z
<1>4. ASSUME NEW i \in 1..z, q[i].code # "dropped" PROVE i \in k..z
  BY <1>1, <1>3, <1>4
<1>5. ASSUME Truth(r) PROVE Truth(q)
  <2> SUFFICES ASSUME NEW p \in 1..z, NEW i \in 1..p - 1, Part(q, i, p)
               PROVE  Says(q[i], q[p].value[q[i].of])
    BY <1>3 DEF Truth
  <2>1. CASE i < k
    <3>1. i = 1 /\ k = 2
      BY <1>1, <2>1
    <3>2. q[i].code = "dropped"
      BY <3>1
    <3> QED  BY <3>2 DEF Says, Moves, Axes
  <2>2. CASE i >= k
    <3>1. p \in k..z /\ i \in k..p - 1 /\ i \in k..z
      BY <1>1, <2>2
    <3>2. Part(r, i + d, p + d)
      BY <1>3, <3>1, InsidePart
    <3>3. p + d \in 1..Len(r) /\ i + d \in 1..(p + d) - 1
      BY <1>2, <3>1, <3>2 DEF Part
    <3>4. Says(r[i + d], r[p + d].value[r[i + d].of])
      BY <1>5, <3>2, <3>3 DEF Truth
    <3> QED  BY <1>1, <3>1, <3>4
  <2> QED  BY <1>1, <2>1, <2>2
<1>6. ASSUME AllTold(r) PROVE AllTold(q)
  <2> SUFFICES ASSUME NEW p \in 1..z, NEW o \in 1..p - 1, NextReport(q, o, p), NEW s \in T!Slots
               PROVE  Told(q, p, s, q[p].value[s], q[o].value[s].place)
    BY <1>3 DEF AllTold
  <2>1. o \in k..z /\ p \in k..z /\ o \in k..p - 1
    <3>1. o \in 1..z /\ q[o].code = "report"
      BY <1>1 DEF NextReport
    <3>2. o \in k..z
      BY <1>4, <3>1
    <3> QED  BY <1>1, <3>2
  <2>2. NextReport(r, o + d, p + d)
    BY <1>3, <2>1, InsideReports
  <2>3. p + d \in 1..Len(r) /\ o + d \in 1..(p + d) - 1
    BY <2>2 DEF NextReport
  <2>4. Told(r, p + d, s, r[p + d].value[s], r[o + d].value[s].place)
    BY <1>6, <2>2, <2>3 DEF AllTold
  <2>5. r[p + d] = q[p] /\ r[o + d] = q[o]
    BY <1>1, <2>1
  <2>6. ASSUME NEW codes, Tells(r, p + d, s, codes) PROVE Tells(q, p, s, codes)
    <3>1. PICK h \in 1..(p + d) - 1 : Part(r, h, p + d) /\ r[h].of = s /\ r[h].code \in codes
      BY <2>6 DEF Tells
    <3>2. ~(h <= o + d)
      <4> SUFFICES ASSUME h <= o + d PROVE FALSE
        OBVIOUS
      <4>1. o + d \in h..(p + d) - 1
        BY <1>1, <2>3
      <4>2. r[o + d].code # "report"
        BY <3>1, <4>1 DEF Part
      <4> QED  BY <2>2, <4>2 DEF NextReport
    <3>3. h - d \in k..p - 1 /\ (h - d) + d = h
      BY <1>1, <2>1, <3>2
    <3> DEFINE i == h - d
    <3>4. i \in k..p - 1 /\ i + d = h
      BY <3>3
    <3> HIDE DEF i
    <3> QED  BY <1>3, <2>1, <3>1, <3>4, InsideTells
  <2>7. Told(r, p + d, s, q[p].value[s], q[o].value[s].place)
    BY <2>4, <2>5
  <2> QED  BY <2>6, <2>7 DEF Told
<1>7. ASSUME NEW l, Agrees(r, l) PROVE Agrees(q, l)
  <2> SUFFICES ASSUME NEW i \in 1..z + 1, NEW j \in 1..i - 1, Counts(q, i), q[j].code = "slot",
                      NoSlot(q, j + 1, i - 1)
               PROVE  q[j].of = About(q, l, i)
    BY <1>3 DEF Agrees
  <2>1. j \in k..z /\ i \in k..z + 1
    <3>1. j \in 1..z
      BY <1>1
    <3>2. j \in k..z
      BY <1>4, <3>1
    <3> QED  BY <1>1, <3>2
  <2>2. Counts(r, i + d) /\ About(r, l, i + d) = About(q, l, i)
    <3>1. CASE i = z + 1
      <4>0. i + d = Len(r) + 1
        BY <1>1, <3>1
      <4>1. i + d = Len(r) + 1 /\ ~(i + d <= Len(r)) /\ ~(i <= z)
        BY <1>1, <3>1, <4>0
      <4> QED  BY <1>3, <4>1 DEF Counts, About
    <3>2. CASE i # z + 1
      <4>1. i \in k..z /\ i <= z
        <5>1. z \in Nat /\ k \in Nat
          BY <1>1
        <5> QED  BY <2>1, <3>2, <5>1
      <4>2. r[i + d] = q[i] /\ i + d <= Len(r) /\ i + d \in Int
        BY <1>1, <1>2, <4>1
      <4> QED  BY <1>3, <3>2, <4>1, <4>2 DEF Counts, About
    <3> QED  BY <3>1, <3>2
  <2>3. r[j + d] = q[j] /\ j + d \in 1..(i + d) - 1 /\ i + d \in 1..Len(r) + 1
    BY <1>1, <1>2, <2>1
  <2>4. NoSlot(r, (j + d) + 1, (i + d) - 1)
    <3>1. ASSUME NEW h \in (j + d) + 1..(i + d) - 1 PROVE r[h].code # "slot"
      <4>1. h - d \in j + 1..i - 1 /\ h - d \in k..z /\ (h - d) + d = h
        BY <1>1, <2>1
      <4>2. r[(h - d) + d] = q[h - d] /\ q[h - d].code # "slot"
        BY <1>1, <4>1 DEF NoSlot
      <4> QED  BY <4>1, <4>2, Zenon
    <3> QED  BY <3>1 DEF NoSlot
  <2>5. r[j + d].of = About(r, l, i + d)
    BY <1>7, <2>2, <2>3, <2>4 DEF Agrees
  <2> QED  BY <2>2, <2>3, <2>5
<1> QED  BY <1>5, <1>6, <1>7

(* An event before the last one.                                           *)
LEMMA Before ==
    ASSUME NEW m \in Nat, NEW k, k = m + 1, NEW i \in 1..m + 1, i # m + 1
    PROVE  i \in 1..m /\ i <= m /\ i + 1 <= k
OBVIOUS

(* What is left after a read stands in what was there.                     *)
LEMMA TailInside ==
    ASSUME NEW r \in Seq(Events), r # <<>>, NEW q, q = Tail(r)
    PROVE  Inside(q, r, 1, 1) /\ Len(r) = Len(q) + 1 /\ Len(q) \in Nat
<1>1. q \in Seq(Events) /\ Len(r) = Len(q) + 1 /\ Len(q) \in Nat
  OBVIOUS
<1>2. \A i \in 1..Len(q) : i + 1 \in 1..Len(r) /\ r[i + 1] = q[i]
  OBVIOUS
<1> QED  BY <1>1, <1>2 DEF Inside

(* One event is read.                                                      *)
LEMMA TailStarts ==
    ASSUME NEW r \in Seq(Events), r # <<>>, NEW q, q = Tail(r), NEW l
    PROVE  /\ r[1].code # "slot" => \A s : Starts(r, l, s) => Starts(q, l, s)
           /\ r[1].code = "slot" /\ Agrees(r, l) => Starts(q, l, r[1].of)
<1>1. /\ Len(r) = Len(q) + 1 /\ Len(q) \in Nat
      /\ \A i \in 1..Len(q) : i + 1 \in 1..Len(r) /\ r[i + 1] = q[i]
  BY TailInside DEF Inside
<1>2. ASSUME NEW i \in 1..Len(q) + 1, Counts(q, i), NoSlot(q, 1, i - 1)
      PROVE  /\ i + 1 \in 1..Len(r) + 1 /\ Counts(r, i + 1) /\ NoSlot(r, 2, (i + 1) - 1)
             /\ About(r, l, i + 1) = About(q, l, i)
  <2>1. i + 1 \in 1..Len(r) + 1
    BY <1>1
  <2>2. Counts(r, i + 1) /\ About(r, l, i + 1) = About(q, l, i)
    <3>1. CASE i = Len(q) + 1
      <4>1. i + 1 = Len(r) + 1 /\ ~(i + 1 <= Len(r)) /\ ~(i <= Len(q))
        BY <1>1, <3>1
      <4> QED  BY <4>1 DEF Counts, About
    <3>2. CASE i # Len(q) + 1
      <4>1. i \in 1..Len(q) /\ i <= Len(q) /\ i + 1 <= Len(r)
        BY <1>1, <1>2, <3>2, Before
      <4> QED  BY <1>1, <1>2, <3>2, <4>1 DEF Counts, About
    <3> QED  BY <3>1, <3>2
  <2>3. ASSUME NEW h \in 2..(i + 1) - 1 PROVE r[h].code # "slot"
    <3>1. h - 1 \in 1..i - 1 /\ h - 1 \in 1..Len(q) /\ (h - 1) + 1 = h
      BY <1>1
    <3>2. r[(h - 1) + 1] = q[h - 1] /\ q[h - 1].code # "slot"
      BY <1>1, <1>2, <3>1 DEF NoSlot
    <3> QED  BY <3>1, <3>2, Zenon
  <2> QED  BY <2>1, <2>2, <2>3 DEF NoSlot
<1>3. ASSUME r[1].code # "slot", NEW s, Starts(r, l, s) PROVE Starts(q, l, s)
  <2> SUFFICES ASSUME NEW i \in 1..Len(q) + 1, Counts(q, i), NoSlot(q, 1, i - 1)
               PROVE  About(q, l, i) = s
    BY DEF Starts
  <2>1. /\ i + 1 \in 1..Len(r) + 1 /\ Counts(r, i + 1) /\ NoSlot(r, 2, (i + 1) - 1)
        /\ About(r, l, i + 1) = About(q, l, i)
    BY <1>2
  <2>2. NoSlot(r, 1, (i + 1) - 1)
    <3>1. \A h \in 1..(i + 1) - 1 : h = 1 \/ h \in 2..(i + 1) - 1
      OBVIOUS
    <3> QED  BY <1>3, <2>1, <3>1 DEF NoSlot
  <2> QED  BY <1>3, <2>1, <2>2 DEF Starts
<1>4. ASSUME r[1].code = "slot", Agrees(r, l) PROVE Starts(q, l, r[1].of)
  <2> SUFFICES ASSUME NEW i \in 1..Len(q) + 1, Counts(q, i), NoSlot(q, 1, i - 1)
               PROVE  About(q, l, i) = r[1].of
    BY DEF Starts
  <2>1. /\ i + 1 \in 1..Len(r) + 1 /\ Counts(r, i + 1) /\ NoSlot(r, 2, (i + 1) - 1)
        /\ About(r, l, i + 1) = About(q, l, i)
    BY <1>2
  <2>2. 1 \in 1..(i + 1) - 1 /\ 1 + 1 = 2
    BY <1>1
  <2>3. NoSlot(r, 1 + 1, (i + 1) - 1)
    BY <2>1, <2>2
  <2> QED  BY <1>4, <2>1, <2>2, <2>3 DEF Agrees
<1> QED  BY <1>3, <1>4

(* q is left of r when an event has been read.                             *)
ReadFrom(r, q) == r \in Seq(Events) /\ r # <<>> /\ q = Tail(r)

(* The first report after a read was the next one before it.               *)
LEMMA TailFirst ==
    ASSUME NEW r, NEW q, ReadFrom(r, q), NEW p, FirstReport(q, p)
    PROVE  /\ p \in 1..Len(q) /\ p + 1 \in 1..Len(r) /\ r[p + 1] = q[p]
           /\ r[1].code # "report" => FirstReport(r, p + 1) /\ Part(r, 1, p + 1)
           /\ r[1].code = "report" => NextReport(r, 1, p + 1)
<1>1. /\ Len(r) = Len(q) + 1 /\ Len(q) \in Nat
      /\ \A i \in 1..Len(q) : i + 1 \in 1..Len(r) /\ r[i + 1] = q[i]
  BY TailInside DEF Inside, ReadFrom
<1>2. p \in 1..Len(q) /\ p + 1 \in 1..Len(r) /\ r[p + 1] = q[p] /\ 1 \in 1..(p + 1) - 1
      /\ q[p].code = "report"
  BY <1>1 DEF FirstReport
<1>3. ASSUME NEW h \in 2..(p + 1) - 1 PROVE r[h].code # "report"
  <2>1. h - 1 \in 1..p - 1 /\ h - 1 \in 1..Len(q) /\ (h - 1) + 1 = h
    BY <1>1, <1>2
  <2>2. r[(h - 1) + 1] = q[h - 1] /\ q[h - 1].code # "report"
    BY <1>1, <2>1 DEF FirstReport
  <2> QED  BY <2>1, <2>2, Zenon
<1>4. \A h \in 1..(p + 1) - 1 : h = 1 \/ h \in 2..(p + 1) - 1
  BY <1>2
<1>5. ASSUME r[1].code # "report" PROVE FirstReport(r, p + 1) /\ Part(r, 1, p + 1)
  BY <1>2, <1>3, <1>4, <1>5 DEF FirstReport, Part
<1>6. 1 + 1 = 2
  OBVIOUS
<1>7. ASSUME r[1].code = "report" PROVE NextReport(r, 1, p + 1)
  BY <1>2, <1>3, <1>6, <1>7 DEF NextReport
<1> QED  BY <1>2, <1>5, <1>7

(* A report tells what it told but for the event that has been read.       *)
LEMMA TailTells ==
    ASSUME NEW r, NEW q, ReadFrom(r, q), NEW p \in 1..Len(q),
           NEW s, NEW codes, Tells(r, p + 1, s, codes),
           r[1].code = "report" \/ r[1].of # s \/ r[1].code \notin codes
    PROVE  Tells(q, p, s, codes)
<1>1. Inside(q, r, 1, 1) /\ Len(q) \in Nat
  BY TailInside DEF ReadFrom
<1>2. PICK h \in 1..(p + 1) - 1 : Part(r, h, p + 1) /\ r[h].of = s /\ r[h].code \in codes
  BY DEF Tells
<1>3. h # 1
  <2> SUFFICES ASSUME h = 1 PROVE FALSE
    OBVIOUS
  <2>1. h \in h..(p + 1) - 1
    BY <1>1
  <2>2. r[h].code # "report"
    BY <1>2, <2>1 DEF Part
  <2> QED  BY <1>2, <2>2
<1> DEFINE i == h - 1
<1>4. i \in 1..p - 1 /\ i + 1 = h
  BY <1>1, <1>3
<1> HIDE DEF i
<1> QED  BY <1>1, <1>2, <1>4, InsideTells

(* The packet of a slot agrees with its slot, and starts with the slot     *)
(* that was sent last.                                                     *)
LEMMA SlotPacketAgrees ==
    ASSUME NEW last \in T!Slots, NEW s \in T!Slots, NEW c \in Deed, NEW r,
           r = T!SlotPacket(last, s, c)
    PROVE  Agrees(r, s) /\ Starts(r, s, last)
<1>1. /\ Len(r) \in Nat /\ (s # last => 1 <= Len(r))
      /\ \A i \in 1..Len(r) : r[i].of = s /\ (r[i].code = "slot" <=> i = 1 /\ s # last)
  BY SlotPacketFacts DEF PartsFacts, Added
<1>2. ASSUME NEW i \in 1..Len(r) + 1 PROVE About(r, s, i) = s
  <2>1. CASE i = Len(r) + 1
    <3>1. ~(i <= Len(r))
      BY <1>1, <2>1
    <3> QED  BY <3>1 DEF About
  <2>2. CASE i # Len(r) + 1
    <3>1. i \in 1..Len(r)
      BY <1>1, <2>2, Before
    <3> QED  BY <1>1, <3>1 DEF About
  <2> QED  BY <2>1, <2>2
<1>3. ASSUME NEW i \in 1..Len(r) + 1, NEW j \in 1..i - 1 PROVE r[j].of = s
  <2>1. j \in 1..Len(r)
    BY <1>1
  <2> QED  BY <1>1, <2>1
<1>4. Agrees(r, s)
  BY <1>2, <1>3 DEF Agrees
<1>5. ASSUME NEW i \in 1..Len(r) + 1, Counts(r, i), NoSlot(r, 1, i - 1), s # last PROVE FALSE
  <2>1. 1 \in 1..Len(r) /\ r[1].code = "slot"
    BY <1>1, <1>5
  <2>2. CASE i = 1
    <3>1. i # Len(r) + 1
      BY <1>1, <1>5, <2>2
    <3> QED  BY <1>5, <2>1, <2>2, <3>1 DEF Counts, Moves
  <2>3. CASE i # 1
    <3>1. 1 \in 1..i - 1
      BY <1>1, <2>3
    <3> QED  BY <1>5, <2>1, <3>1 DEF NoSlot
  <2> QED  BY <2>2, <2>3
<1> QED  BY <1>2, <1>4, <1>5 DEF Starts

(* An event of slot s with a code is among ev.                             *)
SaidOf(ev, s, code) == \E i \in 1..Len(ev) : ev[i].of = s /\ ev[i].code = code

(* What the packet p says once the slots up to m have been added.          *)
Sent(p, change, m) ==
    /\ p.events \in Queues /\ p.last \in T!Slots /\ Len(p.events) <= 4 * (m + 1)
    /\ \A i \in 1..Len(p.events) : /\ p.events[i].code \in {"slot", "id", "x", "y"}
                                   /\ Says(p.events[i], change[p.events[i].of])
    /\ Agrees(p.events, p.last) /\ Starts(p.events, p.last, kslot)
    /\ \A s \in 0..m :
           /\ change[s].what \in {"press", "release"} => SaidOf(p.events, s, "id")
           /\ \A a \in Axes : change[s].place[a] = finger[s].place[a] \/ SaidOf(p.events, s, a)

(* What fingers can do in a frame.                                         *)
Can(change) == change \in [T!Slots -> Deed] /\ \A s \in T!Slots : change[s] \in T!Changes(finger[s])

(* Nothing has been said before the first slot.                            *)
LEMMA SentFirst ==
    ASSUME NEW change, kslot \in T!Slots
    PROVE  Sent([events |-> <<>>, last |-> kslot], change, -1)
<1> DEFINE q == <<>>   p == [events |-> <<>>, last |-> kslot]
<1>1. q \in Seq(Events) /\ Len(q) = 0
  OBVIOUS
<1>2. p.events = q /\ p.last = kslot
  OBVIOUS
<1> HIDE DEF q, p
<1>3. q \in Queues /\ Len(q) <= 4 * (-1 + 1) /\ \A i \in 1..Len(q) : FALSE
  BY <1>1 DEF Queues
<1>4. \A i \in 1..Len(q) + 1 : i = 1 /\ \A j \in 1..i - 1 : FALSE
  BY <1>1
<1>5. About(q, kslot, 1) = kslot
  BY <1>1 DEF About
<1>6. Agrees(q, kslot) /\ Starts(q, kslot, kslot)
  BY <1>4, <1>5 DEF Agrees, Starts
<1>7. \A s \in 0..-1 : FALSE
  OBVIOUS
<1>8. Sent(p, change, -1)
  BY <1>2, <1>3, <1>6, <1>7 DEF Sent
<1> QED  BY <1>8 DEF p

(* A slot is added.                                                        *)
LEMMA SentNext ==
    ASSUME NEW change, Can(change), NEW s \in T!Slots, NEW p, Sent(p, change, s - 1)
    PROVE  Sent(T!AddSlot(p, s, change[s]), change, s)
<1> DEFINE c == change[s]   M == T!SlotPacket(p.last, s, c)   w == T!AddSlot(p, s, c)
<1>1. s \in Nat /\ c \in Deed /\ c \in T!Changes(finger[s])
  BY QueueAssumption DEF T!Slots, Can
<1>2. \A h \in 0..s : h = s \/ h \in 0..s - 1
  BY <1>1
<1>3. p.events \in Seq(Events) /\ p.last \in T!Slots /\ Len(p.events) <= 4 * s
  BY <1>1 DEF Sent, Queues
<1>4. CASE c.what = "none"
  <2>1. w = p
    BY <1>4 DEF T!AddSlot
  <2>2. c.place = finger[s].place
    BY <1>1, <1>4 DEF T!Changes
  <2>3. Len(p.events) <= 4 * (s + 1)
    BY <1>1, <1>3
  <2> HIDE DEF w
  <2>4. Sent(p, change, s)
    BY <1>2, <1>4, <2>2, <2>3 DEF Sent
  <2> QED  BY <2>1, <2>4 DEF w
<1>5. CASE c.what # "none"
  <2> DEFINE r == p.events \o M   m == Len(p.events)
  <2>1. w = [events |-> r, last |-> s]
    BY <1>5 DEF T!AddSlot
  <2>2. /\ M \in Seq(Events) /\ Len(M) \in 0..4
        /\ \A i \in 1..Len(M) : Added(M[i], s, c)
        /\ c.what \in {"press", "release"} => \E i \in 1..Len(M) : M[i].code = "id"
        /\ \A a \in Axes : c.place[a] = finger[s].place[a] \/ \E i \in 1..Len(M) : M[i].code = a
    <3>1. M = T!SlotPacket(p.last, s, c)
      OBVIOUS
    <3> DEFINE last == p.last
    <3>2. last \in T!Slots /\ M = T!SlotPacket(last, s, c) /\ c \in Deed
      BY <1>1, <1>3, <3>1
    <3> HIDE DEF M, c, last
    <3>3. PartsFacts(M, s, c, finger[s].place, s # last)
      BY <3>2, SlotPacketFacts
    <3> QED  BY <3>3 DEF PartsFacts
  <2>3. Agrees(M, s) /\ Starts(M, s, p.last)
    BY <1>1, <1>3, SlotPacketAgrees
  <2>4. w.events = r /\ w.last = s
    <3> HIDE DEF w, r
    <3> QED  BY <2>1
  <2>5. r = p.events \o M /\ m = Len(p.events)
    OBVIOUS
  <2> HIDE DEF w, r, m, M, c
  <2>6. Agrees(r, s) /\ Starts(r, s, kslot)
    <3>1. Agrees(p.events, p.last) /\ Starts(p.events, p.last, kslot)
      BY DEF Sent
    <3> DEFINE a == p.events   l == p.last
    <3>2. a \in Seq(Events) /\ r = a \o M /\ Agrees(a, l) /\ Starts(a, l, kslot)
          /\ M \in Seq(Events) /\ Agrees(M, s) /\ Starts(M, s, l)
      BY <1>3, <2>2, <2>3, <2>5, <3>1
    <3> HIDE DEF a, l
    <3>3. Agrees(r, s)
      BY <3>2, JoinAgrees
    <3>4. \A k : Starts(a, l, k) => Starts(r, s, k)
      BY <3>2, JoinAgrees
    <3> QED  BY <3>2, <3>3, <3>4
  <2>7. /\ r \in Seq(Events) /\ Len(r) = m + Len(M) /\ m \in Nat
        /\ \A i \in 1..m : r[i] = p.events[i]
        /\ \A i \in m + 1..Len(r) : i - m \in 1..Len(M) /\ r[i] = M[i - m]
    BY <1>3, <2>2, <2>5, JoinFacts
  <2>8. m <= 4 * s /\ Len(M) \in Nat /\ Len(M) <= 4
    <3>1. m <= 4 * s
      BY <1>3, <2>5
    <3>2. \A k \in 0..4 : k \in Nat /\ k <= 4
      OBVIOUS
    <3> QED  BY <2>2, <3>1, <3>2
  <2>9. Len(r) <= 4 * (s + 1) /\ Len(r) \in Nat
    BY <1>1, <2>7, <2>8
  <2>10. \A i \in 1..Len(r) : i \in 1..m \/ i \in m + 1..Len(r)
    BY <2>7, <2>9
  <2>11. ASSUME NEW i \in 1..m
         PROVE  Fits(r[i]) /\ r[i].code \in {"slot", "id", "x", "y"} /\ Says(r[i], change[r[i].of])
    BY <2>5, <2>7 DEF Sent, Queues
  <2>12. ASSUME NEW i \in m + 1..Len(r)
         PROVE  Fits(r[i]) /\ r[i].code \in {"slot", "id", "x", "y"} /\ Says(r[i], change[r[i].of])
    <3>1. Added(r[i], s, c)
      BY <2>2, <2>7
    <3> QED  BY <1>5, <3>1 DEF Added, Says, c
  <2>13. r \in Queues
    BY <2>7, <2>10, <2>11, <2>12 DEF Queues
  <2>14. ASSUME NEW h, NEW code, SaidOf(p.events, h, code) PROVE SaidOf(r, h, code)
    <3>1. PICK i \in 1..m : p.events[i].of = h /\ p.events[i].code = code
      BY <2>5, <2>14 DEF SaidOf
    <3>2. i \in 1..Len(r) /\ r[i] = p.events[i]
      BY <2>7, <2>8
    <3> QED  BY <3>1, <3>2 DEF SaidOf
  <2>15. ASSUME NEW code, NEW i \in 1..Len(M), M[i].code = code PROVE SaidOf(r, s, code)
    <3>1. i + m \in m + 1..Len(r) /\ i + m \in 1..Len(r) /\ (i + m) - m = i
      BY <2>7, <2>8
    <3>2. r[i + m] = M[(i + m) - m]
      BY <2>7, <3>1
    <3>3. r[i + m] = M[i]
      BY <3>1, <3>2, Zenon
    <3>4. r[i + m].of = s
      BY <2>2, <3>3 DEF Added
    <3> QED  BY <2>15, <3>1, <3>3, <3>4 DEF SaidOf
  <2>16. ASSUME NEW h \in 0..s
         PROVE  /\ change[h].what \in {"press", "release"} => SaidOf(r, h, "id")
                /\ \A a \in Axes : change[h].place[a] = finger[h].place[a] \/ SaidOf(r, h, a)
    <3>1. CASE h = s
      BY <2>2, <2>15, <3>1 DEF c
    <3>2. CASE h \in 0..s - 1
      BY <2>14, <3>2 DEF Sent
    <3> QED  BY <1>2, <3>1, <3>2
  <2>17. Sent(w, change, s)
    BY <2>4, <2>6, <2>9, <2>10, <2>11, <2>12, <2>13, <2>16 DEF Sent
  <2> QED  BY <2>17 DEF w, c
<1> QED  BY <1>4, <1>5

(* All slots have been added: the packet says all that has changed.        *)
LEMMA PacketSent ==
    ASSUME NEW change, Can(change), kslot \in T!Slots
    PROVE  Sent(T!Packet(change), change, MaxSlot)
<1>1. PICK u : PacketSoFar(u, change) /\ T!Packet(change) = u[MaxSlot]
  BY PacketSteps
<1>2. MaxSlot \in Nat
  BY QueueAssumption
<1> DEFINE Wrong == {m \in Nat : m <= MaxSlot + 1 /\ ~Sent(u[m - 1], change, m - 1)}
<1>3. ASSUME NEW s \in -1..MaxSlot
      PROVE  u[s] = IF s = -1 THEN [events |-> <<>>, last |-> kslot]
                    ELSE T!AddSlot(u[s - 1], s, change[s])
  <2> DEFINE H(h) == IF h = -1 THEN [events |-> <<>>, last |-> kslot]
                     ELSE T!AddSlot(u[h - 1], h, change[h])
  <2>1. u = [h \in -1..MaxSlot |-> H(h)]
    BY <1>1 DEF PacketSoFar
  <2> HIDE DEF H
  <2>2. u[s] = H(s)
    BY <2>1
  <2> QED  BY <2>2 DEF H
<1>4. Wrong = {}
  <2> SUFFICES ASSUME Wrong # {} PROVE FALSE
    OBVIOUS
  <2>1. PICK m \in Wrong : \A k \in Wrong : m <= k
    <3>1. Wrong \subseteq Nat
      OBVIOUS
    <3> HIDE DEF Wrong
    <3> QED  BY <3>1, LeastNat
  <2>2. m \in Nat /\ m <= MaxSlot + 1 /\ ~Sent(u[m - 1], change, m - 1)
    OBVIOUS
  <2>3. m - 1 \in -1..MaxSlot
    BY <1>2, <2>2
  <2>4. CASE m = 0
    <3>1. m - 1 = -1
      BY <2>4
    <3>2. u[m - 1] = [events |-> <<>>, last |-> kslot]
      BY <1>3, <2>3, <3>1
    <3> QED  BY <2>2, <3>1, <3>2, SentFirst
  <2>5. CASE m # 0
    <3> DEFINE s == m - 1
    <3>1. s \in Nat /\ s \notin Wrong /\ s <= MaxSlot + 1 /\ s # -1
      BY <1>2, <2>1, <2>2, <2>5
    <3>2. Sent(u[s - 1], change, s - 1)
      BY <3>1
    <3>3. s \in T!Slots /\ s \in -1..MaxSlot
      BY <1>2, <2>2, <3>1 DEF T!Slots
    <3>4. u[s] = T!AddSlot(u[s - 1], s, change[s])
      BY <1>3, <3>1, <3>3
    <3>5. ~Sent(u[s], change, s)
      BY <2>2
    <3> HIDE DEF s
    <3> QED  BY <3>2, <3>3, <3>4, <3>5, SentNext
  <2> QED  BY <2>4, <2>5
<1>5. MaxSlot + 1 \in Nat /\ (MaxSlot + 1) - 1 = MaxSlot /\ MaxSlot + 1 <= MaxSlot + 1
  BY <1>2
<1>6. MaxSlot + 1 \notin Wrong
  BY <1>4
<1> QED  BY <1>1, <1>5, <1>6

(* What holds of a queue holds after a read.                               *)
LEMMA TailHolds ==
    ASSUME NEW r \in Queues, r # <<>>, NEW q, q = Tail(r), Ends(r)
    PROVE  /\ q \in Queues /\ Len(q) <= Len(r) /\ Ends(q) /\ ~Lost(q)
           /\ Truth(r) => Truth(q)
           /\ AllTold(r) => AllTold(q)
           /\ \A l : Agrees(r, l) => Agrees(q, l)
           /\ q # <<>> => q[Len(q)] = r[Len(r)]
           /\ r[1].code # "report" => q # <<>>
           /\ q = <<>> => Len(r) = 1
           /\ r[1] = Head(r) /\ r[1] \in Events /\ Fits(r[1]) /\ Len(r) \in Nat /\ 1 \in 1..Len(r)
<1>1. r \in Seq(Events)
  BY DEF Queues
<1>2. Inside(q, r, 1, 1) /\ Len(r) = Len(q) + 1 /\ Len(q) \in Nat
  BY <1>1, TailInside
<1>3. /\ q \in Seq(Events)
      /\ \A i \in 1..Len(q) : i + 1 \in 1..Len(r) /\ r[i + 1] = q[i]
  BY <1>2 DEF Inside
<1>4. (Truth(r) => Truth(q)) /\ (AllTold(r) => AllTold(q)) /\ \A l : Agrees(r, l) => Agrees(q, l)
  <2> DEFINE k == 1
  <2>1. k \in {1, 2} /\ (k = 2 => Len(q) >= 1 /\ q[1].code = "dropped") /\ k = 1
    OBVIOUS
  <2> HIDE DEF k
  <2>2. Inside(q, r, 1, k)
    BY <1>2, <2>1
  <2>3. Truth(r) => Truth(q)
    BY <1>2, <2>1, <2>2, RestHolds
  <2>4. AllTold(r) => AllTold(q)
    BY <1>2, <2>1, <2>2, RestHolds
  <2>5. \A l : Agrees(r, l) => Agrees(q, l)
    BY <1>2, <2>1, <2>2, RestHolds
  <2> QED  BY <2>3, <2>4, <2>5
<1>7. r[1] = Head(r) /\ r[1] \in Events /\ 1 \in 1..Len(r) /\ Len(r) \in Nat
  BY <1>1, <1>2
<1>8. Fits(r[1]) /\ \A i \in 1..Len(q) : Fits(q[i])
  BY <1>3, <1>7 DEF Queues
<1>9. q = <<>> => Len(q) = 0
  OBVIOUS
<1>10. Len(q) = 0 => q = <<>>
  BY <1>3
<1>11. ASSUME NEW i \in 1..Len(q) PROVE q[i].code # "dropped"
  <2>1. i + 1 \in 2..Len(r)
    BY <1>3, <1>2
  <2> QED  BY <1>3, <2>1 DEF Ends
<1>12. ASSUME q # <<>> PROVE q[Len(q)] = r[Len(r)] /\ q[Len(q)].code = "report" /\ 1 \in 1..Len(q)
  <2>1. Len(q) \in 1..Len(q) /\ 1 \in 1..Len(q)
    BY <1>2, <1>10, <1>12
  <2>2. r[Len(q) + 1] = q[Len(q)]
    BY <1>3, <2>1
  <2> QED  BY <1>2, <2>1, <2>2 DEF Ends
<1>13. Ends(q) /\ ~Lost(q)
  <2>1. \A i \in 2..Len(q) : i \in 1..Len(q)
    BY <1>2
  <2> QED  BY <1>11, <1>12, <2>1 DEF Ends, Lost
<1>14. r[1].code # "report" => q # <<>>
  <2> SUFFICES ASSUME q = <<>> PROVE r[1].code = "report"
    OBVIOUS
  <2>1. Len(r) = 1
    BY <1>2, <1>9
  <2> QED  BY <2>1 DEF Ends
<1>15. q \in Queues
  BY <1>3, <1>8 DEF Queues
<1>16. Len(q) <= Len(r) /\ (q = <<>> => Len(r) = 1)
  BY <1>2, <1>9
<1> QED  BY <1>4, <1>7, <1>8, <1>12, <1>13, <1>14, <1>15, <1>16

(* What a read takes from the queue.                                       *)
Taken == queue # <<>> /\ queue' = Tail(queue) /\ UNCHANGED <<finger, kslot>>

(* The queue after a read.                                                 *)
LEMMA TakenHolds ==
    ASSUME TouchInv, Taken
    PROVE  /\ queue' \in Queues /\ Len(queue') <= QueueMax /\ Ends(queue') /\ ~Lost(queue')
           /\ Truth(queue') /\ AllTold(queue') /\ Agrees(queue', kslot')
           /\ queue[1].code # "report" => queue' # <<>>
           /\ queue' # <<>> => queue'[Len(queue')] = queue[Len(queue)]
           /\ queue' = <<>> => Len(queue) = 1
           /\ queue[1] = Head(queue) /\ queue[1] \in Events /\ Fits(queue[1])
           /\ finger' \in [T!Slots -> [down : BOOLEAN, place : T!Places]] /\ kslot' \in T!Slots
<1> DEFINE q == queue'
<1>1. /\ queue \in Queues /\ queue # <<>> /\ q = Tail(queue) /\ Ends(queue)
      /\ Len(queue) <= QueueMax /\ Truth(queue) /\ AllTold(queue)
      /\ Agrees(queue, kslot) /\ kslot' = kslot /\ finger' = finger
  BY DEF TouchInv, TouchTypes, SlotInv, Taken
<1>2. QueueMax \in Nat
  BY QueueAssumption
<1> HIDE DEF q
<1>3. q \in Queues /\ Len(q) <= Len(queue) /\ Ends(q) /\ ~Lost(q)
  BY <1>1, TailHolds
<1>4. Truth(q) /\ AllTold(q) /\ Agrees(q, kslot)
  BY <1>1, TailHolds
<1>5. /\ queue[1].code # "report" => q # <<>>
      /\ q # <<>> => q[Len(q)] = queue[Len(queue)]
      /\ q = <<>> => Len(queue) = 1
  BY <1>1, TailHolds
<1>6. queue[1] = Head(queue) /\ queue[1] \in Events /\ Fits(queue[1]) /\ Len(queue) \in Nat
  BY <1>1, TailHolds
<1>7. Len(q) <= QueueMax
  <2>1. Len(q) \in Nat
    BY <1>3 DEF Queues
  <2> QED  BY <1>1, <1>2, <1>3, <1>6, <2>1
<1>8. finger \in [T!Slots -> [down : BOOLEAN, place : T!Places]] /\ kslot \in T!Slots
  BY DEF TouchInv, TouchTypes
<1> QED  BY <1>1, <1>3, <1>4, <1>5, <1>6, <1>7, <1>8 DEF q

(* The first event is about the slot, if the slot is known.                *)
LEMMA HeadSlot ==
    ASSUME TouchInv, queue # <<>>, queue[1].code \in Moves, slotSure PROVE slot = queue[1].of
<1>1. Starts(queue, kslot, slot)
  BY DEF TouchInv, SlotInv, Lost, Moves
<1>2. 1 \in 1..Len(queue) + 1 /\ 1 <= Len(queue)
  <2>1. queue \in Seq(Events)
    BY DEF TouchInv, TouchTypes, Queues
  <2> QED  BY <2>1
<1>3. Counts(queue, 1) /\ NoSlot(queue, 1, 1 - 1) /\ About(queue, kslot, 1) = queue[1].of
  BY <1>2 DEF Counts, NoSlot, About
<1> QED  BY <1>1, <1>2, <1>3 DEF Starts

(* The first report after a read that was of none.                         *)
LEMMA ReportNow ==
    ASSUME TouchInv, Taken, queue[1].code # "report",
           NEW p, FirstReport(queue', p), NEW s \in T!Slots
    PROVE  /\ p \in 1..Len(queue') /\ queue'[p] = queue[p + 1]
           /\ Says(queue[1], queue'[p].value[queue[1].of])
           /\ Known(queue, p + 1, s, queue'[p].value[s], mt[s], sure[s], sound)
<1> DEFINE q == queue'
<1>1. ReadFrom(queue, q) /\ FirstReport(q, p)
  BY DEF TouchInv, TouchTypes, Queues, Taken, ReadFrom
<1> HIDE DEF q
<1>2. /\ p \in 1..Len(q) /\ p + 1 \in 1..Len(queue) /\ queue[p + 1] = q[p]
      /\ FirstReport(queue, p + 1) /\ Part(queue, 1, p + 1)
  BY <1>1, TailFirst
<1>3. 1 \in 1..(p + 1) - 1
  BY <1>2 DEF Part
<1>4. Says(queue[1], queue[p + 1].value[queue[1].of])
  BY <1>2, <1>3 DEF TouchInv, Truth
<1>5. Known(queue, p + 1, s, queue[p + 1].value[s], mt[s], sure[s], sound)
  BY <1>2 DEF TouchInv, FirstInv
<1> QED  BY <1>2, <1>4, <1>5 DEF q

(* What is told after a read.                                              *)
LEMMA StillTells ==
    ASSUME TouchInv, Taken, NEW p \in 1..Len(queue'), NEW s, NEW codes,
           Tells(queue, p + 1, s, codes),
           queue[1].code = "report" \/ queue[1].of # s \/ queue[1].code \notin codes
    PROVE  Tells(queue', p, s, codes)
<1> DEFINE q == queue'
<1>1. ReadFrom(queue, q) /\ p \in 1..Len(q)
  BY DEF TouchInv, TouchTypes, Queues, Taken, ReadFrom
<1> HIDE DEF q
<1>2. Tells(q, p, s, codes)
  BY <1>1, TailTells
<1> QED  BY <1>2 DEF q

(* Where the fingers are is in the last report of the queue, unless it is  *)
(* read.                                                                   *)
LEMMA FingersRest ==
    ASSUME TouchInv, Taken, queue[1].code # "report"
    PROVE  /\ queue' # <<>>
           /\ \A s \in T!Slots : finger'[s].place = queue'[Len(queue')].value[s].place
<1>1. queue' # <<>> /\ queue'[Len(queue')] = queue[Len(queue)]
  BY TakenHolds
<1>2. queue # <<>> /\ finger' = finger
  BY DEF Taken
<1>3. \A s \in T!Slots : finger[s].place = queue[Len(queue)].value[s].place
  BY <1>2 DEF TouchInv, RestInv
<1> QED  BY <1>1, <1>2, <1>3

(* One lemma per read: ReadSlot, ReadId, ReadPosition and ReadSyn.         *)
LEMMA SlotIsRead == TouchInv /\ T!ReadSlot => TouchInv'
<1> SUFFICES ASSUME TouchInv, T!ReadSlot PROVE TouchInv'
  OBVIOUS
<1>1. /\ Taken /\ Head(queue).code = "slot" /\ slot' = Head(queue).value /\ slotSure' = TRUE
      /\ mt' = mt /\ sure' = sure /\ sound' = sound /\ told' = told /\ truth' = truth
      /\ trust' = trust
  BY DEF T!ReadSlot, T!Reads, Taken
<1>2. queue[1] = Head(queue) /\ queue[1] \in Events /\ Fits(queue[1]) /\ ~Lost(queue')
  BY <1>1, TakenHolds
<1>3. queue[1].code = "slot" /\ slot' = queue[1].of /\ slot' \in T!Slots /\ queue[1].code # "report"
  BY <1>1, <1>2 DEF Fits, Events
<1>4. /\ queue' \in Queues /\ Len(queue') <= QueueMax /\ Ends(queue')
      /\ Truth(queue') /\ AllTold(queue') /\ Agrees(queue', kslot')
      /\ finger' \in [T!Slots -> [down : BOOLEAN, place : T!Places]] /\ kslot' \in T!Slots
  BY <1>1, TakenHolds
<1>5. TouchTypes'
  BY <1>1, <1>3, <1>4 DEF TouchInv, TouchTypes
<1>6. SlotInv'
  <2> DEFINE q == queue'
  <2>1. queue \in Seq(Events) /\ queue # <<>> /\ q = Tail(queue) /\ Agrees(queue, kslot)
        /\ kslot' = kslot
    BY <1>1 DEF TouchInv, TouchTypes, Queues, Taken, SlotInv
  <2> HIDE DEF q
  <2>2. Starts(q, kslot, queue[1].of)
    BY <1>3, <2>1, TailStarts
  <2>3. Starts(queue', kslot', slot')
    BY <1>3, <2>1, <2>2 DEF q
  <2> QED  BY <1>4, <2>3 DEF SlotInv
<1>7. FirstInv'
  <2> SUFFICES ASSUME NEW p, FirstReport(queue', p), NEW s \in T!Slots
               PROVE  Known(queue', p, s, queue'[p].value[s], mt[s], sure[s], sound)
    BY <1>1 DEF FirstInv
  <2>1. p \in 1..Len(queue') /\ Known(queue, p + 1, s, queue'[p].value[s], mt[s], sure[s], sound)
    BY <1>1, <1>3, ReportNow
  <2>2. ASSUME NEW codes, codes \subseteq Moves, Tells(queue, p + 1, s, codes)
        PROVE  Tells(queue', p, s, codes)
    <3>1. queue[1].code \notin codes
      BY <1>3, <2>2 DEF Moves
    <3> QED  BY <1>1, <2>1, <2>2, <3>1, StillTells
  <2>3. /\ ~Lost(queue) /\ {"id"} \subseteq Moves /\ Axes \subseteq Moves
        /\ \A a \in Axes : {a} \subseteq Moves
    BY <1>3 DEF Lost, Moves, Axes
  <2>4. sure[s] \subseteq Axes
    BY DEF TouchInv, TouchTypes
  <2> QED  BY <1>2, <2>1, <2>2, <2>3, <2>4 DEF Known
<1>8. RestInv'
  <2>1. \A s \in T!Slots : ~mt[s].valid => mt[s].id = -2
    BY DEF TouchInv, RestInv
  <2> QED  BY <1>1, <1>3, <2>1, FingersRest DEF RestInv
<1>9. T!KindsAreTrue' /\ T!PlacesAreTrue'
  BY <1>1 DEF TouchInv, T!KindsAreTrue, T!PlacesAreTrue
<1> QED  BY <1>4, <1>5, <1>6, <1>7, <1>8, <1>9 DEF TouchInv

(* An id is read.                                                          *)
LEMMA IdIsRead == TouchInv /\ T!ReadId => TouchInv'
<1> SUFFICES ASSUME TouchInv, T!ReadId PROVE TouchInv'
  OBVIOUS
<1>1. /\ Taken /\ Head(queue).code = "id"
      /\ mt' = [mt EXCEPT ![slot].id = Head(queue).value, ![slot].valid = TRUE]
      /\ sound' = (sound /\ slotSure)
      /\ slot' = slot /\ slotSure' = slotSure /\ sure' = sure /\ told' = told /\ truth' = truth
      /\ trust' = trust
  BY DEF T!ReadId, T!Reads, Taken
<1>2. queue[1] = Head(queue) /\ queue[1] \in Events /\ Fits(queue[1]) /\ ~Lost(queue')
  BY <1>1, TakenHolds
<1>3. queue[1].code = "id" /\ queue[1].value \in {-1, 0} /\ queue[1].code # "report"
  BY <1>1, <1>2 DEF Fits
<1>4. /\ queue' \in Queues /\ Len(queue') <= QueueMax /\ Ends(queue')
      /\ Truth(queue') /\ AllTold(queue') /\ Agrees(queue', kslot')
      /\ finger' \in [T!Slots -> [down : BOOLEAN, place : T!Places]] /\ kslot' \in T!Slots
  BY <1>1, TakenHolds
<1>5. /\ mt \in [T!Slots -> [place : T!Places, id : {-2, -1, 0}, valid : BOOLEAN]]
      /\ slot \in T!Slots /\ sound \in BOOLEAN /\ slotSure \in BOOLEAN
      /\ sure \in [T!Slots -> SUBSET Axes]
  BY DEF TouchInv, TouchTypes
<1>6. /\ mt' = [s \in T!Slots |-> mt'[s]]
      /\ \A s \in T!Slots :
             mt'[s] = IF s = slot THEN [mt[s] EXCEPT !.id = queue[1].value, !.valid = TRUE]
                                     ELSE mt[s]
  BY <1>1, <1>2, <1>5
<1>7. /\ mt'[slot].id = queue[1].value /\ mt'[slot].valid = TRUE /\ mt'[slot].place = mt[slot].place
      /\ mt'[slot] \in [place : T!Places, id : {-2, -1, 0}, valid : BOOLEAN]
  <2>1. mt[slot] \in [place : T!Places, id : {-2, -1, 0}, valid : BOOLEAN]
    BY <1>5
  <2>2. mt'[slot] = [mt[slot] EXCEPT !.id = queue[1].value, !.valid = TRUE]
    BY <1>5, <1>6
  <2> QED  BY <1>3, <2>1, <2>2
<1>8. /\ mt'[slot].id = queue[1].value /\ mt'[slot].valid = TRUE
      /\ \A s \in T!Slots : mt'[s].place = mt[s].place /\ (s # slot => mt'[s] = mt[s])
      /\ mt' \in [T!Slots -> [place : T!Places, id : {-2, -1, 0}, valid : BOOLEAN]]
  <2>1. \A s \in T!Slots : s # slot => mt'[s] = mt[s]
    BY <1>6
  <2>2. \A s \in T!Slots : mt'[s] \in [place : T!Places, id : {-2, -1, 0}, valid : BOOLEAN]
    BY <1>5, <1>7, <2>1
  <2>3. mt' \in [T!Slots -> [place : T!Places, id : {-2, -1, 0}, valid : BOOLEAN]]
    BY <1>6, <2>2
  <2> QED  BY <1>7, <2>1, <2>3
<1>9. TouchTypes'
  BY <1>1, <1>4, <1>5, <1>8 DEF TouchTypes
<1>10. SlotInv'
  <2> DEFINE q == queue'
  <2>1. queue \in Seq(Events) /\ queue # <<>> /\ q = Tail(queue) /\ kslot' = kslot /\ ~Lost(queue)
    BY <1>1, <1>3 DEF TouchInv, TouchTypes, Queues, Taken, Lost
  <2> HIDE DEF q
  <2>2. \A s : Starts(queue, kslot, s) => Starts(q, kslot, s)
    BY <1>3, <2>1, TailStarts
  <2>3. slotSure => Starts(queue, kslot, slot)
    BY <2>1 DEF TouchInv, SlotInv
  <2>4. slotSure' => Starts(queue', kslot', slot')
    BY <1>1, <2>1, <2>2, <2>3 DEF q
  <2> QED  BY <1>4, <2>4 DEF SlotInv
<1>11. FirstInv'
  <2> SUFFICES ASSUME NEW p, FirstReport(queue', p), NEW s \in T!Slots
               PROVE  Known(queue', p, s, queue'[p].value[s], mt'[s], sure[s], sound')
    BY <1>1 DEF FirstInv
  <2> DEFINE c == queue'[p].value[s]
  <2>1. /\ p \in 1..Len(queue') /\ Known(queue, p + 1, s, c, mt[s], sure[s], sound)
        /\ Says(queue[1], queue'[p].value[queue[1].of])
    BY <1>1, <1>3, ReportNow
  <2>2. ASSUME NEW codes, Tells(queue, p + 1, s, codes), queue[1].of # s \/ "id" \notin codes
        PROVE  Tells(queue', p, s, codes)
    BY <1>1, <1>3, <2>1, <2>2, StillTells
  <2>3. /\ ~Lost(queue) /\ sure[s] \subseteq Axes /\ \A a \in Axes : "id" \notin {a}
    BY <1>3, <1>5 DEF Lost, Axes
  <2>4. slotSure => slot = queue[1].of
    BY <1>1, <1>3, HeadSlot DEF Moves, Taken
  <2> HIDE DEF c
  <2>5. \A a \in sure[s] : mt'[s].place[a] = c.place[a] \/ Tells(queue', p, s, {a})
    BY <1>8, <2>1, <2>2, <2>3 DEF Known
  <2>6. ASSUME sound', s = slot
        PROVE  /\ mt'[s].id \in {-2, IdOf(c.what)} /\ mt'[s].id # -2
               /\ mt'[s].valid = TRUE /\ c.what # "none"
    <3>1. Says(queue[1], c)
      BY <1>1, <2>1, <2>4, <2>6 DEF c
    <3> QED  BY <1>3, <1>8, <2>6, <3>1 DEF Says, Moves
  <2>7. ASSUME sound', s # slot
        PROVE  /\ mt'[s].id \in {-2, IdOf(c.what)}
               /\ c.what \in {"press", "release"} /\ mt'[s].id = -2 => Tells(queue', p, s, {"id"})
               /\ c.what = "slide" => mt'[s].valid \/ Tells(queue', p, s, Axes)
               /\ c.what = "none" => ~mt'[s].valid
    <3>1. queue[1].of # s /\ mt'[s] = mt[s] /\ sound
      BY <1>1, <1>8, <2>4, <2>7
    <3> QED  BY <2>1, <2>2, <2>3, <3>1 DEF Known
  <2>8. Known(queue', p, s, c, mt'[s], sure[s], sound')
    BY <2>5, <2>6, <2>7 DEF Known
  <2> QED  BY <2>8 DEF c
<1>12. RestInv'
  <2>1. \A s \in T!Slots : ~mt[s].valid => mt[s].id = -2
    BY DEF TouchInv, RestInv
  <2>2. \A s \in T!Slots : ~mt'[s].valid => mt'[s].id = -2
    BY <1>8, <2>1
  <2> QED  BY <1>1, <1>3, <2>2, FingersRest DEF RestInv
<1>13. T!KindsAreTrue' /\ T!PlacesAreTrue'
  BY <1>1 DEF TouchInv, T!KindsAreTrue, T!PlacesAreTrue
<1> QED  BY <1>4, <1>9, <1>10, <1>11, <1>12, <1>13 DEF TouchInv

(* A coordinate is read.                                                   *)
LEMMA PositionIsRead == \A a \in Axes : TouchInv /\ T!ReadPosition(a) => TouchInv'
<1> SUFFICES ASSUME NEW a \in Axes, TouchInv, T!ReadPosition(a) PROVE TouchInv'
  OBVIOUS
<1>1. /\ Taken /\ Head(queue).code = a
      /\ mt' = [mt EXCEPT ![slot].place[a] = Head(queue).value, ![slot].valid = TRUE]
      /\ sure' = T!Learn(a) /\ sound' = (sound /\ slotSure)
      /\ slot' = slot /\ slotSure' = slotSure /\ told' = told /\ truth' = truth
      /\ trust' = trust
  BY DEF T!ReadPosition, T!Reads, Taken
<1>2. queue[1] = Head(queue) /\ queue[1] \in Events /\ Fits(queue[1]) /\ ~Lost(queue')
  BY <1>1, TakenHolds
<1> DEFINE v == queue[1].value
<1>3. /\ queue[1].code = a /\ queue[1].code # "report" /\ queue[1].code # "slot"
      /\ a = "x" => v \in Xs
      /\ a = "y" => v \in Ys
  BY <1>1, <1>2 DEF Fits, Axes
<1>4. /\ queue' \in Queues /\ Len(queue') <= QueueMax /\ Ends(queue')
      /\ Truth(queue') /\ AllTold(queue') /\ Agrees(queue', kslot')
      /\ finger' \in [T!Slots -> [down : BOOLEAN, place : T!Places]] /\ kslot' \in T!Slots
  BY <1>1, TakenHolds
<1>5. /\ mt \in [T!Slots -> [place : T!Places, id : {-2, -1, 0}, valid : BOOLEAN]]
      /\ slot \in T!Slots /\ sound \in BOOLEAN /\ slotSure \in BOOLEAN
      /\ sure \in [T!Slots -> SUBSET Axes]
  BY DEF TouchInv, TouchTypes
<1> HIDE DEF v
<1>6. /\ mt' = [s \in T!Slots |-> mt'[s]]
      /\ \A s \in T!Slots : mt'[s] = IF s = slot THEN [mt[s] EXCEPT !.place[a] = v, !.valid = TRUE]
                                     ELSE mt[s]
  BY <1>1, <1>2, <1>5 DEF v
<1>7. /\ mt'[slot].id = mt[slot].id /\ mt'[slot].valid = TRUE
      /\ mt'[slot].place = [mt[slot].place EXCEPT ![a] = v]
      /\ mt'[slot] \in [place : T!Places, id : {-2, -1, 0}, valid : BOOLEAN]
  <2>1. mt[slot] \in [place : T!Places, id : {-2, -1, 0}, valid : BOOLEAN]
    BY <1>5
  <2>2. mt'[slot] = [mt[slot] EXCEPT !.place[a] = v, !.valid = TRUE]
    BY <1>5, <1>6
  <2>3. mt'[slot].id = mt[slot].id /\ mt'[slot].valid = TRUE
        /\ mt'[slot].place = [mt[slot].place EXCEPT ![a] = v]
    BY <2>1, <2>2
  <2>4. [mt[slot].place EXCEPT ![a] = v] \in T!Places
    BY <1>3, <2>1 DEF T!Places, Axes
  <2> QED  BY <2>1, <2>2, <2>3, <2>4
<1>8. /\ \A s \in T!Slots : mt'[s].id = mt[s].id /\ (s # slot => mt'[s] = mt[s])
      /\ mt'[slot].place[a] = v
      /\ \A s \in T!Slots : \A b \in Axes : s # slot \/ b # a => mt'[s].place[b] = mt[s].place[b]
      /\ mt' \in [T!Slots -> [place : T!Places, id : {-2, -1, 0}, valid : BOOLEAN]]
  <2>1. \A s \in T!Slots : s # slot => mt'[s] = mt[s]
    BY <1>6
  <2>2. \A s \in T!Slots : mt'[s] \in [place : T!Places, id : {-2, -1, 0}, valid : BOOLEAN]
    BY <1>5, <1>7, <2>1
  <2>3. mt' \in [T!Slots -> [place : T!Places, id : {-2, -1, 0}, valid : BOOLEAN]]
    BY <1>6, <2>2
  <2>4. mt[slot].place \in T!Places
    BY <1>5
  <2>5. mt'[slot].place[a] = v /\ \A b \in Axes : b # a => mt'[slot].place[b] = mt[slot].place[b]
    BY <1>7, <2>4 DEF T!Places, Axes
  <2> QED  BY <1>7, <2>1, <2>3, <2>5
<1>9. /\ sure' \in [T!Slots -> SUBSET Axes]
      /\ \A s \in T!Slots : \A b \in sure'[s] : b \in sure[s] \/ (slotSure /\ s = slot /\ b = a)
      /\ ~slotSure => \A s \in T!Slots : a \notin sure'[s]
  <2>1. CASE slotSure
    <3>1. sure' = [sure EXCEPT ![slot] = @ \union {a}]
      BY <1>1, <2>1 DEF T!Learn
    <3> QED  BY <1>5, <2>1, <3>1
  <2>2. CASE ~slotSure
    <3>1. sure' = [s \in T!Slots |-> sure[s] \ {a}]
      BY <1>1, <2>2 DEF T!Learn
    <3> QED  BY <1>5, <2>2, <3>1
  <2> QED  BY <2>1, <2>2
<1>10. TouchTypes'
  BY <1>1, <1>4, <1>5, <1>8, <1>9 DEF TouchTypes
<1>11. SlotInv'
  <2> DEFINE q == queue'
  <2>1. queue \in Seq(Events) /\ queue # <<>> /\ q = Tail(queue) /\ kslot' = kslot /\ ~Lost(queue)
    BY <1>1, <1>3 DEF TouchInv, TouchTypes, Queues, Taken, Lost, Axes
  <2> HIDE DEF q
  <2>2. \A s : Starts(queue, kslot, s) => Starts(q, kslot, s)
    BY <1>3, <2>1, TailStarts
  <2>3. slotSure => Starts(queue, kslot, slot)
    BY <2>1 DEF TouchInv, SlotInv
  <2>4. slotSure' => Starts(queue', kslot', slot')
    BY <1>1, <2>1, <2>2, <2>3 DEF q
  <2> QED  BY <1>4, <2>4 DEF SlotInv
<1>12. FirstInv'
  <2> SUFFICES ASSUME NEW p, FirstReport(queue', p), NEW s \in T!Slots
               PROVE  Known(queue', p, s, queue'[p].value[s], mt'[s], sure'[s], sound')
    BY DEF FirstInv
  <2> DEFINE c == queue'[p].value[s]
  <2>1. /\ p \in 1..Len(queue') /\ Known(queue, p + 1, s, c, mt[s], sure[s], sound)
        /\ Says(queue[1], queue'[p].value[queue[1].of])
    BY <1>1, <1>3, ReportNow
  <2>2. ASSUME NEW codes, Tells(queue, p + 1, s, codes), queue[1].of # s \/ a \notin codes
        PROVE  Tells(queue', p, s, codes)
    BY <1>1, <1>3, <2>1, <2>2, StillTells
  <2>3. ~Lost(queue) /\ sure[s] \subseteq Axes /\ sure'[s] \subseteq Axes /\ a \notin {"id"}
    BY <1>3, <1>5, <1>9 DEF Lost, Axes
  <2>4. slotSure => slot = queue[1].of
    BY <1>1, <1>3, HeadSlot DEF Moves, Axes, Taken
  <2> HIDE DEF c
  <2>5. slotSure /\ s = slot => Says(queue[1], c)
    BY <2>1, <2>4 DEF c
  <2>6. ASSUME NEW b \in sure'[s]
        PROVE  mt'[s].place[b] = c.place[b] \/ Tells(queue', p, s, {b})
    <3>1. CASE slotSure /\ s = slot /\ b = a
      <4>1. v = c.place[a]
        BY <1>3, <2>5, <3>1 DEF Says, v
      <4> QED  BY <1>8, <3>1, <4>1
    <3>2. CASE b \in sure[s] /\ (s # slot \/ b # a \/ ~slotSure)
      <4>1. mt[s].place[b] = c.place[b] \/ Tells(queue, p + 1, s, {b})
        BY <2>1, <2>3, <3>2 DEF Known
      <4>2. b # a \/ (s # slot /\ slotSure)
        BY <1>9, <3>2
      <4>3. mt'[s].place[b] = mt[s].place[b]
        BY <1>8, <2>3, <4>2
      <4>4. queue[1].of # s \/ a \notin {b}
        BY <2>4, <4>2
      <4> QED  BY <2>2, <4>1, <4>3, <4>4
    <3> QED  BY <1>9, <3>1, <3>2
  <2>7. ASSUME sound'
        PROVE  /\ mt'[s].id \in {-2, IdOf(c.what)}
               /\ c.what \in {"press", "release"} /\ mt'[s].id = -2 => Tells(queue', p, s, {"id"})
    <3>1. sound /\ mt'[s].id = mt[s].id
      BY <1>1, <1>8, <2>7
    <3> QED  BY <2>1, <2>2, <2>3, <3>1 DEF Known
  <2>8. ASSUME sound'
        PROVE  /\ c.what = "slide" => mt'[s].valid \/ Tells(queue', p, s, Axes)
               /\ c.what = "none" => ~mt'[s].valid
    <3>1. CASE s = slot
      <4>1. c.what # "none"
        BY <1>1, <1>3, <2>5, <2>8, <3>1 DEF Says, Moves, Axes
      <4> QED  BY <1>7, <3>1, <4>1
    <3>2. CASE s # slot
      <4>1. queue[1].of # s /\ mt'[s] = mt[s] /\ sound
        BY <1>1, <1>8, <2>4, <2>8, <3>2
      <4> QED  BY <2>1, <2>2, <2>3, <4>1 DEF Known
    <3> QED  BY <3>1, <3>2
  <2>9. Known(queue', p, s, c, mt'[s], sure'[s], sound')
    BY <2>6, <2>7, <2>8 DEF Known
  <2> QED  BY <2>9 DEF c
<1>13. RestInv'
  <2>1. \A s \in T!Slots : ~mt[s].valid => mt[s].id = -2
    BY DEF TouchInv, RestInv
  <2>2. \A s \in T!Slots : ~mt'[s].valid => mt'[s].id = -2
    BY <1>7, <1>8, <2>1
  <2> QED  BY <1>1, <1>3, <2>2, FingersRest DEF RestInv
<1>14. T!KindsAreTrue' /\ T!PlacesAreTrue'
  BY <1>1 DEF TouchInv, T!KindsAreTrue, T!PlacesAreTrue
<1> QED  BY <1>4, <1>10, <1>11, <1>12, <1>13, <1>14 DEF TouchInv

(* A report or a loss is read.                                             *)
LEMMA SynIsRead == TouchInv /\ T!ReadSyn => TouchInv'
<1> SUFFICES ASSUME TouchInv, T!ReadSyn PROVE TouchInv'
  OBVIOUS
<1> DEFINE e == queue[1]
<1>1. /\ Taken /\ Head(queue).code \in {"report", "dropped"}
      /\ told' = [s \in T!Slots |-> T!Tell(mt[s])]
      /\ mt' = [s \in T!Slots |-> T!AfterReport(mt[s])]
      /\ slot' = slot /\ sound' = slotSure'
  BY DEF T!ReadSyn, T!Reads, Taken
<1>2. e = Head(queue) /\ e \in Events /\ Fits(e) /\ ~Lost(queue')
  BY <1>1, TakenHolds
<1>3. /\ e.code = "report" =>
             /\ truth' = e.value /\ slotSure' = slotSure /\ sure' = sure
             /\ trust' = [kinds |-> sound, places |-> {s \in T!Slots : sure[s] = {"x", "y"}}]
      /\ e.code = "dropped" =>
             /\ trust' = [kinds |-> FALSE, places |-> {}]
             /\ slotSure' = FALSE /\ sure' = [s \in T!Slots |-> {}]
  BY <1>2 DEF T!ReadSyn
<1> HIDE DEF e
<1>4. e.code \in {"report", "dropped"} /\ queue # <<>> /\ finger' = finger
  BY <1>1, <1>2 DEF Taken
<1>5. /\ queue' \in Queues /\ Len(queue') <= QueueMax /\ Ends(queue')
      /\ Truth(queue') /\ AllTold(queue') /\ Agrees(queue', kslot')
      /\ finger' \in [T!Slots -> [down : BOOLEAN, place : T!Places]] /\ kslot' \in T!Slots
  BY <1>1, TakenHolds
<1>6. /\ mt \in [T!Slots -> [place : T!Places, id : {-2, -1, 0}, valid : BOOLEAN]]
      /\ slot \in T!Slots /\ sound \in BOOLEAN /\ slotSure \in BOOLEAN
      /\ sure \in [T!Slots -> SUBSET Axes]
  BY DEF TouchInv, TouchTypes
<1>7. \A s \in T!Slots : ~mt[s].valid => mt[s].id = -2
  BY DEF TouchInv, RestInv
<1>8. ASSUME NEW s \in T!Slots
      PROVE  /\ mt'[s].valid = FALSE /\ mt'[s].id = -2 /\ mt'[s].place = mt[s].place
             /\ mt'[s] \in [place : T!Places, id : {-2, -1, 0}, valid : BOOLEAN]
  <2>1. /\ mt'[s] = T!AfterReport(mt[s])
        /\ mt[s] \in [place : T!Places, id : {-2, -1, 0}, valid : BOOLEAN]
    BY <1>1, <1>6
  <2>2. CASE mt[s].valid
    <3>1. mt'[s] = [mt[s] EXCEPT !.id = -2, !.valid = FALSE]
      BY <2>1, <2>2 DEF T!AfterReport
    <3> QED  BY <2>1, <3>1
  <2>3. CASE ~mt[s].valid
    <3>1. mt'[s] = mt[s] /\ mt[s].id = -2
      BY <1>7, <2>1, <2>3 DEF T!AfterReport
    <3>2. mt[s].valid \in BOOLEAN
      BY <2>1
    <3> QED  BY <2>1, <2>3, <3>1, <3>2
  <2> QED  BY <2>2, <2>3
<1>9. mt' \in [T!Slots -> [place : T!Places, id : {-2, -1, 0}, valid : BOOLEAN]]
  <2>1. mt' = [s \in T!Slots |-> mt'[s]]
    BY <1>1
  <2> QED  BY <1>8, <2>1
<1>10. TouchTypes'
  BY <1>1, <1>3, <1>4, <1>5, <1>6, <1>9 DEF TouchTypes
<1>11. SlotInv'
  <2> DEFINE q == queue'
  <2>1. queue \in Seq(Events) /\ queue # <<>> /\ q = Tail(queue) /\ kslot' = kslot
    BY <1>1, <1>4 DEF TouchInv, TouchTypes, Queues, Taken
  <2> HIDE DEF q
  <2>2. \A s : Starts(queue, kslot, s) => Starts(q, kslot, s)
    BY <1>4, <2>1, TailStarts DEF e
  <2>3. slotSure' => Starts(queue, kslot, slot)
    BY <1>3, <1>4 DEF TouchInv, SlotInv, Lost, e
  <2>4. slotSure' => Starts(queue', kslot', slot')
    BY <1>1, <2>1, <2>2, <2>3 DEF q
  <2> QED  BY <1>5, <2>4 DEF SlotInv
<1>12. ASSUME e.code = "report", NEW s \in T!Slots
       PROVE  LET c == e.value[s]
              IN  /\ sound => /\ mt[s].id \in {-2, IdOf(c.what)}
                              /\ c.what \in {"press", "release"} => mt[s].id # -2
                              /\ c.what = "slide" => mt[s].valid
                              /\ c.what = "none" => ~mt[s].valid
                  /\ \A a \in sure[s] : mt[s].place[a] = c.place[a]
  <2>1. 1 \in 1..Len(queue) /\ FirstReport(queue, 1)
    <3>1. queue \in Seq(Events)
      BY DEF TouchInv, TouchTypes, Queues
    <3>2. 1 \in 1..Len(queue)
      BY <1>4, <3>1
    <3> QED  BY <1>12, <3>2 DEF FirstReport, e
  <2>2. \A codes : ~Tells(queue, 1, s, codes)
    BY DEF Tells
  <2>3. ~Lost(queue)
    BY <1>12 DEF Lost, e
  <2>4. Known(queue, 1, s, e.value[s], mt[s], sure[s], sound)
    BY <2>1 DEF TouchInv, FirstInv, e
  <2> QED  BY <2>2, <2>3, <2>4 DEF Known
<1>13. FirstInv'
  <2>1. CASE e.code = "dropped"
    <3>1. sound' = FALSE /\ \A s \in T!Slots : sure'[s] = {}
      BY <1>1, <1>3, <2>1
    <3> QED  BY <3>1 DEF FirstInv, Known
  <2>2. CASE e.code = "report"
    <3> SUFFICES ASSUME NEW p, FirstReport(queue', p), NEW s \in T!Slots
                 PROVE  Known(queue', p, s, queue'[p].value[s], mt'[s], sure[s], sound')
      BY <1>3, <2>2 DEF FirstInv
    <3> DEFINE c == queue'[p].value[s]
    <3>1. p \in 1..Len(queue') /\ Told(queue, p + 1, s, c, e.value[s].place)
      <4> DEFINE q == queue'
      <4>1. ReadFrom(queue, q) /\ FirstReport(q, p)
        BY <1>1, <1>4 DEF TouchInv, TouchTypes, Queues, Taken, ReadFrom
      <4> HIDE DEF q
      <4>2. /\ p \in 1..Len(q) /\ p + 1 \in 1..Len(queue) /\ queue[p + 1] = q[p]
            /\ NextReport(queue, 1, p + 1)
        BY <2>2, <4>1, TailFirst DEF e
      <4>3. 1 \in 1..(p + 1) - 1
        BY <4>2 DEF NextReport
      <4>4. Told(queue, p + 1, s, queue[p + 1].value[s], queue[1].value[s].place)
        BY <4>2, <4>3 DEF TouchInv, AllTold
      <4> QED  BY <4>2, <4>4 DEF q, e
    <3>2. ASSUME NEW codes, Tells(queue, p + 1, s, codes) PROVE Tells(queue', p, s, codes)
      BY <1>1, <2>2, <3>1, <3>2, StillTells DEF e
    <3> HIDE DEF c
    <3>3. ASSUME NEW a \in sure[s] PROVE mt'[s].place[a] = c.place[a] \/ Tells(queue', p, s, {a})
      <4>1. mt'[s].place[a] = e.value[s].place[a]
        <5>1. mt[s].place[a] = e.value[s].place[a]
          BY <1>12, <2>2
        <5> QED  BY <1>8, <5>1
      <4>2. a \in Axes
        BY <1>6
      <4>3. c.place[a] = e.value[s].place[a] \/ Tells(queue, p + 1, s, {a})
        BY <3>1, <4>2 DEF Told
      <4> QED  BY <3>2, <4>1, <4>3
    <3>4. /\ c.what \in {"press", "release"} => Tells(queue', p, s, {"id"})
          /\ c.what = "slide" => Tells(queue', p, s, Axes)
      BY <3>1, <3>2 DEF Told
    <3>5. Known(queue', p, s, c, mt'[s], sure[s], sound')
      BY <1>8, <3>3, <3>4 DEF Known
    <3> QED  BY <3>5 DEF c
  <2> QED  BY <1>4, <2>1, <2>2
<1>14. RestInv'
  <2>1. ASSUME queue' = <<>>, NEW s \in T!Slots, NEW a \in sure'[s]
        PROVE  mt'[s].place[a] = finger'[s].place[a]
    <3>1. CASE e.code = "dropped"
      BY <1>3, <2>1, <3>1
    <3>2. CASE e.code = "report"
      <4>1. queue[Len(queue)] = e
        BY <1>1, <2>1, TakenHolds DEF e
      <4>2. finger[s].place = e.value[s].place
        BY <1>4, <4>1 DEF TouchInv, RestInv
      <4>3. mt[s].place[a] = e.value[s].place[a]
        BY <1>3, <1>12, <2>1, <3>2
      <4> QED  BY <1>4, <1>8, <4>2, <4>3
    <3> QED  BY <1>4, <3>1, <3>2
  <2>2. ASSUME queue' # <<>>, NEW s \in T!Slots
        PROVE  finger'[s].place = queue'[Len(queue')].value[s].place
    <3>1. queue'[Len(queue')] = queue[Len(queue)]
      BY <1>1, <2>2, TakenHolds
    <3> QED  BY <1>4, <3>1 DEF TouchInv, RestInv
  <2> QED  BY <1>8, <2>1, <2>2 DEF RestInv
<1>15. T!KindsAreTrue'
  <2> SUFFICES ASSUME trust'.kinds, NEW s \in T!Slots PROVE told'[s].what = truth'[s].what
    BY DEF T!KindsAreTrue
  <2>1. e.code = "report" /\ sound
    BY <1>3, <1>4
  <2> DEFINE c == e.value[s]
  <2>2. truth'[s] = c /\ c.what \in T!Whats
    <3>1. e.value \in [T!Slots -> Deed]
      BY <1>2, <2>1 DEF Fits
    <3> QED  BY <1>3, <2>1, <3>1 DEF Deed
  <2>3. /\ mt[s].id \in {-2, IdOf(c.what)}
        /\ c.what \in {"press", "release"} => mt[s].id # -2
        /\ c.what = "slide" => mt[s].valid
        /\ c.what = "none" => ~mt[s].valid
    BY <1>12, <2>1
  <2> HIDE DEF c
  <2>4. ~mt[s].valid => mt[s].id = -2
    BY <1>7
  <2>5. told'[s].what = IF ~mt[s].valid THEN "none"
                        ELSE IF mt[s].id >= 0 THEN "press"
                        ELSE IF mt[s].id = -1 THEN "release" ELSE "slide"
    BY <1>1 DEF T!Tell
  <2>6. told'[s].what = c.what
    BY <2>2, <2>3, <2>4, <2>5 DEF T!Whats, IdOf
  <2> QED  BY <2>2, <2>6
<1>16. T!PlacesAreTrue'
  <2> SUFFICES ASSUME NEW s \in trust'.places PROVE told'[s].place = truth'[s].place
    BY DEF T!PlacesAreTrue
  <2>1. e.code = "report" /\ s \in T!Slots /\ sure[s] = {"x", "y"} /\ truth'[s] = e.value[s]
    BY <1>3, <1>4
  <2>2. told'[s].place = mt[s].place /\ mt[s].place \in T!Places
    BY <1>1, <1>6, <2>1 DEF T!Tell
  <2>3. e.value[s].place \in T!Places
    BY <1>2, <2>1 DEF Fits, Deed
  <2>4. mt[s].place["x"] = e.value[s].place["x"] /\ mt[s].place["y"] = e.value[s].place["y"]
    BY <1>12, <2>1
  <2>5. \A f, g \in T!Places : f["x"] = g["x"] /\ f["y"] = g["y"] => f = g
    BY DEF T!Places
  <2> QED  BY <2>1, <2>2, <2>3, <2>4, <2>5
<1> QED  BY <1>5, <1>10, <1>11, <1>13, <1>14, <1>15, <1>16 DEF TouchInv

(* A report, with what was done, after the events that say it.             *)
ReportFacts(b, change, old) ==
    /\ b \in Queues /\ Len(b) >= 1
    /\ b[Len(b)].code = "report" /\ b[Len(b)].value = change
    /\ \A i \in 1..Len(b) - 1 : b[i].code # "report"
    /\ \A i \in 1..Len(b) : b[i].code # "dropped"
    /\ Truth(b) /\ AllTold(b)
    /\ \A s \in T!Slots : Told(b, Len(b), s, change[s], old[s].place)

(* The packet of a frame, b, and the slot it sends last, l.                *)
PacketFacts(b, l, change) ==
    /\ ReportFacts(b, change, finger) /\ Len(b) <= 4 * (MaxSlot + 1) + 1 /\ l \in T!Slots
    /\ Agrees(b, l) /\ Starts(b, l, kslot)

(* A report alone agrees with every slot.                                  *)
LEMMA ReportEnds ==
    ASSUME NEW e, e.code = "report", NEW l PROVE Agrees(<<e>>, l) /\ Starts(<<e>>, l, l)
<1> DEFINE q == <<e>>
<1>1. Len(q) = 1 /\ q[1] = e
  OBVIOUS
<1> HIDE DEF q
<1>2. ASSUME NEW i \in 1..Len(q) + 1, Counts(q, i) PROVE i = 2 /\ About(q, l, i) = l
  <2>1. i \in {1, 2}
    BY <1>1
  <2>2. i # 1
    BY <1>1, <1>2 DEF Counts, Moves
  <2>3. ~(2 <= Len(q))
    BY <1>1
  <2> QED  BY <2>1, <2>2, <2>3 DEF About
<1>3. ASSUME NEW i \in 1..Len(q) + 1, NEW j \in 1..i - 1, Counts(q, i) PROVE q[j].code # "slot"
  <2>1. i = 2
    BY <1>2, <1>3
  <2>2. j = 1
    BY <2>1
  <2> QED  BY <1>1, <2>2
<1>4. Agrees(q, l) /\ Starts(q, l, l)
  BY <1>2, <1>3 DEF Agrees, Starts
<1> QED  BY <1>4 DEF q

(* What has been said of a slot, c, when it was old.                       *)
Said(ev, s, c, old) ==
    /\ c.what \in {"press", "release"} => SaidOf(ev, s, "id")
    /\ c.what = "slide" => c.place # old.place
    /\ \A a \in Axes : c.place[a] = old.place[a] \/ SaidOf(ev, s, a)

(* Events and the report that ends them.                                   *)
LEMMA ReportAdded ==
    ASSUME NEW ev \in Queues, NEW change, NEW old, NEW e, NEW b, b = ev \o <<e>>,
           e \in Events, Fits(e), e.code = "report", e.value = change,
           \A i \in 1..Len(ev) : /\ ev[i].code \in {"slot", "id", "x", "y"}
                                 /\ Says(ev[i], change[ev[i].of]),
           \A s \in T!Slots : /\ Said(ev, s, change[s], old[s])
                              /\ change[s].place \in T!Places /\ old[s].place \in T!Places
    PROVE  ReportFacts(b, change, old) /\ Len(b) = Len(ev) + 1
<1> DEFINE R == <<e>>   m == Len(ev)   w == Len(b)
<1>3. \A i \in 1..m : /\ ev[i].code \in {"slot", "id", "x", "y"}
                      /\ Says(ev[i], change[ev[i].of])
  OBVIOUS
<1>4. ev \in Seq(Events) /\ \A i \in 1..m : Fits(ev[i])
  BY DEF Queues
<1>7. R \in Seq(Events) /\ Len(R) = 1 /\ R[1] = e
  OBVIOUS
<1>8. b = ev \o R
  OBVIOUS
<1>9. m = Len(ev) /\ R = <<e>> /\ w = Len(b)
  OBVIOUS
<1> HIDE DEF R, m, w
<1>10. /\ b \in Seq(Events) /\ w = m + Len(R) /\ m \in Nat
       /\ \A i \in 1..m : b[i] = ev[i]
       /\ \A i \in m + 1..w : i - m \in 1..Len(R) /\ b[i] = R[i - m]
  <2>1. ev \in Seq(Events) /\ R \in Seq(Events) /\ b = ev \o R /\ m = Len(ev) /\ w = Len(b)
    BY <1>4, <1>7, <1>8, <1>9
  <2> QED  BY <2>1, JoinFacts
<1>11. w = m + 1 /\ m + 1 \in m + 1..w /\ (m + 1) - m = 1
  BY <1>7, <1>10
<1>12. b[m + 1] = e
  <2>1. b[m + 1] = R[(m + 1) - m]
    BY <1>10, <1>11
  <2> QED  BY <1>7, <1>11, <2>1
<1>13. \A i \in 1..w : i \in 1..m \/ i = m + 1
  BY <1>10, <1>11
<1>14. b \in Queues /\ \A i \in 1..Len(b) : b[i].code # "dropped"
  <2>1. \A i \in 1..Len(b) : Fits(b[i])
    BY <1>4, <1>9, <1>10, <1>12, <1>13
  <2>2. \A i \in 1..Len(b) : b[i].code # "dropped"
    <3>1. \A i \in 1..m : b[i].code # "dropped"
      BY <1>3, <1>10
    <3>2. b[m + 1].code # "dropped"
      BY <1>12
    <3> QED  BY <1>9, <1>13, <3>1, <3>2
  <2> QED  BY <1>10, <2>1, <2>2 DEF Queues
<1>17. \A i \in 1..m : b[i].code # "report" /\ Says(b[i], change[b[i].of])
  BY <1>3, <1>10
<1>18. Truth(b)
  <2> SUFFICES ASSUME NEW h \in 1..w, NEW i \in 1..h - 1, Part(b, i, h)
               PROVE  Says(b[i], b[h].value[b[i].of])
    BY <1>9 DEF Truth
  <2>1. h = m + 1
    BY <1>13, <1>17 DEF Part
  <2>2. i \in 1..m
    BY <1>10, <2>1
  <2> QED  BY <1>12, <1>17, <2>1, <2>2
<1>19. AllTold(b)
  <2>1. ASSUME NEW h \in 1..w, NEW o \in 1..h - 1 PROVE ~NextReport(b, o, h)
    <3>1. o \in 1..m
      BY <1>10, <1>11
    <3> QED  BY <1>17, <3>1 DEF NextReport
  <2> QED  BY <1>9, <2>1 DEF AllTold
<1>20. ASSUME NEW s, NEW code, NEW codes, code \in codes, SaidOf(ev, s, code)
       PROVE  Tells(b, m + 1, s, codes)
  <2>1. PICK i \in 1..m : ev[i].of = s /\ ev[i].code = code
    BY <1>9, <1>20 DEF SaidOf
  <2>2. i \in 1..(m + 1) - 1 /\ \A k \in i..(m + 1) - 1 : k \in 1..m
    BY <1>10
  <2>3. Part(b, i, m + 1)
    BY <1>12, <1>17, <2>2 DEF Part
  <2> QED  BY <1>10, <1>20, <2>1, <2>2, <2>3 DEF Tells
<1>21. ASSUME NEW s \in T!Slots PROVE Told(b, m + 1, s, change[s], old[s].place)
  <2> DEFINE c == change[s]   o == old[s].place
  <2>2. /\ c.what \in {"press", "release"} => SaidOf(ev, s, "id")
        /\ c.what = "slide" => c.place # o
        /\ \A a \in Axes : c.place[a] = o[a] \/ SaidOf(ev, s, a)
    BY DEF Said
  <2>3. c.place \in T!Places /\ o \in T!Places
    OBVIOUS
  <2> HIDE DEF c, o
  <2>5. c.what = "slide" => \E a \in Axes : c.place[a] # o[a]
    <3>1. \A f, g \in T!Places : f["x"] = g["x"] /\ f["y"] = g["y"] => f = g
      BY DEF T!Places
    <3> QED  BY <2>2, <2>3, <3>1 DEF Axes
  <2>6. c.what \in {"press", "release"} => Tells(b, m + 1, s, {"id"})
    BY <1>20, <2>2
  <2>7. \A a \in Axes : c.place[a] = o[a] \/ Tells(b, m + 1, s, {a})
    BY <1>20, <2>2
  <2>8. c.what = "slide" => Tells(b, m + 1, s, Axes)
    BY <1>20, <2>2, <2>5
  <2>9. Told(b, m + 1, s, c, o)
    BY <2>6, <2>7, <2>8 DEF Told
  <2> QED  BY <2>9 DEF c, o
<1>22. (\A i \in 1..w - 1 : i \in 1..m) /\ w >= 1
  BY <1>10, <1>11
<1> QED  BY <1>9, <1>11, <1>12, <1>14, <1>17, <1>18, <1>19, <1>21, <1>22 DEF ReportFacts

(* The packet of a frame with its report.                                  *)
LEMMA PacketIsRight ==
    ASSUME TouchTypes, NEW change, Can(change), NEW p, p = T!Packet(change)
    PROVE  PacketFacts(p.events \o T!Event("report", change, p.last), p.last, change)
<1> DEFINE b == p.events \o T!Event("report", change, p.last)
           ev == p.events   l == p.last
           e == [code |-> "report", value |-> change, of |-> l]
<1>1. kslot \in T!Slots /\ finger \in [T!Slots -> [down : BOOLEAN, place : T!Places]]
  BY DEF TouchTypes
<1>2. Sent(p, change, MaxSlot)
  BY <1>1, PacketSent
<1>3. /\ ev \in Queues /\ l \in T!Slots /\ Len(ev) <= 4 * (MaxSlot + 1)
      /\ \A i \in 1..Len(ev) : /\ ev[i].code \in {"slot", "id", "x", "y"}
                               /\ Says(ev[i], change[ev[i].of])
      /\ Agrees(ev, l) /\ Starts(ev, l, kslot)
      /\ \A s \in 0..MaxSlot :
             /\ change[s].what \in {"press", "release"} => SaidOf(ev, s, "id")
             /\ \A a \in Axes : change[s].place[a] = finger[s].place[a] \/ SaidOf(ev, s, a)
  BY <1>2 DEF Sent
<1>4. ev \in Seq(Events)
  BY <1>3 DEF Queues
<1>5. change \in [T!Slots -> Deed]
  BY DEF Can
<1>6. e \in Events /\ Fits(e) /\ e.code = "report" /\ e.value = change
  BY <1>3, <1>5 DEF Events, Values, T!Codes, Fits
<1>7. b = ev \o <<e>>
  BY DEF T!Event
<1>8. ASSUME NEW s \in T!Slots
      PROVE  /\ Said(ev, s, change[s], finger[s])
             /\ change[s].place \in T!Places /\ finger[s].place \in T!Places
  <2>1. s \in 0..MaxSlot
    BY DEF T!Slots
  <2>2. change[s] \in T!Changes(finger[s])
    BY DEF Can
  <2>3. change[s].what = "slide" => change[s].place # finger[s].place
    BY <2>2 DEF T!Changes
  <2> QED  BY <1>1, <1>3, <1>5, <2>1, <2>3 DEF Said, Deed
<1> HIDE DEF b, ev, l, e
<1>9. ReportFacts(b, change, finger)
  BY <1>3, <1>6, <1>7, <1>8, ReportAdded
<1>10. Len(b) = Len(ev) + 1
  BY <1>3, <1>6, <1>7, <1>8, ReportAdded
<1>11. Len(b) <= 4 * (MaxSlot + 1) + 1
  <2>1. MaxSlot \in Nat /\ Len(ev) \in Nat
    BY <1>4, QueueAssumption
  <2> QED  BY <1>3, <1>10, <2>1
<1>12. Agrees(b, l) /\ Starts(b, l, kslot)
  <2> DEFINE R == <<e>>
  <2>1. Agrees(R, l) /\ Starts(R, l, l) /\ R \in Seq(Events) /\ b = ev \o R
    BY <1>6, <1>7, ReportEnds
  <2> HIDE DEF R
  <2>2. Agrees(b, l)
    BY <1>3, <1>4, <2>1, JoinAgrees
  <2>3. \A s : Starts(ev, l, s) => Starts(b, l, s)
    BY <1>3, <1>4, <2>1, JoinAgrees
  <2> QED  BY <1>3, <2>2, <2>3
<1>13. PacketFacts(b, l, change)
  BY <1>3, <1>9, <1>11, <1>12 DEF PacketFacts
<1> QED  BY <1>13 DEF l, b

(* A packet stands in the queue it is appended to, as what was there does. *)
LEMMA JoinInside ==
    ASSUME NEW a \in Seq(Events), NEW b \in Seq(Events), NEW r, r = a \o b, NEW m, m = Len(a)
    PROVE  /\ Inside(a, r, 0, 1) /\ Inside(b, r, m, 1)
           /\ m \in Nat /\ Len(b) \in Nat /\ Len(r) = m + Len(b)
<1> DEFINE w == Len(r)   d == Len(b)
<1>1. w = Len(r) /\ d = Len(b) /\ m = Len(a)
  OBVIOUS
<1> HIDE DEF w, d
<1>2. /\ r \in Seq(Events) /\ w = m + d /\ m \in Nat /\ w \in Nat /\ d \in Nat
      /\ \A i \in 1..m : r[i] = a[i]
      /\ \A i \in m + 1..w : i - m \in 1..d /\ r[i] = b[i - m]
  <2>1. /\ r \in Seq(Events) /\ w = m + Len(b) /\ m \in Nat /\ w \in Nat /\ Len(b) \in Nat
        /\ \A i \in 1..m : r[i] = a[i]
        /\ \A i \in m + 1..w : i - m \in 1..Len(b) /\ r[i] = b[i - m]
    BY <1>1, JoinFacts
  <2> QED  BY <1>1, <2>1
<1>3. ASSUME NEW i \in 1..m PROVE i + 0 \in 1..w /\ r[i + 0] = a[i]
  <2>1. i + 0 = i /\ i \in 1..w
    BY <1>2
  <2> QED  BY <1>2, <2>1
<1>4. ASSUME NEW i \in 1..d PROVE i + m \in 1..w /\ r[i + m] = b[i]
  <2>1. i + m \in 1..w /\ i + m \in m + 1..w /\ (i + m) - m = i
    BY <1>2
  <2>2. r[i + m] = b[(i + m) - m]
    BY <1>2, <2>1
  <2> QED  BY <2>1, <2>2, Zenon
<1>5. Inside(a, r, 0, 1)
  BY <1>1, <1>2, <1>3 DEF Inside
<1>6. Inside(b, r, m, 1)
  BY <1>1, <1>2, <1>4 DEF Inside
<1> QED  BY <1>1, <1>2, <1>5, <1>6

(* A frame is appended to the queue.                                       *)
LEMMA JoinHolds ==
    ASSUME NEW a \in Seq(Events), NEW b \in Seq(Events), NEW r, r = a \o b, NEW old,
           Len(b) >= 1, b[Len(b)].code = "report",
           \A i \in 1..Len(b) - 1 : b[i].code # "report",
           a # <<>> => a[Len(a)].code = "report"
                       /\ \A s \in T!Slots : a[Len(a)].value[s].place = old[s].place,
           Truth(a), Truth(b), AllTold(a),
           \A s \in T!Slots : Told(b, Len(b), s, b[Len(b)].value[s], old[s].place)
    PROVE  Truth(r) /\ AllTold(r)
<1> DEFINE m == Len(a)   w == Len(r)   d == Len(b)
<1>1. m = Len(a) /\ w = Len(r) /\ d = Len(b)
  OBVIOUS
<1> HIDE DEF m, w, d
<1>2. Inside(a, r, 0, 1) /\ Inside(b, r, m, 1) /\ m \in Nat /\ d \in Nat /\ w = m + d /\ d >= 1
  <2>1. Inside(a, r, 0, 1) /\ Inside(b, r, m, 1) /\ m \in Nat /\ Len(b) \in Nat
    BY <1>1, JoinInside
  <2>2. Len(r) = m + Len(b)
    BY <1>1, JoinInside
  <2> QED  BY <1>1, <2>1, <2>2
<1>3. /\ \A i \in 1..m : r[i] = a[i]
      /\ \A i \in 1..d : r[i + m] = b[i]
  <2>1. ASSUME NEW i \in 1..m PROVE r[i] = a[i]
    <3>1. r[i + 0] = a[i] /\ i + 0 = i
      BY <1>1, <1>2 DEF Inside
    <3> QED  BY <3>1, Zenon
  <2> QED  BY <1>1, <1>2, <2>1 DEF Inside
<1>4. a # <<>> <=> m # 0
  <2>1. a = <<>> => Len(a) = 0
    OBVIOUS
  <2>2. Len(a) = 0 => a = <<>>
    OBVIOUS
  <2> QED  BY <1>1, <2>1, <2>2
(* Reports of the packet: only its last event.                             *)
<1>5. ASSUME NEW p \in m + 1..w, r[p].code = "report" PROVE p = w /\ r[w] = b[d]
  <2> DEFINE h == p - m
  <2>1. h \in 1..d /\ h + m = p /\ d + m = w /\ d \in 1..d
    BY <1>2
  <2> HIDE DEF h
  <2>2. b[h].code = "report" /\ r[d + m] = b[d]
    BY <1>3, <1>5, <2>1
  <2>3. ~(h \in 1..d - 1)
    BY <1>1, <2>2
  <2>4. h = d
    BY <1>2, <2>1, <2>3
  <2> QED  BY <2>1, <2>2, <2>4
<1>6. ASSUME NEW p \in m + 1..w, NEW i \in 1..p - 1, \A k \in i..p - 1 : r[k].code # "report"
      PROVE  i \in m + 1..p - 1
  <2>1. CASE m = 0
    BY <1>2, <2>1
  <2>2. CASE m # 0
    <3>1. m \in 1..m /\ r[m].code = "report"
      BY <1>1, <1>2, <1>3, <1>4, <2>2
    <3>2. ~(m \in i..p - 1)
      BY <1>6, <3>1
    <3> QED  BY <1>2, <3>2
  <2> QED  BY <2>1, <2>2
<1>7. ASSUME NEW p \in 1..w, NEW i \in 1..p - 1, Part(r, i, p)
      PROVE  Says(r[i], r[p].value[r[i].of])
  <2>1. CASE p \in 1..m
    <3>1. i \in 1..m /\ p + 0 = p /\ i + 0 = i
      BY <1>2, <2>1
    <3>2. Part(a, i, p) <=> Part(r, i + 0, p + 0)
      BY <1>1, <1>2, <2>1, InsidePart
    <3>3. Part(a, i, p)
      BY <1>7, <3>1, <3>2
    <3>4. Says(a[i], a[p].value[a[i].of])
      BY <1>1, <2>1, <3>3 DEF Truth
    <3> QED  BY <1>3, <2>1, <3>1, <3>4
  <2>2. CASE p \in m + 1..w
    <3>1. i \in m + 1..p - 1
      BY <1>6, <1>7, <2>2 DEF Part
    <3> DEFINE j == i - m   h == p - m
    <3>2. j \in 1..h - 1 /\ h \in 1..d /\ j \in 1..d /\ j + m = i /\ h + m = p
      BY <1>2, <2>2, <3>1
    <3> HIDE DEF j, h
    <3>3. Part(b, j, h) <=> Part(r, j + m, h + m)
      BY <1>1, <1>2, <3>2, InsidePart
    <3>4. Part(b, j, h)
      BY <1>7, <3>2, <3>3
    <3>5. Says(b[j], b[h].value[b[j].of])
      BY <1>1, <3>2, <3>4 DEF Truth
    <3>6. r[i] = b[j] /\ r[p] = b[h]
      BY <1>3, <3>2
    <3> QED  BY <3>5, <3>6
  <2>3. p \in 1..m \/ p \in m + 1..w
    BY <1>2
  <2> QED  BY <2>1, <2>2, <2>3
<1>8. ASSUME NEW p \in 1..w, NEW o \in 1..p - 1, NextReport(r, o, p), NEW s \in T!Slots
      PROVE  Told(r, p, s, r[p].value[s], r[o].value[s].place)
  <2>1. CASE p \in 1..m
    <3>1. o \in 1..m /\ p + 0 = p /\ o + 0 = o
      BY <1>2, <2>1
    <3>2. NextReport(a, o, p) <=> NextReport(r, o + 0, p + 0)
      BY <1>1, <1>2, <2>1, InsideReports
    <3>3. NextReport(a, o, p)
      BY <1>8, <3>1, <3>2
    <3>4. Told(a, p, s, a[p].value[s], a[o].value[s].place)
      BY <1>1, <2>1, <3>3 DEF AllTold
    <3>5. ASSUME NEW codes, Tells(a, p, s, codes) PROVE Tells(r, p, s, codes)
      <4>1. Tells(r, p + 0, s, codes)
        BY <1>1, <1>2, <2>1, <3>5, InsideTells
      <4> QED  BY <3>1, <4>1
    <3>6. r[p] = a[p] /\ r[o] = a[o]
      BY <1>3, <2>1, <3>1
    <3> QED  BY <3>4, <3>5, <3>6 DEF Told
  <2>2. CASE p \in m + 1..w
    <3>1. /\ r[p].code = "report" /\ r[o].code = "report"
          /\ \A k \in o + 1..p - 1 : r[k].code # "report"
      BY <1>8 DEF NextReport
    <3>2. p = w /\ r[p] = b[d] /\ d \in 1..d /\ d + m = p
      <4>1. p = w /\ r[w] = b[d]
        BY <1>5, <2>2, <3>1
      <4>2. d \in 1..d /\ d + m = w
        BY <1>2
      <4> QED  BY <4>1, <4>2
    <3>3. o \in 1..m
      <4> SUFFICES ASSUME o \in m + 1..w PROVE FALSE
        BY <1>2, <3>2
      <4>1. o = w
        BY <1>5, <3>1
      <4> QED  BY <1>2, <3>2, <4>1
    <3>4. o = m
      <4> SUFFICES ASSUME o # m PROVE FALSE
        OBVIOUS
      <4>1. o + 1 \in 1..p - 1
        BY <1>2, <2>2, <3>3
      <4>2. o + 1 \in m + 1..p - 1
        BY <1>6, <2>2, <3>1, <4>1
      <4> QED  BY <1>2, <3>3, <4>2
    <3>5. r[o] = a[m] /\ a[m].value[s].place = old[s].place
      BY <1>1, <1>3, <1>4, <3>3, <3>4
    <3>6. Told(b, d, s, b[d].value[s], old[s].place)
      BY <1>1
    <3>7. ASSUME NEW codes, Tells(b, d, s, codes) PROVE Tells(r, p, s, codes)
      <4>1. Tells(r, d + m, s, codes)
        BY <1>1, <1>2, <3>2, <3>7, InsideTells
      <4> QED  BY <3>2, <4>1
    <3> QED  BY <3>2, <3>5, <3>6, <3>7 DEF Told
  <2>3. p \in 1..m \/ p \in m + 1..w
    BY <1>2
  <2> QED  BY <2>1, <2>2, <2>3
<1>9. Truth(r)
  BY <1>1, <1>7 DEF Truth
<1>10. AllTold(r)
  BY <1>1, <1>8 DEF AllTold
<1> QED  BY <1>9, <1>10

(* What is appended to a queue.                                            *)
Appended(a, b, r, change, old) ==
    /\ a \in Queues /\ ReportFacts(b, change, old) /\ r = a \o b
    /\ Ends(a) /\ Truth(a) /\ AllTold(a)
    /\ a # <<>> => \A s \in T!Slots : a[Len(a)].value[s].place = old[s].place

(* What holds of a queue, and of a packet, holds of both together.         *)
LEMMA AppendHolds ==
    ASSUME NEW a, NEW b, NEW r, NEW change, NEW old, Appended(a, b, r, change, old)
    PROVE  /\ r \in Queues /\ Len(r) = Len(a) + Len(b) /\ Len(a) \in Nat /\ Len(b) \in Nat
           /\ r # <<>> /\ Ends(r) /\ Truth(r) /\ AllTold(r)
           /\ r[Len(r)].value = change /\ (Lost(r) <=> Lost(a))
           /\ \A p : FirstReport(r, p) =>
                  \/ /\ a = <<>> /\ r[p].value = change
                     /\ \A s \in T!Slots : Told(r, p, s, change[s], old[s].place)
                  \/ /\ a # <<>> /\ FirstReport(a, p) /\ r[p] = a[p]
                     /\ \A s, codes : Tells(a, p, s, codes) => Tells(r, p, s, codes)
<1> DEFINE m == Len(a)   w == Len(r)   d == Len(b)
<1>1. /\ r = a \o b /\ m = Len(a) /\ w = Len(r) /\ d = Len(b)
      /\ a \in Seq(Events) /\ b \in Seq(Events) /\ b \in Queues /\ a \in Queues
  BY DEF Appended, Queues, ReportFacts
<1>2. /\ d >= 1
      /\ b[d].code = "report" /\ b[d].value = change
      /\ \A i \in 1..d - 1 : b[i].code # "report"
      /\ \A i \in 1..d : b[i].code # "dropped"
      /\ Truth(b) /\ AllTold(b)
      /\ \A s \in T!Slots : Told(b, d, s, change[s], old[s].place)
  BY DEF Appended, ReportFacts
<1> HIDE DEF m, w, d
<1>3. Inside(a, r, 0, 1) /\ Inside(b, r, m, 1) /\ m \in Nat /\ d \in Nat /\ w = m + d
  BY <1>1, JoinInside
<1>4. r \in Seq(Events)
  BY <1>3 DEF Inside
<1>5. ASSUME NEW i \in 1..m PROVE r[i] = a[i]
  <2>1. r[i + 0] = a[i] /\ i + 0 = i
    BY <1>1, <1>3 DEF Inside
  <2> QED  BY <2>1, Zenon
<1>6. \A i \in 1..d : r[i + m] = b[i]
  BY <1>1, <1>3 DEF Inside
<1>7. ASSUME NEW i \in 1..w PROVE i \in 1..m \/ \E j \in 1..d : i = j + m /\ r[i] = b[j]
  <2>1. CASE i \in 1..m
    BY <2>1
  <2>2. CASE i \notin 1..m
    <3> DEFINE j == i - m
    <3>1. j \in 1..d /\ i = j + m
      BY <1>3, <2>2
    <3> HIDE DEF j
    <3>2. r[i] = b[j]
      BY <1>6, <3>1
    <3> QED  BY <3>1, <3>2
  <2> QED  BY <2>1, <2>2
<1>8. r[w] = b[d] /\ w >= 1 /\ w \in 1..w
  <2>1. d \in 1..d /\ d + m = w /\ w >= 1 /\ w \in 1..w
    BY <1>2, <1>3
  <2> QED  BY <1>6, <2>1
<1>9. a # <<>> <=> m # 0
  <2>1. a = <<>> => Len(a) = 0
    OBVIOUS
  <2>2. Len(a) = 0 => a = <<>>
    BY <1>1
  <2> QED  BY <1>1, <2>1, <2>2
<1>10. r \in Queues
  <2>1. ASSUME NEW i \in 1..w PROVE Fits(r[i])
    <3>1. \A j \in 1..d : Fits(b[j])
      BY <1>1 DEF Queues
    <3>2. \A j \in 1..m : Fits(a[j])
      BY <1>1 DEF Queues
    <3> QED  BY <1>5, <1>7, <3>1, <3>2
  <2> QED  BY <1>1, <1>4, <2>1 DEF Queues
<1>11. r # <<>>
  <2>1. Len(r) # 0
    BY <1>1, <1>8
  <2> QED  BY <2>1
<1>12. Ends(r)
  <2>1. ASSUME NEW i \in 2..w PROVE r[i].code # "dropped"
    <3>1. i \in 1..w /\ (i \in 1..m => i \in 2..m)
      BY <1>3
    <3>2. \A j \in 2..m : a[j].code # "dropped"
      BY <1>1 DEF Appended, Ends
    <3> QED  BY <1>2, <1>5, <1>7, <3>1, <3>2
  <2> QED  BY <1>1, <1>2, <1>8, <2>1 DEF Ends
<1>13. /\ m # 0 => r[1] = a[1] /\ (Lost(r) <=> Lost(a))
       /\ m = 0 => ~Lost(r) /\ ~Lost(a) /\ r = b /\ w = d
  <2>1. CASE m # 0
    <3>1. 1 \in 1..m
      BY <1>3, <2>1
    <3> QED  BY <1>5, <1>9, <1>11, <2>1, <3>1 DEF Lost
  <2>2. CASE m = 0
    <3>1. 1 \in 1..w /\ 1 \notin 1..m
      BY <1>8, <2>2
    <3>2. r[1].code # "dropped"
      BY <1>2, <1>7, <3>1
    <3>3. a = <<>>
      BY <1>9, <2>2
    <3>4. <<>> \o b = b
      BY <1>1
    <3> QED  BY <1>1, <2>2, <3>2, <3>3, <3>4 DEF Lost
  <2> QED  BY <2>1, <2>2
<1>14. Truth(r) /\ AllTold(r)
  <2>1. Truth(a) /\ AllTold(a)
    BY DEF Appended
  <2>2. /\ Len(b) >= 1 /\ b[Len(b)].code = "report"
        /\ \A i \in 1..Len(b) - 1 : b[i].code # "report"
        /\ \A s \in T!Slots : Told(b, Len(b), s, b[Len(b)].value[s], old[s].place)
    BY <1>1, <1>2
  <2>3. a # <<>> => /\ a[Len(a)].code = "report"
                    /\ \A s \in T!Slots : a[Len(a)].value[s].place = old[s].place
    BY DEF Appended, Ends
  <2>4. Truth(b)
    BY <1>2
  <2>5. Truth(r)
    BY <1>1, <2>1, <2>2, <2>3, <2>4, JoinHolds
  <2>6. AllTold(r)
    BY <1>1, <2>1, <2>2, <2>3, <2>4, JoinHolds
  <2> QED  BY <2>5, <2>6
<1>15. ASSUME NEW p, FirstReport(r, p)
       PROVE  \/ /\ a = <<>> /\ r[p].value = change
                 /\ \A s \in T!Slots : Told(r, p, s, change[s], old[s].place)
              \/ /\ a # <<>> /\ FirstReport(a, p) /\ r[p] = a[p]
                 /\ \A s, codes : Tells(a, p, s, codes) => Tells(r, p, s, codes)
  <2>0. p \in 1..w /\ r[p].code = "report" /\ \A k \in 1..p - 1 : r[k].code # "report"
    BY <1>1, <1>15 DEF FirstReport
  <2>1. CASE m # 0
    <3>1. m \in 1..m /\ r[m].code = "report"
      <4>1. m \in 1..m
        BY <1>3, <2>1
      <4>2. a[m].code = "report"
        BY <1>1, <1>9, <2>1 DEF Appended, Ends
      <4> QED  BY <1>5, <4>1, <4>2
    <3>2. p \in 1..m
      <4>1. ~(m \in 1..p - 1)
        BY <2>0, <3>1
      <4> QED  BY <1>3, <2>0, <3>1, <4>1
    <3>3. FirstReport(a, p)
      <4>1. \A k \in 1..p - 1 : k \in 1..m
        BY <1>3, <3>2
      <4> QED  BY <1>1, <1>5, <2>0, <3>2, <4>1 DEF FirstReport
    <3>4. ASSUME NEW s, NEW codes, Tells(a, p, s, codes) PROVE Tells(r, p, s, codes)
      <4>1. Tells(r, p + 0, s, codes)
        BY <1>1, <1>3, <3>2, <3>4, InsideTells
      <4>2. p + 0 = p
        BY <1>3, <3>2
      <4> QED  BY <4>1, <4>2
    <3> QED  BY <1>5, <1>9, <2>1, <3>2, <3>3, <3>4
  <2>2. CASE m = 0
    <3>1. r = b /\ w = d /\ a = <<>>
      BY <1>9, <1>13, <2>2
    <3>2. p = d
      <4>1. ~(p \in 1..d - 1)
        BY <1>2, <2>0, <3>1
      <4> QED  BY <1>3, <2>0, <3>1, <4>1
    <3> QED  BY <1>2, <3>1, <3>2
  <2> QED  BY <2>1, <2>2
<1> QED  BY <1>1, <1>2, <1>3, <1>8, <1>10, <1>11, <1>12, <1>13, <1>14, <1>15

(* Nothing has been heard of a slot that is at place.                      *)
Fresh(m, sur, place) == ~m.valid /\ m.id = -2 /\ \A a \in sur : m.place[a] = place[a]

(* What is known of a slot is known when more is to come.                  *)
LEMMA StillKnown ==
    ASSUME NEW a, NEW b, NEW r, NEW change, NEW old, Appended(a, b, r, change, old),
           NEW s \in T!Slots, NEW m, NEW sur \in SUBSET Axes, NEW snd, NEW p, FirstReport(r, p),
           a = <<>> => Fresh(m, sur, old[s].place),
           FirstReport(a, p) => Known(a, p, s, a[p].value[s], m, sur, snd)
    PROVE  Known(r, p, s, r[p].value[s], m, sur, snd)
<1>1. /\ Lost(r) <=> Lost(a)
      /\ \/ /\ a = <<>> /\ r[p].value = change
            /\ \A h \in T!Slots : Told(r, p, h, change[h], old[h].place)
         \/ /\ a # <<>> /\ FirstReport(a, p) /\ r[p] = a[p]
            /\ \A h, codes : Tells(a, p, h, codes) => Tells(r, p, h, codes)
  BY AppendHolds
<1>2. CASE a = <<>>
  <2>1. Told(r, p, s, r[p].value[s], old[s].place)
    BY <1>1, <1>2
  <2> QED  BY <1>2, <2>1 DEF Told, Known, Fresh
<1>3. CASE a # <<>>
  <2>1. Known(a, p, s, r[p].value[s], m, sur, snd)
    BY <1>1, <1>3
  <2>2. \A codes : Tells(a, p, s, codes) => Tells(r, p, s, codes)
    BY <1>1, <1>3
  <2> QED  BY <1>1, <2>1, <2>2 DEF Known
<1> QED  BY <1>2, <1>3

(* A frame with room in the queue.                                         *)
LEMMA FrameAppended ==
    ASSUME TouchInv, NEW b, NEW l, NEW change, PacketFacts(b, l, change),
           Len(b) <= QueueMax - Len(queue), queue' = queue \o b, kslot' = l,
           finger' \in [T!Slots -> [down : BOOLEAN, place : T!Places]],
           \A s \in T!Slots : finger'[s].place = change[s].place,
           UNCHANGED <<slot, mt, told, truth, slotSure, sure, sound, trust>>
    PROVE  TouchInv'
<1> DEFINE r == queue'
<1>1. Appended(queue, b, r, change, finger)
  BY DEF TouchInv, TouchTypes, PacketFacts, RestInv, Appended
<1> HIDE DEF r
<1>2. /\ r \in Queues /\ Len(r) = Len(queue) + Len(b) /\ Len(queue) \in Nat /\ Len(b) \in Nat
      /\ r # <<>> /\ Ends(r) /\ Truth(r) /\ AllTold(r)
      /\ r[Len(r)].value = change /\ (Lost(r) <=> Lost(queue))
  BY <1>1, AppendHolds
<1>3. SlotInv'
  <2>1. /\ queue \in Seq(Events) /\ b \in Seq(Events) /\ r = queue \o b
        /\ Agrees(queue, kslot) /\ Agrees(b, l) /\ Starts(b, l, kslot)
    BY <1>1 DEF TouchInv, SlotInv, PacketFacts, ReportFacts, Appended, Queues
  <2>2. Agrees(r, l)
    BY <2>1, JoinAgrees
  <2>3. \A s : Starts(queue, kslot, s) => Starts(r, l, s)
    BY <2>1, JoinAgrees
  <2>4. ~Lost(queue) /\ slotSure => Starts(queue, kslot, slot)
    BY DEF TouchInv, SlotInv
  <2>5. slotSure' = slotSure /\ slot' = slot
    OBVIOUS
  <2>6. ~Lost(r) /\ slotSure' => Starts(r, l, slot')
    BY <1>2, <2>3, <2>4, <2>5
  <2>7. Agrees(queue', kslot') /\ (~Lost(queue') /\ slotSure' => Starts(queue', kslot', slot'))
    BY <2>2, <2>6 DEF r
  <2> QED  BY <2>7 DEF SlotInv
<1>4. ASSUME NEW p, FirstReport(r, p), NEW s \in T!Slots
      PROVE  Known(r, p, s, r[p].value[s], mt[s], sure[s], sound)
  <2> DEFINE m == mt[s]   u == sure[s]
  <2>1. queue = <<>> => Fresh(m, u, finger[s].place)
    BY DEF TouchInv, RestInv, Fresh
  <2>2. FirstReport(queue, p) => Known(queue, p, s, queue[p].value[s], m, u, sound)
    BY DEF TouchInv, FirstInv, FirstReport
  <2>3. u \in SUBSET Axes
    BY DEF TouchInv, TouchTypes
  <2> HIDE DEF m, u
  <2>4. Known(r, p, s, r[p].value[s], m, u, sound)
    BY <1>1, <1>4, <2>1, <2>2, <2>3, StillKnown
  <2> QED  BY <2>4 DEF m, u
<1>5. FirstInv'
  <2>1. mt' = mt /\ sure' = sure /\ sound' = sound
    OBVIOUS
  <2>2. \A p \in 1..Len(queue') : FirstReport(queue', p) => \A s \in T!Slots :
           Known(queue', p, s, queue'[p].value[s], mt'[s], sure'[s], sound')
    BY <1>4, <2>1 DEF r
  <2> QED  BY <2>2 DEF FirstInv
<1>6. RestInv'
  <2>1. \A s \in T!Slots : ~mt'[s].valid => mt'[s].id = -2
    BY DEF TouchInv, RestInv
  <2>2. \A s \in T!Slots : finger'[s].place = r[Len(r)].value[s].place
    BY <1>2
  <2>3. queue' # <<>> /\ \A s \in T!Slots : finger'[s].place = queue'[Len(queue')].value[s].place
    BY <1>2, <2>2 DEF r
  <2> QED  BY <2>1, <2>3 DEF RestInv
<1>7. TouchTypes'
  <2>1. Len(r) <= QueueMax
    <3>1. QueueMax \in Nat
      BY QueueAssumption
    <3> QED  BY <1>2, <3>1
  <2>2. queue' \in Queues /\ Len(queue') <= QueueMax /\ kslot' \in T!Slots
    BY <1>2, <2>1 DEF r, PacketFacts
  <2> QED  BY <2>2 DEF TouchInv, TouchTypes
<1>8. T!KindsAreTrue' /\ T!PlacesAreTrue'
  BY DEF TouchInv, T!KindsAreTrue, T!PlacesAreTrue
<1>9. Ends(queue') /\ Truth(queue') /\ AllTold(queue')
  BY <1>2 DEF r
<1> QED  BY <1>3, <1>5, <1>6, <1>7, <1>8, <1>9 DEF TouchInv

(* The events of a packet for which there is no room, after the loss.      *)
LEMMA RestOfPacket ==
    ASSUME NEW b \in Seq(Events), NEW e \in Events, NEW room \in Nat, room < Len(b),
           NEW r, r = <<e>> \o SubSeq(b, room + 1, Len(b))
    PROVE  /\ r \in Seq(Events) /\ r[1] = e /\ Len(r) = 1 + (Len(b) - room) /\ Len(b) \in Nat
           /\ \A i \in 2..Len(r) : i + (room - 1) \in 1..Len(b) /\ b[i + (room - 1)] = r[i]
<1> DEFINE E1 == <<e>>   S1 == SubSeq(b, room + 1, Len(b))   d == Len(b)   w == Len(r)
<1>1. d = Len(b) /\ w = Len(r) /\ d \in Nat
  OBVIOUS
<1>2. E1 \in Seq(Events) /\ Len(E1) = 1 /\ E1[1] = e
  OBVIOUS
<1>3. S1 \in Seq(Events) /\ Len(S1) = d - room
  OBVIOUS
<1>4. \A i \in 1..d - room : S1[i] = b[i + room]
  OBVIOUS
<1>5. r = E1 \o S1
  OBVIOUS
<1> HIDE DEF E1, S1, d, w
<1>6. r \in Seq(Events) /\ w = 1 + Len(S1) /\ r[1] = e
  BY <1>1, <1>2, <1>3, <1>5
<1>7. \A i \in 1..Len(S1) : r[i + 1] = S1[i]
  <2> DEFINE m == 1
  <2>1. E1 \in Seq(Events) /\ S1 \in Seq(Events) /\ r = E1 \o S1 /\ m = Len(E1) /\ m = 1
    BY <1>2, <1>3, <1>5
  <2> HIDE DEF m
  <2>2. Inside(S1, r, m, 1)
    BY <2>1, JoinInside
  <2> QED  BY <2>1, <2>2 DEF Inside
<1>8. ASSUME NEW i \in 2..w PROVE i + (room - 1) \in 1..d /\ b[i + (room - 1)] = r[i]
  <2> DEFINE j == i - 1
  <2>1. j \in 1..d - room /\ j + 1 = i /\ j + room = i + (room - 1)
    BY <1>1, <1>3, <1>6
  <2> HIDE DEF j
  <2>2. r[j + 1] = S1[j] /\ S1[j] = b[j + room]
    BY <1>3, <1>4, <1>7, <2>1
  <2>3. i + (room - 1) \in 1..d
    BY <1>1, <1>3, <1>6
  <2> QED  BY <2>1, <2>2, <2>3
<1> QED  BY <1>1, <1>3, <1>6, <1>8

(* A loss, and the rest of the packet.                                     *)
Cut(r, b, e, room) ==
    /\ e \in Events /\ Fits(e) /\ e.code = "dropped"
    /\ room \in Nat /\ room < Len(b) /\ r = <<e>> \o SubSeq(b, room + 1, Len(b))

(* What holds of a packet holds of what is left of it after a loss.        *)
LEMMA CutHolds ==
    ASSUME NEW b, NEW change, NEW old, ReportFacts(b, change, old),
           NEW r, NEW e, NEW room, Cut(r, b, e, room)
    PROVE  /\ r \in Queues /\ r # <<>> /\ Lost(r) /\ Len(r) = 1 + (Len(b) - room) /\ Len(b) \in Nat
           /\ Ends(r) /\ Truth(r) /\ AllTold(r) /\ r[Len(r)].value = change
           /\ \A l : Agrees(b, l) => Agrees(r, l)
<1> DEFINE w == Len(r)   d == Len(b)
<1>0. /\ e \in Events /\ Fits(e) /\ e.code = "dropped"
      /\ room \in Nat /\ room < Len(b) /\ r = <<e>> \o SubSeq(b, room + 1, Len(b))
  BY DEF Cut
<1>1. /\ w = Len(r) /\ d = Len(b) /\ b \in Seq(Events) /\ b \in Queues
      /\ d >= 1 /\ b[d].code = "report" /\ b[d].value = change
      /\ \A i \in 1..d : b[i].code # "dropped"
      /\ Truth(b) /\ AllTold(b)
  BY DEF ReportFacts, Queues
<1>2. d \in Nat /\ room < d /\ room \in Nat
  BY <1>0, <1>1
<1> HIDE DEF w, d
<1>3. /\ r \in Seq(Events) /\ r[1] = e /\ w = 1 + (d - room)
      /\ \A i \in 2..w : i + (room - 1) \in 1..d /\ b[i + (room - 1)] = r[i]
  <2>1. /\ r \in Seq(Events) /\ r[1] = e /\ Len(r) = 1 + (Len(b) - room)
        /\ \A i \in 2..Len(r) : i + (room - 1) \in 1..Len(b) /\ b[i + (room - 1)] = r[i]
    <3>1. /\ b \in Seq(Events) /\ e \in Events /\ room \in Nat /\ room < Len(b)
          /\ r = <<e>> \o SubSeq(b, room + 1, Len(b))
      BY <1>0, <1>1
    <3> QED  BY <3>1, RestOfPacket
  <2> QED  BY <1>1, <2>1
<1>4. w \in Nat /\ w >= 2 /\ w \in 2..w /\ w + (room - 1) = d
  <2> DEFINE g == d - room
  <2>1. g \in Nat /\ g >= 1 /\ g + room = d
    BY <1>2
  <2>2. w = 1 + g
    BY <1>3
  <2> HIDE DEF g
  <2>3. w \in Nat /\ w >= 2 /\ w \in 2..w
    BY <2>1, <2>2
  <2>4. \A h, k \in Nat : (1 + h) + (k - 1) = h + k
    OBVIOUS
  <2>5. w + (room - 1) = d
    BY <1>2, <2>1, <2>2, <2>4
  <2> QED  BY <2>3, <2>5
<1>5. b[d] = r[w]
  <2>1. b[w + (room - 1)] = r[w]
    BY <1>3, <1>4
  <2> QED  BY <1>4, <2>1
<1>6. Truth(r) /\ AllTold(r) /\ \A l : Agrees(b, l) => Agrees(r, l)
  <2> DEFINE k == 2   g == room - 1
  <2>1. /\ k \in {1, 2} /\ k \in Nat \ {0} /\ (k = 2 => Len(r) >= 1 /\ r[1].code = "dropped")
        /\ g \in Int /\ Len(b) = Len(r) + g
    BY <1>0, <1>1, <1>2, <1>3, <1>4
  <2>2. \A i \in k..Len(r) : i + g \in 1..Len(b) /\ b[i + g] = r[i]
    BY <1>1, <1>3
  <2> HIDE DEF k, g
  <2>3. Inside(r, b, g, k)
    BY <1>1, <1>3, <2>1, <2>2 DEF Inside
  <2>4. Truth(b) => Truth(r)
    BY <2>1, <2>3, RestHolds
  <2>5. AllTold(b) => AllTold(r)
    BY <2>1, <2>3, RestHolds
  <2>6. \A l : Agrees(b, l) => Agrees(r, l)
    BY <2>1, <2>3, RestHolds
  <2> QED  BY <1>1, <2>4, <2>5, <2>6
<1>7. r # <<>> /\ Lost(r)
  <2>1. Len(r) # 0
    BY <1>1, <1>4
  <2>2. r # <<>>
    BY <2>1
  <2> QED  BY <1>0, <1>3, <2>2 DEF Lost
<1>8. r \in Queues /\ Ends(r)
  <2>1. ASSUME NEW i \in 1..w PROVE Fits(r[i])
    <3>1. i = 1 \/ i \in 2..w
      BY <1>4
    <3>2. \A j \in 1..d : Fits(b[j])
      BY <1>1 DEF Queues
    <3> QED  BY <1>0, <1>3, <3>1, <3>2
  <2>2. \A i \in 2..w : r[i].code # "dropped"
    BY <1>1, <1>3
  <2> QED  BY <1>1, <1>3, <1>5, <2>1, <2>2 DEF Queues, Ends
<1> QED  BY <1>1, <1>2, <1>3, <1>5, <1>6, <1>7, <1>8

(* A frame without room in the queue.                                      *)
LEMMA FrameCut ==
    ASSUME TouchInv, NEW b, NEW l, NEW change, PacketFacts(b, l, change), NEW room,
           room = QueueMax - Len(queue), ~(Len(b) <= room),
           queue' = T!Event("dropped", 0, l) \o SubSeq(b, room + 1, Len(b)), kslot' = l,
           finger' \in [T!Slots -> [down : BOOLEAN, place : T!Places]],
           \A s \in T!Slots : finger'[s].place = change[s].place,
           UNCHANGED <<slot, mt, told, truth, slotSure, sure, sound, trust>>
    PROVE  TouchInv'
<1> DEFINE r == queue'   e == [code |-> "dropped", value |-> 0, of |-> l]
<1>1. /\ ReportFacts(b, change, finger) /\ Len(b) <= 4 * (MaxSlot + 1) + 1 /\ l \in T!Slots
      /\ Agrees(b, l) /\ Len(b) \in Nat
  BY DEF PacketFacts, ReportFacts, Queues
<1>2. e \in Events /\ Fits(e) /\ e.code = "dropped"
  BY <1>1 DEF Events, Values, T!Codes, Fits
<1>3. r = <<e>> \o SubSeq(b, room + 1, Len(b))
  BY DEF T!Event
<1>4. room \in Nat /\ room < Len(b) /\ Len(b) < QueueMax /\ QueueMax \in Nat
  <2>1. MaxSlot \in Nat /\ QueueMax \in Nat /\ QueueMax > 4 * (MaxSlot + 1) + 1
    BY QueueAssumption
  <2>2. Len(queue) \in Nat /\ Len(queue) <= QueueMax
    BY DEF TouchInv, TouchTypes, Queues
  <2>3. room \in Nat
    BY <2>1, <2>2
  <2>4. room < Len(b)
    BY <1>1, <2>3
  <2>5. Len(b) < QueueMax
    BY <1>1, <2>1
  <2> QED  BY <2>1, <2>3, <2>4, <2>5
<1> HIDE DEF r, e
<1>5. /\ r \in Queues /\ r # <<>> /\ Lost(r) /\ Len(r) = 1 + (Len(b) - room)
      /\ Ends(r) /\ Truth(r) /\ AllTold(r) /\ r[Len(r)].value = change
      /\ \A h : Agrees(b, h) => Agrees(r, h)
  <2>1. ReportFacts(b, change, finger) /\ Cut(r, b, e, room)
    BY <1>1, <1>2, <1>3, <1>4 DEF Cut
  <2> QED  BY <2>1, CutHolds
<1>6. TouchTypes'
  <2>1. \A d, k, m \in Nat : k < d /\ d < m => 1 + (d - k) <= m
    OBVIOUS
  <2>2. Len(r) <= QueueMax
    BY <1>1, <1>4, <1>5, <2>1
  <2>3. queue' \in Queues /\ Len(queue') <= QueueMax /\ kslot' \in T!Slots
    BY <1>1, <1>5, <2>2 DEF r
  <2> QED  BY <2>3 DEF TouchInv, TouchTypes
<1>7. SlotInv'
  <2>1. Agrees(queue', kslot') /\ Lost(queue')
    BY <1>1, <1>5 DEF r
  <2> QED  BY <2>1 DEF SlotInv
<1>8. FirstInv'
  <2>1. Lost(queue')
    BY <1>5 DEF r
  <2> QED  BY <2>1 DEF FirstInv, Known
<1>9. RestInv'
  <2>1. \A s \in T!Slots : ~mt'[s].valid => mt'[s].id = -2
    BY DEF TouchInv, RestInv
  <2>2. \A s \in T!Slots : finger'[s].place = r[Len(r)].value[s].place
    BY <1>5
  <2>3. queue' # <<>> /\ \A s \in T!Slots : finger'[s].place = queue'[Len(queue')].value[s].place
    BY <1>5, <2>2 DEF r
  <2> QED  BY <2>1, <2>3 DEF RestInv
<1>10. T!KindsAreTrue' /\ T!PlacesAreTrue'
  BY DEF TouchInv, T!KindsAreTrue, T!PlacesAreTrue
<1>11. Ends(queue') /\ Truth(queue') /\ AllTold(queue')
  BY <1>5 DEF r
<1> QED  BY <1>6, <1>7, <1>8, <1>9, <1>10, <1>11 DEF TouchInv

(* A frame, with room or without.                                          *)
LEMMA FrameIsSent == TouchInv /\ T!Frame => TouchInv'
<1> SUFFICES ASSUME TouchInv, T!Frame PROVE TouchInv'
  OBVIOUS
<1>1. PICK change \in [T!Slots -> UNION {T!Changes(finger[s]) : s \in T!Slots}] :
         LET p      == T!Packet(change)
             packet == p.events \o T!Event("report", change, p.last)
             room   == QueueMax - Len(queue)
         IN  /\ \A s \in T!Slots : change[s] \in T!Changes(finger[s])
             /\ \E s \in T!Slots : change[s].what # "none"
             /\ queue' = IF Len(packet) <= room
                         THEN queue \o packet
                         ELSE T!Event("dropped", 0, p.last) \o SubSeq(packet, room + 1, Len(packet))
             /\ kslot' = p.last
             /\ finger' = [s \in T!Slots |->
                             [down  |-> \/ change[s].what \in {"press", "slide"}
                                        \/ change[s].what = "none" /\ finger[s].down,
                              place |-> change[s].place]]
  BY DEF T!Frame
<1>2. Can(change)
  <2>1. \A s \in T!Slots : change[s] \in T!Changes(finger[s])
    BY <1>1
  <2>2. \A s \in T!Slots : change[s] \in Deed
    BY <2>1 DEF T!Changes, Deed
  <2>3. change = [s \in T!Slots |-> change[s]]
    OBVIOUS
  <2> QED  BY <2>1, <2>2, <2>3 DEF Can
<1> DEFINE p == T!Packet(change)
           b == p.events \o T!Event("report", change, p.last)
           l == p.last
           room == QueueMax - Len(queue)
<1>3. PacketFacts(b, l, change)
  <2>1. TouchTypes
    BY DEF TouchInv
  <2> QED  BY <1>2, <2>1, PacketIsRight
<1>4. /\ queue' = IF Len(b) <= room THEN queue \o b
                  ELSE T!Event("dropped", 0, l) \o SubSeq(b, room + 1, Len(b))
      /\ kslot' = l
      /\ finger' = [s \in T!Slots |->
                      [down  |-> \/ change[s].what \in {"press", "slide"}
                                 \/ change[s].what = "none" /\ finger[s].down,
                       place |-> change[s].place]]
  BY <1>1
<1>5. room = QueueMax - Len(queue)
  OBVIOUS
<1>6. UNCHANGED <<slot, mt, told, truth, slotSure, sure, sound, trust>>
  BY DEF T!Frame, T!programVars, T!historyVars
<1> HIDE DEF p, b, l, room
<1>7. finger' \in [T!Slots -> [down : BOOLEAN, place : T!Places]]
  <2>1. ASSUME NEW s \in T!Slots PROVE change[s].place \in T!Places /\ finger[s].down \in BOOLEAN
    BY <1>2, <2>1 DEF Can, Deed, TouchInv, TouchTypes
  <2> QED  BY <1>4, <2>1
<1>8. \A s \in T!Slots : finger'[s].place = change[s].place
  BY <1>4
<1>9. CASE Len(b) <= room
  <2>1. queue' = queue \o b /\ Len(b) <= QueueMax - Len(queue)
    BY <1>4, <1>5, <1>9
  <2> QED  BY <1>3, <1>4, <1>6, <1>7, <1>8, <2>1, FrameAppended
<1>10. CASE ~(Len(b) <= room)
  <2>1. queue' = T!Event("dropped", 0, l) \o SubSeq(b, room + 1, Len(b))
    BY <1>4, <1>10
  <2> QED  BY <1>3, <1>4, <1>5, <1>6, <1>7, <1>8, <1>10, <2>1, FrameCut
<1> QED  BY <1>9, <1>10

(* The invariant of the tracker holds first.                               *)
LEMMA TouchFirst == T!Init => TouchInv
<1> SUFFICES ASSUME T!Init PROVE TouchInv
  OBVIOUS
<1>1. /\ finger \in [T!Slots -> [down : BOOLEAN, place : T!Places]] /\ kslot \in T!Slots
      /\ queue = <<>> /\ slot = 0 /\ slotSure = (kslot = 0) /\ sound = slotSure
      /\ mt = [s \in T!Slots |-> [place |-> T!Origin, id |-> -2, valid |-> FALSE]]
      /\ sure = [s \in T!Slots |-> {a \in {"x", "y"} : finger[s].place[a] = 0}]
      /\ trust = [kinds |-> FALSE, places |-> {}]
  BY DEF T!Init
<1>2. 0 \in T!Slots /\ 0 \in Xs /\ 0 \in Ys /\ QueueMax \in Nat
  BY QueueAssumption DEF T!Slots
<1>3. queue \in Seq(Events) /\ Len(queue) = 0
  BY <1>1
<1>4. T!Origin \in T!Places /\ T!Origin["x"] = 0 /\ T!Origin["y"] = 0
  BY <1>2 DEF T!Origin, T!Places
<1>5. queue \in Queues /\ Len(queue) <= QueueMax
  BY <1>2, <1>3 DEF Queues
<1>6. TouchTypes
  <2>1. mt \in [T!Slots -> [place : T!Places, id : {-2, -1, 0}, valid : BOOLEAN]]
    BY <1>1, <1>4
  <2>2. sure \in [T!Slots -> SUBSET Axes] /\ slotSure \in BOOLEAN /\ sound \in BOOLEAN
    BY <1>1 DEF Axes
  <2> QED  BY <1>1, <1>2, <1>5, <2>1, <2>2 DEF TouchTypes
<1>7. Ends(queue) /\ Truth(queue) /\ AllTold(queue) /\ FirstInv
  <2>1. (\A i \in 2..Len(queue) : FALSE) /\ (\A i \in 1..Len(queue) : FALSE)
    BY <1>3
  <2> QED  BY <1>1, <2>1 DEF Ends, Truth, AllTold, FirstInv
<1>8. SlotInv
  <2>1. ASSUME NEW i \in 1..Len(queue) + 1
        PROVE  About(queue, kslot, i) = kslot /\ \A j \in 1..i - 1 : FALSE
    <3>1. i = 1 /\ ~(i <= Len(queue))
      BY <1>3
    <3> QED  BY <3>1 DEF About
  <2>2. Agrees(queue, kslot)
    BY <2>1 DEF Agrees
  <2>3. slotSure => Starts(queue, kslot, slot)
    BY <1>1, <2>1 DEF Starts
  <2> QED  BY <2>2, <2>3 DEF SlotInv
<1>9. RestInv
  <2>1. ASSUME NEW s \in T!Slots
        PROVE  ~mt[s].valid /\ mt[s].id = -2 /\ mt[s].place = T!Origin
               /\ \A a \in sure[s] : a \in {"x", "y"} /\ finger[s].place[a] = 0
    BY <1>1
  <2>2. ASSUME NEW s \in T!Slots, NEW a \in sure[s] PROVE mt[s].place[a] = finger[s].place[a]
    BY <1>4, <2>1
  <2> QED  BY <1>1, <2>1, <2>2 DEF RestInv
<1>10. T!KindsAreTrue /\ T!PlacesAreTrue
  BY <1>1 DEF T!KindsAreTrue, T!PlacesAreTrue
<1> QED  BY <1>6, <1>7, <1>8, <1>9, <1>10 DEF TouchInv

(* It holds while the tracker rests.                                       *)
LEMMA TouchSame == TouchInv /\ UNCHANGED touchVars => TouchInv'
BY DEF TouchInv, TouchTypes, SlotInv, FirstInv, RestInv, T!KindsAreTrue, T!PlacesAreTrue, touchVars

(* Every step of the tracker preserves it.                                 *)
LEMMA TouchNext == TouchInv /\ T!Next => TouchInv'
<1> SUFFICES ASSUME TouchInv, T!Next PROVE TouchInv'
  OBVIOUS
<1>1. CASE T!Frame
  BY <1>1, FrameIsSent
<1>2. CASE T!ReadSlot
  BY <1>2, SlotIsRead
<1>3. CASE T!ReadId
  BY <1>3, IdIsRead
<1>4. CASE T!ReadPosition("x") \/ T!ReadPosition("y")
  BY <1>4, PositionIsRead DEF Axes
<1>5. CASE T!ReadSyn
  BY <1>5, SynIsRead
<1>6. CASE T!Stop \/ T!Ended
  <2>1. UNCHANGED <<finger, kslot, queue, slot, mt, told, truth, slotSure, sure, sound, trust>>
    BY <1>6 DEF T!Stop, T!Ended, T!vars, T!kernelVars, T!programVars, T!historyVars
  <2> QED  BY <2>1 DEF TouchInv, TouchTypes, SlotInv, FirstInv, RestInv, T!KindsAreTrue,
                       T!PlacesAreTrue
<1> QED  BY <1>1, <1>2, <1>3, <1>4, <1>5, <1>6 DEF T!Next, T!Read

(* A single touch is slot 0 of a multi-touch screen of which nothing else  *)
(* is heard: its events and st as those of slot 0.                         *)
Still == [what |-> "none", place |-> P!Origin]
Alone(c) == [s \in T!Slots |-> IF s = 0 THEN c ELSE Still]

AsSlot(e) ==
    [code  |-> IF e.code = "touch" THEN "id" ELSE e.code,
     value |-> CASE e.code = "touch"  -> e.value - 1
                 [] e.code = "report" -> Alone(e.value)
                 [] OTHER             -> e.value,
     of    |-> 0]

AsSlots(q) == [i \in 1..Len(q) |-> AsSlot(q[i])]

(* The events of the single touch; the value is one of the code.           *)
Codes1  == {"touch", "x", "y", "report", "dropped"}
Values1 == {0, 1} \cup Xs \cup Ys \cup Deed
Events1 == [code : Codes1, value : Values1]

Fits1(e) ==
    /\ e.code = "touch" => e.value \in {0, 1}
    /\ e.code = "x" => e.value \in Xs
    /\ e.code = "y" => e.value \in Ys
    /\ e.code = "report" => e.value \in Deed
    /\ e.code = "dropped" => e.value = 0

Queues1 == {q \in Seq(Events1) : \A i \in 1..Len(q) : Fits1(q[i])}

(* Slot 0 is a slot, and where nothing happens its place is a place.       *)
LEMMA SlotZero ==
    /\ 0 \in T!Slots /\ P!Places = T!Places /\ P!Origin \in T!Places /\ Still \in Deed
    /\ \A c \in Deed : /\ Alone(c) \in [T!Slots -> Deed] /\ Alone(c)[0] = c
                       /\ \A s \in T!Slots : s # 0 => Alone(c)[s] = Still
<1>1. 0 \in T!Slots /\ P!Places = T!Places /\ P!Origin \in T!Places
  BY QueueAssumption DEF T!Slots, P!Places, T!Places, P!Origin
<1>2. Still \in Deed
  BY <1>1 DEF Still, Deed, T!Whats
<1> QED  BY <1>1, <1>2 DEF Alone

(* An event of the single touch, as one of slot 0.                         *)
LEMMA OneAsSlot ==
    ASSUME NEW e \in Events1, Fits1(e)
    PROVE  /\ AsSlot(e) \in Events /\ Fits(AsSlot(e)) /\ AsSlot(e).of = 0
           /\ AsSlot(e).code = IF e.code = "touch" THEN "id" ELSE e.code
           /\ e.code = "touch" => AsSlot(e).value = e.value - 1 /\ e.value \in {0, 1}
           /\ e.code = "report" => AsSlot(e).value = Alone(e.value) /\ e.value \in Deed
           /\ e.code \in {"x", "y", "dropped"} => AsSlot(e).value = e.value
           /\ e.code \in Codes1
<1> DEFINE v == AsSlot(e).value   f == AsSlot(e)
<1>1. f = [code |-> f.code, value |-> v, of |-> 0] /\ f.of = 0
      /\ f.code = IF e.code = "touch" THEN "id" ELSE e.code
  BY DEF AsSlot
<1>2. e.code \in Codes1
  BY DEF Events1
<1>3. /\ e.code = "touch" => v = e.value - 1 /\ e.value \in {0, 1}
      /\ e.code = "report" => v = Alone(e.value) /\ e.value \in Deed
      /\ e.code \in {"x", "y", "dropped"} => v = e.value
  BY DEF AsSlot, Fits1
<1>4. /\ e.code = "touch" => v \in {-1, 0}
      /\ e.code = "report" => v \in [T!Slots -> Deed]
      /\ e.code = "x" => v \in Xs
      /\ e.code = "y" => v \in Ys
      /\ e.code = "dropped" => v = 0
  BY <1>3, SlotZero DEF Fits1
<1> HIDE DEF f, v
<1>5. v \in Values
  BY <1>2, <1>4 DEF Values, Codes1
<1>6. f.code \in T!Codes
  BY <1>1, <1>2 DEF Codes1, T!Codes
<1>7. f \in Events
  BY <1>1, <1>5, <1>6, SlotZero DEF Events
<1>8. f.value = v
  BY DEF f, v
<1>9. Fits(f)
  BY <1>1, <1>2, <1>4, <1>8 DEF Fits, Codes1
<1>10. f \in Events /\ Fits(f) /\ f.of = 0 /\ f.code = IF e.code = "touch" THEN "id" ELSE e.code
  BY <1>1, <1>7, <1>9
<1> QED  BY <1>2, <1>3, <1>10 DEF f, v

(* Two sequences with the same elements are the same.                      *)
LEMMA SameSeq ==
    ASSUME NEW E, NEW a \in Seq(E), NEW b \in Seq(E), Len(a) = Len(b),
           \A i \in 1..Len(a) : a[i] = b[i]
    PROVE  a = b
OBVIOUS

(* A queue of the single touch, as one of slot 0.                          *)
LEMMA AsSlotsFacts ==
    ASSUME NEW q \in Queues1
    PROVE  /\ q \in Seq(Events1) /\ AsSlots(q) \in Seq(Events) /\ AsSlots(q) \in Queues
           /\ Len(AsSlots(q)) = Len(q) /\ Len(q) \in Nat
           /\ \A i \in 1..Len(q) : AsSlots(q)[i] = AsSlot(q[i]) /\ q[i] \in Events1 /\ Fits1(q[i])
           /\ AsSlots(q) = <<>> <=> q = <<>>
<1> DEFINE w == AsSlots(q)   z == Len(q)
<1>1. q \in Seq(Events1) /\ z \in Nat /\ \A i \in 1..z : q[i] \in Events1 /\ Fits1(q[i])
  BY DEF Queues1
<1>2. \A i \in 1..z : AsSlot(q[i]) \in Events /\ Fits(AsSlot(q[i]))
  BY <1>1, OneAsSlot
<1>3. w = [i \in 1..z |-> AsSlot(q[i])]
  BY DEF AsSlots
<1> HIDE DEF w, z
<1>4. w \in Seq(Events) /\ Len(w) = z /\ \A i \in 1..z : w[i] = AsSlot(q[i])
  BY <1>1, <1>2, <1>3
<1>5. w \in Queues
  BY <1>2, <1>4 DEF Queues
<1>6. w = <<>> <=> Len(w) = 0
  BY <1>4
<1>7. q = <<>> <=> Len(q) = 0
  BY <1>1
<1> QED  BY <1>1, <1>4, <1>5, <1>6, <1>7 DEF w, z

(* So is what is left of it after a read,                                  *)
LEMMA AsSlotsTail ==
    ASSUME NEW q \in Queues1, q # <<>>
    PROVE  Tail(q) \in Queues1 /\ AsSlots(Tail(q)) = Tail(AsSlots(q)) /\ Head(q) = q[1]
<1> DEFINE w == AsSlots(q)   t == Tail(q)
<1>1. /\ q \in Seq(Events1) /\ w \in Seq(Events) /\ Len(w) = Len(q) /\ w # <<>>
      /\ \A i \in 1..Len(q) : w[i] = AsSlot(q[i]) /\ Fits1(q[i])
  BY AsSlotsFacts
<1> HIDE DEF w
<1>2. /\ t \in Seq(Events1) /\ Len(q) = Len(t) + 1 /\ Len(t) \in Nat
      /\ \A i \in 1..Len(t) : i + 1 \in 1..Len(q) /\ t[i] = q[i + 1]
  BY <1>1
<1>3. /\ Tail(w) \in Seq(Events) /\ Len(w) = Len(Tail(w)) + 1 /\ Len(Tail(w)) \in Nat
      /\ \A i \in 1..Len(Tail(w)) : Tail(w)[i] = w[i + 1]
  BY <1>1
<1> HIDE DEF t
<1>4. t \in Queues1
  BY <1>1, <1>2 DEF Queues1
<1>5. /\ AsSlots(t) \in Seq(Events) /\ Len(AsSlots(t)) = Len(t)
      /\ \A i \in 1..Len(t) : AsSlots(t)[i] = AsSlot(t[i])
  BY <1>4, AsSlotsFacts
<1>6. Len(Tail(w)) = Len(t)
  BY <1>1, <1>2, <1>3
<1>7. \A i \in 1..Len(t) : AsSlots(t)[i] = Tail(w)[i]
  BY <1>1, <1>2, <1>3, <1>5, <1>6
<1>8. AsSlots(t) = Tail(w)
  BY <1>3, <1>5, <1>6, <1>7, SameSeq
<1>9. Head(q) = q[1]
  BY <1>1
<1> QED  BY <1>4, <1>8, <1>9 DEF w, t

(* what is appended to it,                                                 *)
LEMMA AsSlotsJoin ==
    ASSUME NEW a \in Queues1, NEW b \in Queues1
    PROVE  a \o b \in Queues1 /\ AsSlots(a \o b) = AsSlots(a) \o AsSlots(b)
<1> DEFINE r == a \o b   m == Len(a)   d == Len(b)   v == AsSlots(a)   w == AsSlots(b)   z == Len(r)
           u == v \o w   k == Len(u)
<1>1. /\ a \in Seq(Events1) /\ v \in Seq(Events) /\ Len(v) = m
      /\ \A i \in 1..m : v[i] = AsSlot(a[i]) /\ Fits1(a[i])
  BY AsSlotsFacts
<1>2. /\ b \in Seq(Events1) /\ w \in Seq(Events) /\ Len(w) = d
      /\ \A i \in 1..d : w[i] = AsSlot(b[i]) /\ Fits1(b[i])
  BY AsSlotsFacts
<1>3. r = a \o b /\ m = Len(a) /\ d = Len(b) /\ z = Len(r) /\ u = v \o w /\ k = Len(u)
  OBVIOUS
<1> HIDE DEF r, m, d, v, w, z, u, k
<1>4. /\ r \in Seq(Events1) /\ z = m + d /\ m \in Nat /\ z \in Nat /\ d \in Nat
      /\ \A i \in 1..m : r[i] = a[i]
      /\ \A i \in m + 1..z : i - m \in 1..d /\ r[i] = b[i - m]
  <2>1. /\ r \in Seq(Events1) /\ z = m + Len(b) /\ m \in Nat /\ z \in Nat /\ Len(b) \in Nat
        /\ \A i \in 1..m : r[i] = a[i]
        /\ \A i \in m + 1..z : i - m \in 1..Len(b) /\ r[i] = b[i - m]
    BY <1>1, <1>2, <1>3, JoinFacts
  <2> QED  BY <1>3, <2>1
<1>5. /\ u \in Seq(Events) /\ k = m + d
      /\ \A i \in 1..m : u[i] = v[i]
      /\ \A i \in m + 1..k : i - m \in 1..d /\ u[i] = w[i - m]
  <2>1. v \in Seq(Events) /\ w \in Seq(Events) /\ u = v \o w /\ m = Len(v) /\ k = Len(u)
    BY <1>1, <1>2, <1>3
  <2>2. /\ u \in Seq(Events) /\ k = m + Len(w)
        /\ \A i \in 1..m : u[i] = v[i]
        /\ \A i \in m + 1..k : i - m \in 1..Len(w) /\ u[i] = w[i - m]
    BY <2>1, JoinFacts
  <2> QED  BY <1>2, <2>2
<1>6. ASSUME NEW i \in 1..z PROVE Fits1(r[i]) /\ AsSlot(r[i]) = u[i]
  <2>1. CASE i \in 1..m
    BY <1>1, <1>4, <1>5, <2>1
  <2>2. CASE i \notin 1..m
    <3>1. i \in m + 1..z /\ i \in m + 1..k
      BY <1>4, <1>5, <2>2
    <3> QED  BY <1>2, <1>4, <1>5, <3>1
  <2> QED  BY <2>1, <2>2
<1>7. r \in Queues1
  BY <1>3, <1>4, <1>6 DEF Queues1
<1>8. /\ AsSlots(r) \in Seq(Events) /\ Len(AsSlots(r)) = z
      /\ \A i \in 1..z : AsSlots(r)[i] = AsSlot(r[i])
  BY <1>3, <1>7, AsSlotsFacts
<1>9. AsSlots(r) = u
  <2>1. Len(u) = z
    BY <1>3, <1>4, <1>5
  <2>2. \A i \in 1..Len(u) : AsSlots(r)[i] = u[i]
    BY <1>6, <1>8, <2>1
  <2> QED  BY <1>5, <1>8, <2>1, <2>2, SameSeq
<1> QED  BY <1>7, <1>9 DEF r, u, v, w

(* a single event,                                                         *)
LEMMA AsSlotsOne ==
    ASSUME NEW e \in Events1, Fits1(e)
    PROVE  <<e>> \in Queues1 /\ AsSlots(<<e>>) = <<AsSlot(e)>>
<1> DEFINE q == <<e>>   f == AsSlot(e)
<1>1. q \in Seq(Events1) /\ Len(q) = 1 /\ q[1] = e
  OBVIOUS
<1>2. f \in Events
  BY OneAsSlot
<1> HIDE DEF q, f
<1>3. q \in Queues1
  BY <1>1 DEF Queues1
<1>4. AsSlots(q) \in Seq(Events) /\ Len(AsSlots(q)) = 1 /\ AsSlots(q)[1] = AsSlot(q[1])
  BY <1>1, <1>3, AsSlotsFacts
<1>5. AsSlots(q) = <<f>>
  BY <1>1, <1>2, <1>4 DEF f
<1> QED  BY <1>3, <1>5 DEF q, f

(* and what is left of it after a loss.                                    *)
LEMMA AsSlotsRest ==
    ASSUME NEW q \in Queues1, NEW room \in Nat, room < Len(q)
    PROVE  /\ SubSeq(q, room + 1, Len(q)) \in Queues1
           /\ AsSlots(SubSeq(q, room + 1, Len(q))) = SubSeq(AsSlots(q), room + 1, Len(q))
<1> DEFINE w == AsSlots(q)   d == Len(q)   t == SubSeq(q, room + 1, d)   u == SubSeq(w, room + 1, d)
<1>1. /\ q \in Seq(Events1) /\ w \in Seq(Events) /\ Len(w) = d /\ d \in Nat /\ room < d
      /\ \A i \in 1..d : w[i] = AsSlot(q[i]) /\ Fits1(q[i])
  BY AsSlotsFacts
<1>2. t \in Seq(Events1) /\ Len(t) = d - room /\ \A i \in 1..d - room : t[i] = q[i + room]
  BY <1>1
<1> HIDE DEF w, t
<1>3. u \in Seq(Events) /\ Len(u) = d - room /\ \A i \in 1..d - room : u[i] = w[i + room]
  BY <1>1
<1> HIDE DEF d, u
<1>4. \A i \in 1..d - room : i + room \in 1..d
  BY <1>1
<1>5. t \in Queues1
  BY <1>1, <1>2, <1>4 DEF Queues1
<1>6. /\ AsSlots(t) \in Seq(Events) /\ Len(AsSlots(t)) = Len(t)
      /\ \A i \in 1..Len(t) : AsSlots(t)[i] = AsSlot(t[i])
  BY <1>5, AsSlotsFacts
<1>7. \A i \in 1..d - room : AsSlots(t)[i] = u[i]
  BY <1>1, <1>2, <1>3, <1>4, <1>6
<1>8. AsSlots(t) = u
  BY <1>2, <1>3, <1>6, <1>7, SameSeq
<1> QED  BY <1>5, <1>8 DEF w, t, u, d

(* The queue, and st, as those of slot 0.                                  *)
Heard == AsSlots(queue1)

StAsMt ==
    [place |-> st.place, id |-> IF st.down = -1 THEN -2 ELSE st.down - 1, valid |-> st.valid]

(* The invariant of the single touch: that of slot 0 of the tracker,       *)
(* without the slots.                                                      *)
SingleTypes ==
    /\ finger1 \in [down : BOOLEAN, place : T!Places]
    /\ queue1 \in Queues1 /\ Len(queue1) <= QueueMax1
    /\ st \in [place : T!Places, down : {-1, 0, 1}, valid : BOOLEAN]
    /\ sure1 \in SUBSET Axes /\ whole \in BOOLEAN

SingleFirst ==
    \A p \in 1..Len(Heard) : FirstReport(Heard, p) =>
        Known(Heard, p, 0, Heard[p].value[0], StAsMt, sure1, whole)

SingleRest ==
    /\ ~st.valid => st.down = -1
    /\ queue1 = <<>> => ~st.valid /\ \A a \in sure1 : st.place[a] = finger1.place[a]
    /\ queue1 # <<>> => finger1.place = queue1[Len(queue1)].value.place

SingleInv == /\ SingleTypes /\ Ends(Heard) /\ Truth(Heard) /\ AllTold(Heard)
             /\ SingleFirst /\ SingleRest /\ P!ToldAsItWas

(* What a read takes from the queue.                                       *)
Taken1 == queue1 # <<>> /\ queue1' = Tail(queue1) /\ UNCHANGED finger1

(* The queue after a read.                                                 *)
LEMMA Taken1Holds ==
    ASSUME SingleInv, Taken1
    PROVE  /\ queue1' \in Queues1 /\ Len(queue1') <= QueueMax1
           /\ Heard' = Tail(Heard) /\ Heard # <<>> /\ Heard \in Queues /\ Heard \in Seq(Events)
           /\ Ends(Heard') /\ Truth(Heard') /\ AllTold(Heard') /\ ~Lost(Heard')
           /\ Heard[1] = AsSlot(Head(queue1)) /\ Head(queue1) = queue1[1] /\ 1 \in 1..Len(Heard)
           /\ Head(queue1) \in Events1 /\ Fits1(Head(queue1))
           /\ Heard[1].code # "report" => queue1' # <<>>
           /\ queue1' # <<>> => queue1'[Len(queue1')] = queue1[Len(queue1)]
           /\ queue1' = <<>> => Len(queue1) = 1
<1> DEFINE r == Heard   q == Heard'   t == queue1'
<1>1. /\ queue1 \in Queues1 /\ queue1 # <<>> /\ t = Tail(queue1) /\ Len(queue1) <= QueueMax1
      /\ Ends(r) /\ Truth(r) /\ AllTold(r)
  BY DEF SingleInv, SingleTypes, Taken1
<1>2. r = AsSlots(queue1) /\ q = AsSlots(t)
  BY DEF Heard
<1> HIDE DEF r, q, t
<1>3. t \in Queues1 /\ q = Tail(r) /\ Head(queue1) = queue1[1]
  BY <1>1, <1>2, AsSlotsTail
<1>4. /\ queue1 \in Seq(Events1) /\ r \in Seq(Events) /\ r \in Queues /\ r # <<>>
      /\ Len(r) = Len(queue1) /\ Len(queue1) \in Nat
      /\ \A i \in 1..Len(queue1) :
             r[i] = AsSlot(queue1[i]) /\ queue1[i] \in Events1 /\ Fits1(queue1[i])
  BY <1>1, <1>2, AsSlotsFacts
<1>5. Len(q) = Len(t) /\ (q = <<>> <=> t = <<>>)
  BY <1>2, <1>3, AsSlotsFacts
<1>6. /\ Len(q) <= Len(r) /\ Ends(q) /\ ~Lost(q) /\ Truth(q) /\ AllTold(q)
      /\ r[1].code # "report" => q # <<>>
      /\ q = <<>> => Len(r) = 1
      /\ 1 \in 1..Len(r)
  BY <1>1, <1>3, <1>4, TailHolds
<1>7. Len(t) <= QueueMax1
  <2>1. QueueMax1 \in Nat
    BY QueueAssumption
  <2>2. Len(q) \in Nat
    BY <1>3, <1>4
  <2> QED  BY <1>1, <1>4, <1>5, <1>6, <2>1, <2>2
<1>8. ASSUME t # <<>> PROVE t[Len(t)] = queue1[Len(queue1)]
  <2>1. t = Tail(queue1) /\ queue1 \in Seq(Events1) /\ queue1 # <<>>
    BY <1>1, <1>4
  <2> QED  BY <1>8, <2>1
<1>9. r[1] = AsSlot(queue1[1]) /\ queue1[1] \in Events1 /\ Fits1(queue1[1])
  BY <1>4, <1>6
<1> QED  BY <1>3, <1>4, <1>5, <1>6, <1>7, <1>8, <1>9 DEF r, q, t

(* The first report after a read that was of none.                         *)
LEMMA Report1Now ==
    ASSUME SingleInv, Taken1, Heard[1].code # "report", NEW p, FirstReport(Heard', p)
    PROVE  /\ Says(Heard[1], Heard'[p].value[0])
           /\ Known(Heard, p + 1, 0, Heard'[p].value[0], StAsMt, sure1, whole)
           /\ \A codes : Tells(Heard, p + 1, 0, codes) /\ Heard[1].code \notin codes
                         => Tells(Heard', p, 0, codes)
<1> DEFINE r == Heard   q == Heard'
<1>1. ReadFrom(r, q) /\ FirstReport(q, p)
  BY Taken1Holds DEF ReadFrom
<1>2. r[1].of = 0
  BY Taken1Holds, OneAsSlot
<1> HIDE DEF r, q
<1>3. /\ p \in 1..Len(q) /\ p + 1 \in 1..Len(r) /\ r[p + 1] = q[p]
      /\ r[1].code # "report" => FirstReport(r, p + 1) /\ Part(r, 1, p + 1)
  BY <1>1, TailFirst
<1>4. FirstReport(r, p + 1) /\ Part(r, 1, p + 1) /\ 1 \in 1..(p + 1) - 1
  BY <1>3 DEF r, Part
<1>5. Says(r[1], r[p + 1].value[r[1].of])
  BY <1>3, <1>4 DEF SingleInv, Truth, r
<1>6. Known(r, p + 1, 0, r[p + 1].value[0], StAsMt, sure1, whole)
  BY <1>3, <1>4 DEF SingleInv, SingleFirst, r
<1>7. ASSUME NEW codes, Tells(r, p + 1, 0, codes), r[1].code \notin codes
      PROVE  Tells(q, p, 0, codes)
  BY <1>1, <1>3, <1>7, TailTells
<1> QED  BY <1>2, <1>3, <1>5, <1>6, <1>7 DEF r, q

(* The rest of the invariant when anything but a report has been read.     *)
LEMMA Finger1Rests ==
    ASSUME SingleInv, Taken1, Heard[1].code # "report", ~st'.valid => st'.down = -1
    PROVE  SingleRest'
<1>1. queue1' # <<>> /\ queue1'[Len(queue1')] = queue1[Len(queue1)]
  BY Taken1Holds
<1>2. queue1 # <<>> /\ finger1' = finger1
  BY DEF Taken1
<1>3. finger1.place = queue1[Len(queue1)].value.place
  BY <1>2 DEF SingleInv, SingleRest
<1> QED  BY <1>1, <1>2, <1>3 DEF SingleRest

(* One lemma per read: ReadTouch, ReadPosition, ReadDropped and            *)
(* ReadReport.                                                             *)
LEMMA TouchIsRead == SingleInv /\ P!ReadTouch => SingleInv'
<1> SUFFICES ASSUME SingleInv, P!ReadTouch PROVE SingleInv'
  OBVIOUS
<1> DEFINE h == Head(queue1)
<1>1. /\ Taken1 /\ h.code = "touch" /\ st' = [st EXCEPT !.down = h.value, !.valid = TRUE]
      /\ finger1' = finger1 /\ told1' = told1 /\ truth1' = truth1 /\ sure1' = sure1
      /\ whole' = whole /\ trust1' = trust1
  BY DEF P!ReadTouch, P!Reads, Taken1
<1>2. /\ queue1' \in Queues1 /\ Len(queue1') <= QueueMax1
      /\ Ends(Heard') /\ Truth(Heard') /\ AllTold(Heard') /\ ~Lost(Heard')
      /\ Heard[1] = AsSlot(h) /\ h \in Events1 /\ Fits1(h)
  BY <1>1, Taken1Holds
<1> HIDE DEF h
<1>3. Heard[1].code = "id" /\ Heard[1].value = h.value - 1 /\ h.value \in {0, 1}
  BY <1>1, <1>2, OneAsSlot
<1>4. /\ finger1 \in [down : BOOLEAN, place : T!Places]
      /\ st \in [place : T!Places, down : {-1, 0, 1}, valid : BOOLEAN]
      /\ sure1 \in SUBSET Axes /\ whole \in BOOLEAN
  BY DEF SingleInv, SingleTypes
<1>5. /\ st'.valid = TRUE /\ st'.down = h.value /\ st'.place = st.place
      /\ st' \in [place : T!Places, down : {-1, 0, 1}, valid : BOOLEAN]
  BY <1>1, <1>3, <1>4
<1>6. SingleTypes'
  BY <1>1, <1>2, <1>4, <1>5 DEF SingleTypes
<1>7. SingleRest'
  BY <1>1, <1>3, <1>5, Finger1Rests
<1>8. SingleFirst'
  <2> SUFFICES ASSUME NEW p, FirstReport(Heard', p)
               PROVE  Known(Heard', p, 0, Heard'[p].value[0], StAsMt', sure1, whole)
    BY <1>1 DEF SingleFirst
  <2> DEFINE c == Heard'[p].value[0]   m == StAsMt'
  <2>1. /\ Says(Heard[1], c) /\ Known(Heard, p + 1, 0, c, StAsMt, sure1, whole)
        /\ \A codes : Tells(Heard, p + 1, 0, codes) /\ Heard[1].code \notin codes
                      => Tells(Heard', p, 0, codes)
    BY <1>1, <1>3, Report1Now
  <2>2. m.place = StAsMt.place /\ m.valid = TRUE /\ m.id = h.value - 1
    BY <1>3, <1>5 DEF StAsMt
  <2> HIDE DEF c, m
  <2>3. c.what # "none" /\ m.id = IdOf(c.what) /\ m.id # -2
    BY <1>3, <2>1, <2>2 DEF Says, Moves
  <2>4. ASSUME NEW a \in sure1 PROVE m.place[a] = c.place[a] \/ Tells(Heard', p, 0, {a})
    <3>1. ~Lost(Heard) /\ Heard[1].code \notin {a}
      BY <1>3, <1>4 DEF Lost, Axes
    <3> QED  BY <2>1, <2>2, <3>1 DEF Known
  <2>5. Known(Heard', p, 0, c, m, sure1, whole)
    BY <2>2, <2>3, <2>4 DEF Known
  <2> QED  BY <2>5 DEF c, m
<1>9. P!ToldAsItWas'
  BY <1>1 DEF SingleInv, P!ToldAsItWas
<1> QED  BY <1>2, <1>6, <1>7, <1>8, <1>9 DEF SingleInv

(* A coordinate is read.                                                   *)
LEMMA Position1IsRead == \A a \in Axes : SingleInv /\ P!ReadPosition(a) => SingleInv'
<1> SUFFICES ASSUME NEW a \in Axes, SingleInv, P!ReadPosition(a) PROVE SingleInv'
  OBVIOUS
<1> DEFINE h == Head(queue1)   v == h.value
<1>1. /\ Taken1 /\ h.code = a /\ st' = [st EXCEPT !.place[a] = v, !.valid = TRUE]
      /\ sure1' = sure1 \cup {a}
      /\ finger1' = finger1 /\ told1' = told1 /\ truth1' = truth1 /\ whole' = whole
      /\ trust1' = trust1
  BY DEF P!ReadPosition, P!Reads, Taken1
<1>2. /\ queue1' \in Queues1 /\ Len(queue1') <= QueueMax1
      /\ Ends(Heard') /\ Truth(Heard') /\ AllTold(Heard') /\ ~Lost(Heard')
      /\ Heard[1] = AsSlot(h) /\ h \in Events1 /\ Fits1(h)
  BY <1>1, Taken1Holds
<1>3. /\ Heard[1].code = a /\ Heard[1].value = v
      /\ a = "x" => v \in Xs
      /\ a = "y" => v \in Ys
  <2>1. h.code \in {"x", "y"}
    BY <1>1 DEF Axes
  <2> QED  BY <1>1, <1>2, <2>1, OneAsSlot DEF Fits1
<1> HIDE DEF h, v
<1>4. /\ finger1 \in [down : BOOLEAN, place : T!Places]
      /\ st \in [place : T!Places, down : {-1, 0, 1}, valid : BOOLEAN]
      /\ sure1 \in SUBSET Axes /\ whole \in BOOLEAN
  BY DEF SingleInv, SingleTypes
<1>5. /\ st'.valid = TRUE /\ st'.down = st.down /\ st'.place = [st.place EXCEPT ![a] = v]
      /\ st' \in [place : T!Places, down : {-1, 0, 1}, valid : BOOLEAN]
  <2>1. st'.valid = TRUE /\ st'.down = st.down /\ st'.place = [st.place EXCEPT ![a] = v]
    BY <1>1, <1>4
  <2>2. [st.place EXCEPT ![a] = v] \in T!Places
    <3>1. st.place \in T!Places
      BY <1>4
    <3>2. CASE a = "x"
      BY <1>3, <3>1, <3>2 DEF T!Places
    <3>3. CASE a = "y"
      BY <1>3, <3>1, <3>3 DEF T!Places
    <3> QED  BY <3>2, <3>3 DEF Axes
  <2>3. st' = [place |-> st'.place, down |-> st'.down, valid |-> st'.valid]
    BY <1>1, <1>4
  <2> QED  BY <1>4, <2>1, <2>2, <2>3
<1>6. SingleTypes'
  BY <1>1, <1>2, <1>4, <1>5 DEF SingleTypes
<1>7. SingleRest'
  <2>1. Heard[1].code # "report"
    BY <1>3 DEF Axes
  <2> QED  BY <1>1, <1>5, <2>1, Finger1Rests
<1>8. SingleFirst'
  <2> SUFFICES ASSUME NEW p, FirstReport(Heard', p)
               PROVE  Known(Heard', p, 0, Heard'[p].value[0], StAsMt', sure1', whole)
    BY <1>1 DEF SingleFirst
  <2> DEFINE c == Heard'[p].value[0]   m == StAsMt'   m0 == StAsMt
  <2>0. Heard[1].code # "report" /\ Heard[1].code # "dropped" /\ Heard[1].code # "id"
    BY <1>3 DEF Axes
  <2>1. /\ Says(Heard[1], c) /\ Known(Heard, p + 1, 0, c, m0, sure1, whole)
        /\ \A codes : Tells(Heard, p + 1, 0, codes) /\ Heard[1].code \notin codes
                      => Tells(Heard', p, 0, codes)
    BY <1>1, <2>0, Report1Now
  <2>2. /\ m.place = [st.place EXCEPT ![a] = v] /\ m.valid = TRUE
        /\ m.id = m0.id /\ m0.place = st.place
    BY <1>5 DEF StAsMt
  <2> HIDE DEF c, m, m0
  <2>3. c.what # "none" /\ c.place[a] = v /\ ~Lost(Heard)
    BY <1>3, <2>0, <2>1 DEF Says, Moves, Lost, Axes
  <2>4. ASSUME NEW x \in sure1' PROVE m.place[x] = c.place[x] \/ Tells(Heard', p, 0, {x})
    <3>1. x \in Axes /\ (x = a \/ x \in sure1) /\ st.place \in T!Places
      BY <1>1, <1>4
    <3>2. x \in DOMAIN st.place
      BY <3>1 DEF T!Places, Axes
    <3>3. CASE x = a
      BY <2>2, <2>3, <3>2, <3>3
    <3>4. CASE x # a
      <4>1. m.place[x] = m0.place[x] /\ Heard[1].code \notin {x}
        BY <1>3, <2>2, <3>2, <3>4
      <4>2. m0.place[x] = c.place[x] \/ Tells(Heard, p + 1, 0, {x})
        BY <2>1, <2>3, <3>1, <3>4 DEF Known
      <4> QED  BY <2>1, <4>1, <4>2
    <3> QED  BY <3>3, <3>4
  <2>5. Heard[1].code \notin {"id"}
    BY <2>0
  <2>6. whole => /\ m.id \in {-2, IdOf(c.what)}
                 /\ c.what \in {"press", "release"} /\ m.id = -2 => Tells(Heard', p, 0, {"id"})
    BY <2>1, <2>2, <2>3, <2>5 DEF Known
  <2>7. Known(Heard', p, 0, c, m, sure1', whole)
    BY <2>2, <2>3, <2>4, <2>6 DEF Known
  <2> QED  BY <2>7 DEF c, m
<1>9. P!ToldAsItWas'
  BY <1>1 DEF SingleInv, P!ToldAsItWas
<1> QED  BY <1>2, <1>6, <1>7, <1>8, <1>9 DEF SingleInv

(* A loss is read.                                                         *)
LEMMA LossIsRead == SingleInv /\ P!ReadDropped => SingleInv'
<1> SUFFICES ASSUME SingleInv, P!ReadDropped PROVE SingleInv'
  OBVIOUS
<1> DEFINE h == Head(queue1)
<1>1. /\ Taken1 /\ h.code = "dropped" /\ st' = st /\ sure1' = {} /\ whole' = FALSE
      /\ finger1' = finger1 /\ told1' = told1 /\ truth1' = truth1 /\ trust1' = trust1
  BY DEF P!ReadDropped, P!Reads, Taken1
<1>2. /\ queue1' \in Queues1 /\ Len(queue1') <= QueueMax1
      /\ Ends(Heard') /\ Truth(Heard') /\ AllTold(Heard')
      /\ Heard[1] = AsSlot(h) /\ h \in Events1 /\ Fits1(h)
  BY <1>1, Taken1Holds
<1> HIDE DEF h
<1>3. Heard[1].code # "report"
  BY <1>1, <1>2, OneAsSlot
<1>4. SingleTypes'
  BY <1>1, <1>2 DEF SingleInv, SingleTypes
<1>5. SingleRest'
  BY <1>1, <1>3, Finger1Rests DEF SingleInv, SingleRest
<1>6. SingleFirst'
  BY <1>1 DEF SingleFirst, Known
<1>7. P!ToldAsItWas'
  BY <1>1 DEF SingleInv, P!ToldAsItWas
<1> QED  BY <1>2, <1>4, <1>5, <1>6, <1>7 DEF SingleInv

(* A report is read: what it tells is true.                                *)
LEMMA ReportIsRead == SingleInv /\ P!ReadReport => SingleInv'
<1> SUFFICES ASSUME SingleInv, P!ReadReport PROVE SingleInv'
  OBVIOUS
<1> DEFINE h == Head(queue1)   c0 == h.value
<1>1. /\ Taken1 /\ h.code = "report"
      /\ told1' = IF ~st.valid THEN P!None
                  ELSE [what  |-> CASE st.down = 1 -> "press"
                                    [] st.down = 0 -> "release"
                                    [] st.down = -1 -> "slide",
                        place |-> st.place]
      /\ st' = IF st.valid THEN [st EXCEPT !.valid = FALSE, !.down = -1] ELSE st
      /\ truth1' = c0 /\ trust1' = [whole |-> whole, sure |-> sure1] /\ whole' = TRUE
      /\ finger1' = finger1 /\ sure1' = sure1
  BY DEF P!ReadReport, P!Reads, Taken1
<1>2. /\ queue1' \in Queues1 /\ Len(queue1') <= QueueMax1
      /\ Heard' = Tail(Heard) /\ Heard # <<>> /\ Heard \in Seq(Events)
      /\ Ends(Heard') /\ Truth(Heard') /\ AllTold(Heard') /\ ~Lost(Heard')
      /\ Heard[1] = AsSlot(h) /\ 1 \in 1..Len(Heard) /\ h = queue1[1] /\ h \in Events1 /\ Fits1(h)
      /\ queue1' # <<>> => queue1'[Len(queue1')] = queue1[Len(queue1)]
      /\ queue1' = <<>> => Len(queue1) = 1
  BY <1>1, Taken1Holds
<1>3. Heard[1].code = "report" /\ Heard[1].value[0] = c0 /\ c0 \in Deed
  <2>1. h \in Events1 /\ Fits1(h) /\ h.code = "report"
    BY <1>1, <1>2
  <2>2. AsSlot(h).code = "report" /\ AsSlot(h).value = Alone(h.value) /\ h.value \in Deed
    BY <2>1, OneAsSlot
  <2>3. Alone(h.value)[0] = h.value
    BY <2>2, SlotZero
  <2> QED  BY <1>2, <2>2, <2>3
<1> HIDE DEF h, c0
<1>4. /\ finger1 \in [down : BOOLEAN, place : T!Places]
      /\ st \in [place : T!Places, down : {-1, 0, 1}, valid : BOOLEAN]
      /\ sure1 \in SUBSET Axes /\ whole \in BOOLEAN
      /\ ~st.valid => st.down = -1
  BY DEF SingleInv, SingleTypes, SingleRest
<1>5. /\ st'.valid = FALSE /\ st'.down = -1 /\ st'.place = st.place
      /\ st' \in [place : T!Places, down : {-1, 0, 1}, valid : BOOLEAN]
  <2>1. CASE st.valid = TRUE
    BY <1>1, <1>4, <2>1
  <2>2. CASE st.valid = FALSE
    BY <1>1, <1>4, <2>2
  <2> QED  BY <1>4, <2>1, <2>2
<1>6. SingleTypes'
  BY <1>1, <1>2, <1>4, <1>5 DEF SingleTypes
<1>7. /\ whole => /\ StAsMt.id \in {-2, IdOf(c0.what)}
                  /\ c0.what \in {"press", "release"} => StAsMt.id # -2
                  /\ c0.what = "slide" => st.valid
                  /\ c0.what = "none" => ~st.valid
      /\ \A a \in sure1 : st.place[a] = c0.place[a]
  <2>1. FirstReport(Heard, 1)
    BY <1>2, <1>3 DEF FirstReport
  <2>2. \A codes : ~Tells(Heard, 1, 0, codes)
    BY DEF Tells
  <2>3. ~Lost(Heard)
    BY <1>3 DEF Lost
  <2>4. Known(Heard, 1, 0, c0, StAsMt, sure1, whole)
    BY <1>2, <1>3, <2>1 DEF SingleInv, SingleFirst
  <2>5. StAsMt.place = st.place /\ StAsMt.valid = st.valid
    BY DEF StAsMt
  <2> QED  BY <2>2, <2>3, <2>4, <2>5 DEF Known
<1>8. SingleRest'
  <2>1. ASSUME queue1' = <<>> PROVE ~st'.valid /\ \A a \in sure1' : st'.place[a] = finger1'.place[a]
    <3>1. finger1.place = c0.place
      <4>1. queue1 # <<>> /\ queue1[Len(queue1)] = h
        BY <1>1, <1>2, <2>1 DEF Taken1
      <4> QED  BY <4>1 DEF SingleInv, SingleRest, c0
    <3> QED  BY <1>1, <1>5, <1>7, <3>1
  <2>2. ASSUME queue1' # <<>> PROVE finger1'.place = queue1'[Len(queue1')].value.place
    BY <1>1, <1>2, <2>2 DEF SingleInv, SingleRest, Taken1
  <2> QED  BY <1>5, <2>1, <2>2 DEF SingleRest
<1>9. SingleFirst'
  <2> SUFFICES ASSUME NEW p, FirstReport(Heard', p)
               PROVE  Known(Heard', p, 0, Heard'[p].value[0], StAsMt', sure1, TRUE)
    BY <1>1 DEF SingleFirst
  <2> DEFINE c == Heard'[p].value[0]   m == StAsMt'   r == Heard   q == Heard'
  <2>1. m.place = st.place /\ m.valid = FALSE /\ m.id = -2
    BY <1>5 DEF StAsMt
  <2>2. ReadFrom(r, q) /\ FirstReport(q, p)
    BY <1>2 DEF ReadFrom
  <2>3. r[1].code = "report" /\ r[1].value[0] = c0
    BY <1>3
  <2>4. c = q[p].value[0]
    OBVIOUS
  <2> HIDE DEF c, m, r, q
  <2>5. p \in 1..Len(q) /\ p + 1 \in 1..Len(r) /\ r[p + 1] = q[p]
    BY <2>2, TailFirst
  <2>6. NextReport(r, 1, p + 1)
    BY <2>2, <2>3, TailFirst
  <2>7. Told(r, p + 1, 0, c, c0.place)
    <3>1. 1 \in 1..(p + 1) - 1
      BY <2>6 DEF NextReport
    <3>2. Told(r, p + 1, 0, r[p + 1].value[0], r[1].value[0].place)
      BY <2>5, <2>6, <3>1, SlotZero DEF SingleInv, AllTold, r
    <3> QED  BY <2>3, <2>4, <2>5, <3>2
  <2>8. ASSUME NEW codes, Tells(r, p + 1, 0, codes) PROVE Tells(q, p, 0, codes)
    BY <2>2, <2>3, <2>5, <2>8, TailTells
  <2>9. Told(q, p, 0, c, c0.place)
    BY <2>7, <2>8 DEF Told
  <2>10. ASSUME NEW a \in sure1 PROVE m.place[a] = c.place[a] \/ Tells(q, p, 0, {a})
    <3>1. m.place[a] = c0.place[a] /\ a \in Axes
      BY <1>4, <1>7, <2>1
    <3> QED  BY <2>9, <3>1 DEF Told
  <2>11. Known(q, p, 0, c, m, sure1, TRUE)
    BY <2>1, <2>9, <2>10 DEF Known, Told
  <2> QED  BY <2>11 DEF c, m, q
<1>10. P!ToldAsItWas'
  <2>1. c0.what \in T!Whats /\ c0.place \in T!Places
    BY <1>3 DEF Deed
  <2>2. ASSUME whole = TRUE PROVE told1'.what = c0.what
    <3>1. CASE st.valid = FALSE
      <4>1. told1'.what = "none" /\ st.down = -1
        BY <1>1, <1>4, <3>1 DEF P!None
      <4>2. StAsMt.id = -2
        BY <4>1 DEF StAsMt
      <4> QED  BY <1>7, <2>1, <2>2, <3>1, <4>1, <4>2 DEF T!Whats
    <3>2. CASE st.valid = TRUE
      <4>1. told1'.what =
              CASE st.down = 1 -> "press" [] st.down = 0 -> "release" [] st.down = -1 -> "slide"
        BY <1>1, <3>2
      <4>2. StAsMt.id = IF st.down = -1 THEN -2 ELSE st.down - 1
        BY DEF StAsMt
      <4>3. st.down \in {-1, 0, 1}
        BY <1>4
      <4>4. c0.what # "none"
        BY <1>7, <2>2, <3>2
      <4>5. CASE st.down = -1
        <5>1. StAsMt.id = -2 /\ told1'.what = "slide"
          BY <4>1, <4>2, <4>5
        <5> QED  BY <1>7, <2>1, <2>2, <4>4, <5>1 DEF T!Whats
      <4>6. CASE st.down = 0
        <5>1. StAsMt.id = -1 /\ told1'.what = "release"
          BY <4>1, <4>2, <4>6
        <5> QED  BY <1>7, <2>1, <2>2, <5>1 DEF T!Whats, IdOf
      <4>7. CASE st.down = 1
        <5>1. StAsMt.id = 0 /\ told1'.what = "press"
          BY <4>1, <4>2, <4>7
        <5> QED  BY <1>7, <2>1, <2>2, <5>1 DEF T!Whats, IdOf
      <4> QED  BY <4>3, <4>5, <4>6, <4>7
    <3> QED  BY <1>4, <3>1, <3>2
  <2>3. ASSUME sure1 = {"x", "y"}, told1'.what \in {"press", "slide"} PROVE told1'.place = c0.place
    <3>1. st.valid = TRUE
      BY <1>1, <1>4, <2>3 DEF P!None
    <3>2. told1'.place = st.place /\ st.place \in T!Places
      BY <1>1, <1>4, <3>1
    <3>3. \A f, g \in T!Places : f["x"] = g["x"] /\ f["y"] = g["y"] => f = g
      BY DEF T!Places
    <3>4. st.place["x"] = c0.place["x"] /\ st.place["y"] = c0.place["y"]
      BY <1>7, <2>3
    <3> QED  BY <2>1, <3>2, <3>3, <3>4
  <2>4. trust1'.whole = whole /\ trust1'.sure = sure1 /\ truth1' = c0
    BY <1>1
  <2> QED  BY <1>4, <2>2, <2>3, <2>4 DEF P!ToldAsItWas
<1> QED  BY <1>2, <1>6, <1>8, <1>9, <1>10 DEF SingleInv

(* A part of a packet of one touch, as a part of a packet of slot 0.       *)
IsPart1(part, code, needed, c) ==
    part \in Queues1 /\ IsPart(AsSlots(part), code, needed, 0, c)

(* An empty part, and one of one event.                                    *)
LEMMA NoPart == ASSUME NEW code, NEW c PROVE IsPart1(<<>>, code, FALSE, c)
<1> DEFINE q == <<>>
<1>1. q \in Seq(Events1) /\ Len(q) = 0
  OBVIOUS
<1> HIDE DEF q
<1>2. q \in Queues1
  BY <1>1 DEF Queues1
<1>3. AsSlots(q) \in Seq(Events) /\ Len(AsSlots(q)) = 0
  BY <1>1, <1>2, AsSlotsFacts
<1>4. IsPart1(q, code, FALSE, c)
  BY <1>2, <1>3 DEF IsPart1, IsPart
<1> QED  BY <1>4 DEF q

(* A part of one event.                                                    *)
LEMMA OnePart ==
    ASSUME NEW code, NEW c, NEW e \in Events1, Fits1(e),
           AsSlot(e).code = code, Added(AsSlot(e), 0, c)
    PROVE  IsPart1(<<e>>, code, TRUE, c)
<1> DEFINE f == AsSlot(e)   q == <<f>>
<1>1. <<e>> \in Queues1 /\ AsSlots(<<e>>) = q
  BY AsSlotsOne
<1>2. f \in Events
  BY OneAsSlot
<1>3. q \in Seq(Events) /\ Len(q) = 1 /\ q[1] = f
  BY <1>2
<1> HIDE DEF q
<1>4. \A i \in 1..Len(q) : q[i].code = code /\ Added(q[i], 0, c)
  BY <1>3
<1> QED  BY <1>1, <1>3, <1>4 DEF IsPart1, IsPart

(* The touch event, sent for a press and a release.                        *)
LEMMA Touch1Part ==
    ASSUME NEW c \in Deed, NEW part,
           part = CASE c.what = "press" -> P!Event("touch", 1)
                    [] c.what = "release" -> P!Event("touch", 0)
                    [] OTHER -> <<>>
    PROVE  IsPart1(part, "id", c.what \in {"press", "release"}, c)
<1>1. ASSUME NEW v \in {0, 1}, c.what = IF v = 1 THEN "press" ELSE "release"
      PROVE  IsPart1(<<[code |-> "touch", value |-> v]>>, "id", TRUE, c)
  <2> DEFINE e == [code |-> "touch", value |-> v]
  <2>1. e \in Events1 /\ Fits1(e) /\ e.code = "touch" /\ e.value = v
    BY DEF Events1, Codes1, Values1, Fits1
  <2> HIDE DEF e
  <2>2. AsSlot(e).code = "id" /\ AsSlot(e).value = v - 1 /\ AsSlot(e).of = 0 /\ Fits(AsSlot(e))
    BY <2>1, OneAsSlot
  <2>3. v - 1 = IdOf(c.what)
    BY <1>1 DEF IdOf
  <2>4. Added(AsSlot(e), 0, c)
    BY <2>2, <2>3 DEF Added, Axes
  <2>5. IsPart1(<<e>>, "id", TRUE, c)
    BY <2>1, <2>2, <2>4, OnePart
  <2> QED  BY <2>5 DEF e
<1>2. CASE c.what = "press"
  <2>1. part = <<[code |-> "touch", value |-> 1]>>
    BY <1>2 DEF P!Event
  <2>2. 1 \in {0, 1} /\ c.what = IF 1 = 1 THEN "press" ELSE "release"
    BY <1>2
  <2>3. IsPart1(<<[code |-> "touch", value |-> 1]>>, "id", TRUE, c)
    BY <1>1, <2>2
  <2>4. (c.what \in {"press", "release"}) = TRUE
    BY <1>2
  <2> QED  BY <2>1, <2>3, <2>4
<1>3. CASE c.what = "release"
  <2>1. part = <<[code |-> "touch", value |-> 0]>>
    BY <1>3 DEF P!Event
  <2>2. 0 \in {0, 1} /\ c.what = IF 0 = 1 THEN "press" ELSE "release"
    BY <1>3
  <2>3. IsPart1(<<[code |-> "touch", value |-> 0]>>, "id", TRUE, c)
    BY <1>1, <2>2
  <2>4. (c.what \in {"press", "release"}) = TRUE
    BY <1>3
  <2> QED  BY <2>1, <2>3, <2>4
<1>4. CASE c.what \notin {"press", "release"}
  <2>1. part = <<>>
    BY <1>4
  <2>2. (c.what \in {"press", "release"}) = FALSE
    BY <1>4
  <2>3. IsPart1(part, "id", FALSE, c)
    BY <2>1, NoPart
  <2> QED  BY <2>2, <2>3
<1> QED  BY <1>2, <1>3, <1>4

(* The event of a coordinate, sent if it has changed.                      *)
LEMMA Axis1Part ==
    ASSUME NEW c \in Deed, NEW a \in Axes
    PROVE  IsPart1(P!AxisEvents(a, c.place), a, c.place[a] # finger1.place[a], c)
<1>1. CASE c.place[a] # finger1.place[a]
  <2> DEFINE e == [code |-> a, value |-> c.place[a]]
  <2>1. /\ a = "x" => c.place[a] \in Xs
        /\ a = "y" => c.place[a] \in Ys
    BY DEF Deed, T!Places
  <2>2. e \in Events1 /\ Fits1(e) /\ e.code = a /\ e.value = c.place[a]
    BY <2>1 DEF Events1, Codes1, Values1, Fits1, Axes
  <2>3. P!AxisEvents(a, c.place) = <<e>>
    BY <1>1 DEF P!AxisEvents, P!Event
  <2> HIDE DEF e
  <2>4. AsSlot(e).code = a /\ AsSlot(e).value = c.place[a] /\ AsSlot(e).of = 0 /\ Fits(AsSlot(e))
    BY <2>2, OneAsSlot DEF Axes
  <2>5. Added(AsSlot(e), 0, c)
    BY <2>4 DEF Added, Axes
  <2>6. IsPart1(<<e>>, a, TRUE, c)
    BY <2>2, <2>4, <2>5, OnePart
  <2> QED  BY <1>1, <2>3, <2>6
<1>2. CASE c.place[a] = finger1.place[a]
  <2>1. P!AxisEvents(a, c.place) = <<>>
    BY <1>2 DEF P!AxisEvents
  <2> QED  BY <1>2, <2>1, NoPart
<1> QED  BY <1>1, <1>2

(* The packet of a frame.                                                  *)
Packet1(c) ==
    LET touch == CASE c.what = "press" -> P!Event("touch", 1)
                   [] c.what = "release" -> P!Event("touch", 0)
                   [] OTHER -> <<>>
    IN  touch \o P!AxisEvents("x", c.place) \o P!AxisEvents("y", c.place) \o P!Event("report", c)

(* It says all that has changed.                                           *)
LEMMA Packet1IsRight ==
    ASSUME finger1.place \in T!Places, NEW c \in P!Changes, NEW b, b = Packet1(c)
    PROVE  /\ b \in Queues1 /\ c \in Deed
           /\ ReportFacts(AsSlots(b), Alone(c), Alone(finger1)) /\ Len(b) \in 1..4
<1> DEFINE touch == CASE c.what = "press" -> P!Event("touch", 1)
                      [] c.what = "release" -> P!Event("touch", 0)
                      [] OTHER -> <<>>
           x == P!AxisEvents("x", c.place)   y == P!AxisEvents("y", c.place)
           e == [code |-> "report", value |-> c]   u == touch \o x   v == u \o y
           ev == AsSlots(v)
<1>1. c \in Deed /\ c.what # "none" /\ (c.what = "slide" => c.place # finger1.place)
  BY SlotZero DEF P!Changes, Deed, T!Whats
<1>2. IsPart1(touch, "id", c.what \in {"press", "release"}, c)
  BY <1>1, Touch1Part
<1>3. IsPart1(x, "x", c.place["x"] # finger1.place["x"], c)
  BY <1>1, Axis1Part DEF Axes
<1>4. IsPart1(y, "y", c.place["y"] # finger1.place["y"], c)
  BY <1>1, Axis1Part DEF Axes
<1>5. e \in Events1 /\ Fits1(e) /\ e.code = "report" /\ e.value = c
  BY <1>1 DEF Events1, Codes1, Values1, Fits1
<1>6. b = v \o <<e>>
  BY DEF Packet1, P!Event
<1>7. u = touch \o x /\ v = u \o y
  OBVIOUS
<1> HIDE DEF touch, x, y, e, u, v
<1>8. u \in Queues1 /\ AsSlots(u) = AsSlots(touch) \o AsSlots(x)
  BY <1>2, <1>3, <1>7, AsSlotsJoin DEF IsPart1
<1>9. v \in Queues1 /\ ev = AsSlots(u) \o AsSlots(y)
  BY <1>4, <1>7, <1>8, AsSlotsJoin DEF IsPart1
<1>10. <<e>> \in Queues1 /\ AsSlots(<<e>>) = <<AsSlot(e)>>
  BY <1>5, AsSlotsOne
<1>11. b \in Queues1 /\ AsSlots(b) = ev \o <<AsSlot(e)>>
  BY <1>6, <1>9, <1>10, AsSlotsJoin
<1>12. ev \in Queues
  BY <1>9, AsSlotsFacts
<1> HIDE DEF ev
<1>13. PartsFacts(ev, 0, c, finger1.place, FALSE)
  <2> DEFINE A == <<>>   B == AsSlots(touch)   X == AsSlots(x)   Y == AsSlots(y)
             old == finger1.place   said == FALSE
  <2>1. IsPart(A, "slot", said, 0, c)
    BY DEF IsPart
  <2>2. /\ IsPart(B, "id", c.what \in {"press", "release"}, 0, c)
        /\ IsPart(X, "x", c.place["x"] # old["x"], 0, c)
        /\ IsPart(Y, "y", c.place["y"] # old["y"], 0, c)
    BY <1>2, <1>3, <1>4 DEF IsPart1
  <2>3. A \o B = B
    BY <2>2 DEF IsPart
  <2>4. ev = ((A \o B) \o X) \o Y
    BY <1>8, <1>9, <2>3
  <2>5. said \in BOOLEAN
    OBVIOUS
  <2> HIDE DEF A, B, X, Y, old, said
  <2>6. PartsFacts(ev, 0, c, old, said)
    BY <2>1, <2>2, <2>4, <2>5, PartsAreWhole
  <2> QED  BY <2>6 DEF old, said
<1>14. /\ Len(ev) \in 0..3 /\ \A i \in 1..Len(ev) : Added(ev[i], 0, c)
       /\ c.what \in {"press", "release"} => SaidOf(ev, 0, "id")
       /\ \A a \in Axes : c.place[a] = finger1.place[a] \/ SaidOf(ev, 0, a)
  <2>1. Len(ev) \in 0..3 /\ \A i \in 1..Len(ev) : Added(ev[i], 0, c) /\ ev[i].of = 0
    BY <1>13, PartsUnsaid
  <2>2. ASSUME NEW code, \E i \in 1..Len(ev) : ev[i].code = code PROVE SaidOf(ev, 0, code)
    BY <2>1, <2>2 DEF SaidOf
  <2>3. c.what \in {"press", "release"} => \E i \in 1..Len(ev) : ev[i].code = "id"
    BY <1>13 DEF PartsFacts
  <2>4. \A a \in Axes : c.place[a] = finger1.place[a] \/ \E i \in 1..Len(ev) : ev[i].code = a
    BY <1>13 DEF PartsFacts
  <2> QED  BY <2>1, <2>2, <2>3, <2>4
<1>15. /\ Alone(c) \in [T!Slots -> Deed] /\ Alone(c)[0] = c /\ Alone(finger1)[0] = finger1
       /\ \A s \in T!Slots : s # 0 => Alone(c)[s] = Still /\ Alone(finger1)[s] = Still
  BY <1>1, SlotZero DEF Alone
<1>16. ASSUME NEW i \in 1..Len(ev)
       PROVE  ev[i].code \in {"slot", "id", "x", "y"} /\ Says(ev[i], Alone(c)[ev[i].of])
  BY <1>1, <1>14, <1>15 DEF Added, Says
<1>17. ASSUME NEW s \in T!Slots
       PROVE  /\ Said(ev, s, Alone(c)[s], Alone(finger1)[s])
              /\ Alone(c)[s].place \in T!Places /\ Alone(finger1)[s].place \in T!Places
  <2>1. CASE s = 0
    BY <1>1, <1>14, <1>15, <2>1 DEF Said, Deed
  <2>2. CASE s # 0
    <3>1. Alone(c)[s] = Still /\ Alone(finger1)[s] = Still
      BY <1>15, <2>2
    <3>2. Still.what = "none" /\ Still.place \in T!Places
      BY SlotZero DEF Still
    <3> QED  BY <3>1, <3>2 DEF Said
  <2> QED  BY <2>1, <2>2
<1>18. /\ AsSlot(e) \in Events /\ Fits(AsSlot(e))
       /\ AsSlot(e).code = "report" /\ AsSlot(e).value = Alone(c)
  BY <1>5, OneAsSlot
<1>19. ReportFacts(AsSlots(b), Alone(c), Alone(finger1)) /\ Len(AsSlots(b)) = Len(ev) + 1
  <2> DEFINE f == AsSlot(e)   w == AsSlots(b)   change == Alone(c)   old == Alone(finger1)
  <2>1. /\ ev \in Queues /\ w = ev \o <<f>>
        /\ f \in Events /\ Fits(f) /\ f.code = "report" /\ f.value = change
    BY <1>11, <1>12, <1>18
  <2>2. \A i \in 1..Len(ev) : /\ ev[i].code \in {"slot", "id", "x", "y"}
                              /\ Says(ev[i], change[ev[i].of])
    BY <1>16
  <2>3. \A s \in T!Slots : /\ Said(ev, s, change[s], old[s])
                           /\ change[s].place \in T!Places /\ old[s].place \in T!Places
    BY <1>17
  <2> HIDE DEF f, w, change, old
  <2>4. ReportFacts(w, change, old)
    BY <2>1, <2>2, <2>3, ReportAdded
  <2>5. Len(w) = Len(ev) + 1
    BY <2>1, <2>2, <2>3, ReportAdded
  <2> QED  BY <2>4, <2>5 DEF w, change, old
<1>20. Len(b) \in 1..4
  <2>1. Len(b) = Len(ev) + 1
    BY <1>11, <1>19, AsSlotsFacts
  <2> QED  BY <1>14, <2>1
<1> QED  BY <1>1, <1>11, <1>19, <1>20

(* The last event heard is a report of slot 0.                             *)
LEMMA LastHeard ==
    ASSUME NEW q \in Queues1, q # <<>>, Ends(AsSlots(q))
    PROVE  /\ q[Len(q)].value \in Deed
           /\ AsSlots(q)[Len(AsSlots(q))].value = Alone(q[Len(q)].value)
<1> DEFINE w == AsSlots(q)   n1 == Len(q)   e == q[n1]
<1>1. /\ Len(w) = n1 /\ n1 \in Nat /\ w # <<>> /\ q \in Seq(Events1)
      /\ \A i \in 1..n1 : w[i] = AsSlot(q[i]) /\ q[i] \in Events1 /\ Fits1(q[i])
  BY AsSlotsFacts
<1>2. n1 \in 1..n1
  BY <1>1
<1>3. w[n1] = AsSlot(e) /\ e \in Events1 /\ Fits1(e)
  BY <1>1, <1>2
<1>4. w[n1].code = "report"
  BY <1>1 DEF Ends
<1> HIDE DEF w, e, n1
<1>5. e.code = "report"
  BY <1>3, <1>4, OneAsSlot
<1>6. AsSlot(e).value = Alone(e.value) /\ e.value \in Deed
  BY <1>3, <1>5, OneAsSlot
<1>7. e.value \in Deed /\ w[Len(w)].value = Alone(e.value)
  BY <1>1, <1>3, <1>6
<1> QED  BY <1>7 DEF w, e, n1

(* The place of the finger is that of the last report in the queue.        *)
LEMMA LastIsSent ==
    ASSUME NEW q \in Queues1, q # <<>>, Ends(AsSlots(q)), NEW c \in Deed,
           AsSlots(q)[Len(AsSlots(q))].value = Alone(c)
    PROVE  q[Len(q)].value = c
<1>1. q[Len(q)].value \in Deed /\ Alone(q[Len(q)].value) = Alone(c)
  BY LastHeard
<1>2. \A d \in Deed : Alone(d)[0] = d
  BY SlotZero
<1> QED  BY <1>1, <1>2

(* What is heard of slot 0 and of the others.                              *)
LEMMA Alone1 ==
    ASSUME NEW d
    PROVE  Alone(d)[0] = d /\ \A s \in T!Slots : s # 0 => Alone(d)[s] = Still
BY SlotZero DEF Alone

(* What follows a frame, however it was queued.                            *)
LEMMA Frame1Rest ==
    ASSUME SingleInv, queue1' \in Queues1, queue1' # <<>>, Len(queue1') <= QueueMax1, Ends(Heard'),
           NEW c \in Deed, Heard'[Len(Heard')].value = Alone(c),
           finger1' \in [down : BOOLEAN, place : T!Places], finger1'.place = c.place,
           UNCHANGED <<st, told1, truth1, sure1, whole, trust1>>
    PROVE  SingleTypes' /\ SingleRest' /\ P!ToldAsItWas'
<1>1. SingleTypes'
  BY DEF SingleInv, SingleTypes
<1>2. queue1'[Len(queue1')].value = c
  <2> DEFINE q == queue1'
  <2>1. Heard' = AsSlots(q)
    BY DEF Heard
  <2>2. /\ q \in Queues1 /\ q # <<>> /\ Ends(AsSlots(q))
        /\ AsSlots(q)[Len(AsSlots(q))].value = Alone(c)
    BY <2>1
  <2> HIDE DEF q
  <2>3. q[Len(q)].value = c
    BY <2>2, LastIsSent
  <2> QED  BY <2>3 DEF q
<1>3. SingleRest'
  BY <1>2 DEF SingleInv, SingleRest
<1>4. P!ToldAsItWas'
  BY DEF SingleInv, P!ToldAsItWas
<1> QED  BY <1>1, <1>3, <1>4

(* A frame with room in the queue.                                         *)
LEMMA Frame1Appended ==
    ASSUME SingleInv, NEW b \in Queues1, NEW c \in Deed,
           ReportFacts(AsSlots(b), Alone(c), Alone(finger1)),
           Len(b) <= QueueMax1 - Len(queue1), queue1' = queue1 \o b,
           finger1' \in [down : BOOLEAN, place : T!Places], finger1'.place = c.place,
           UNCHANGED <<st, told1, truth1, sure1, whole, trust1>>
    PROVE  SingleInv'
<1> DEFINE a == Heard   r == Heard'   w == AsSlots(b)   change == Alone(c)   old == Alone(finger1)
<1>1. /\ queue1 \in Queues1 /\ Ends(a) /\ Truth(a) /\ AllTold(a)
      /\ queue1 # <<>> => finger1.place = queue1[Len(queue1)].value.place
      /\ sure1 \in SUBSET Axes
  BY DEF SingleInv, SingleTypes, SingleRest
<1>2. a = AsSlots(queue1) /\ r = AsSlots(queue1')
  BY DEF Heard
<1>3. queue1' \in Queues1 /\ r = a \o w
  BY <1>1, <1>2, AsSlotsJoin
<1>4. a \in Queues /\ (a = <<>> <=> queue1 = <<>>) /\ Len(a) = Len(queue1)
  BY <1>1, <1>2, AsSlotsFacts
<1>5. ReportFacts(w, change, old)
  OBVIOUS
<1>6. ASSUME a # <<>>, NEW s \in T!Slots PROVE a[Len(a)].value[s].place = old[s].place
  <2> DEFINE v == queue1[Len(queue1)].value
  <2>1. a[Len(a)].value = Alone(v)
    BY <1>1, <1>2, <1>4, <1>6, LastHeard
  <2>2. finger1.place = v.place
    BY <1>1, <1>4, <1>6
  <2> HIDE DEF v
  <2>3. Alone(v)[s].place = Alone(finger1)[s].place
    <3>1. CASE s = 0
      BY <2>2, <3>1, Alone1
    <3>2. CASE s # 0
      BY <3>2, Alone1
    <3> QED  BY <3>1, <3>2
  <2> QED  BY <2>1, <2>3
<1> HIDE DEF a, r, w, change, old
<1>7. Appended(a, w, r, change, old)
  BY <1>1, <1>3, <1>4, <1>5, <1>6 DEF Appended
<1>8. /\ r \in Queues /\ Len(r) = Len(a) + Len(w) /\ Len(a) \in Nat /\ Len(w) \in Nat
      /\ r # <<>> /\ Ends(r) /\ Truth(r) /\ AllTold(r)
      /\ r[Len(r)].value = change
  BY <1>7, AppendHolds
<1>9. queue1' # <<>> /\ Len(queue1') = Len(r)
  BY <1>2, <1>3, <1>8, AsSlotsFacts
<1>10. Len(queue1') <= QueueMax1
  <2>1. Len(w) = Len(b) /\ QueueMax1 \in Nat
    BY AsSlotsFacts, QueueAssumption DEF w
  <2>2. Len(b) <= QueueMax1 - Len(a) /\ Len(queue1') = Len(a) + Len(b)
    BY <1>4, <1>8, <1>9, <2>1
  <2>3. \A h, k, z \in Nat : h <= z - k => k + h <= z
    OBVIOUS
  <2> QED  BY <1>8, <2>1, <2>2, <2>3
<1>11. SingleTypes' /\ SingleRest' /\ P!ToldAsItWas'
  <2>1. Ends(Heard') /\ Heard'[Len(Heard')].value = Alone(c)
    BY <1>8 DEF r, change
  <2> QED  BY <1>3, <1>9, <1>10, <2>1, Frame1Rest
<1>12. SingleFirst'
  <2> SUFFICES ASSUME NEW p, FirstReport(r, p)
               PROVE  Known(r, p, 0, r[p].value[0], StAsMt, sure1, whole)
    BY DEF SingleFirst, StAsMt, r
  <2> DEFINE m == StAsMt
  <2>1. a = <<>> => Fresh(m, sure1, old[0].place)
    <3> SUFFICES ASSUME a = <<>> PROVE Fresh(m, sure1, old[0].place)
      OBVIOUS
    <3>1. ~st.valid /\ st.down = -1 /\ \A x \in sure1 : st.place[x] = finger1.place[x]
      BY <1>4 DEF SingleInv, SingleRest
    <3>2. old[0] = finger1
      BY Alone1 DEF old
    <3> QED  BY <3>1, <3>2 DEF Fresh, StAsMt
  <2>2. FirstReport(a, p) => Known(a, p, 0, a[p].value[0], m, sure1, whole)
    BY DEF SingleInv, SingleFirst, FirstReport, a
  <2>3. 0 \in T!Slots
    BY SlotZero
  <2> HIDE DEF m
  <2>4. Known(r, p, 0, r[p].value[0], m, sure1, whole)
    BY <1>1, <1>7, <2>1, <2>2, <2>3, StillKnown
  <2> QED  BY <2>4 DEF m
<1>13. Ends(Heard') /\ Truth(Heard') /\ AllTold(Heard')
  BY <1>8 DEF r
<1> QED  BY <1>11, <1>12, <1>13 DEF SingleInv

(* A frame without room in the queue.                                      *)
LEMMA Frame1Cut ==
    ASSUME SingleInv, NEW b \in Queues1, NEW c \in Deed, Len(b) \in 1..4,
           ReportFacts(AsSlots(b), Alone(c), Alone(finger1)),
           NEW room, room = QueueMax1 - Len(queue1), ~(Len(b) <= room),
           queue1' = P!Event("dropped", 0) \o SubSeq(b, room + 1, Len(b)),
           finger1' \in [down : BOOLEAN, place : T!Places], finger1'.place = c.place,
           UNCHANGED <<st, told1, truth1, sure1, whole, trust1>>
    PROVE  SingleInv'
<1> DEFINE e == [code |-> "dropped", value |-> 0]   f == AsSlot(e)
           t == SubSeq(b, room + 1, Len(b))
           w == AsSlots(b)   r == Heard'   change == Alone(c)   old == Alone(finger1)
<1>1. e \in Events1 /\ Fits1(e) /\ e.code = "dropped"
  BY DEF Events1, Codes1, Values1, Fits1
<1>2. queue1' = <<e>> \o t
  BY DEF P!Event
<1> HIDE DEF e
<1>3. f \in Events /\ Fits(f) /\ f.code = "dropped"
  BY <1>1, OneAsSlot
<1>4. queue1 \in Queues1 /\ Len(queue1) <= QueueMax1
  BY DEF SingleInv, SingleTypes
<1>5. Len(queue1) \in Nat /\ Len(w) = Len(b) /\ Len(b) \in Nat
  BY <1>4, AsSlotsFacts
<1>6. room \in Nat /\ room < Len(b)
  BY <1>4, <1>5, QueueAssumption
<1>7. t \in Queues1 /\ AsSlots(t) = SubSeq(w, room + 1, Len(b))
  BY <1>6, AsSlotsRest
<1>8. <<e>> \in Queues1 /\ AsSlots(<<e>>) = <<f>>
  BY <1>1, AsSlotsOne
<1> HIDE DEF t
<1>9. queue1' \in Queues1 /\ AsSlots(queue1') = <<f>> \o AsSlots(t)
  BY <1>2, <1>7, <1>8, AsSlotsJoin
<1>10. r = AsSlots(queue1')
  BY DEF Heard
<1>11. r = <<f>> \o SubSeq(w, room + 1, Len(w))
  BY <1>5, <1>7, <1>9, <1>10
<1>12. ReportFacts(w, change, old)
  OBVIOUS
<1> HIDE DEF f, w, r, change, old
<1>13. Cut(r, w, f, room)
  BY <1>3, <1>5, <1>6, <1>11 DEF Cut
<1>14. /\ r # <<>> /\ Lost(r) /\ Len(r) = 1 + (Len(w) - room)
       /\ Ends(r) /\ Truth(r) /\ AllTold(r) /\ r[Len(r)].value = change
  BY <1>12, <1>13, CutHolds
<1>15. queue1' # <<>> /\ Len(queue1') = Len(r)
  BY <1>9, <1>10, <1>14, AsSlotsFacts
<1>16. Len(queue1') <= QueueMax1
  <2>1. \A h \in 1..4, k, z \in Nat : z > 4 => 1 + (h - k) <= z
    OBVIOUS
  <2>2. Len(queue1') = 1 + (Len(b) - room)
    BY <1>5, <1>14, <1>15
  <2> QED  BY <1>6, <2>1, <2>2, QueueAssumption
<1>17. SingleTypes' /\ SingleRest' /\ P!ToldAsItWas'
  <2>1. Ends(Heard') /\ Heard'[Len(Heard')].value = Alone(c)
    BY <1>14 DEF r, change
  <2> QED  BY <1>9, <1>15, <1>16, <2>1, Frame1Rest
<1>18. SingleFirst'
  <2>1. Lost(Heard')
    BY <1>14 DEF r
  <2> QED  BY <2>1 DEF SingleFirst, Known
<1>19. Ends(Heard') /\ Truth(Heard') /\ AllTold(Heard')
  BY <1>14 DEF r
<1> QED  BY <1>17, <1>18, <1>19 DEF SingleInv

(* A frame, with room or without.                                          *)
LEMMA Frame1IsSent == SingleInv /\ P!Frame => SingleInv'
<1> SUFFICES ASSUME SingleInv, P!Frame PROVE SingleInv'
  OBVIOUS
<1>1. PICK c \in P!Changes :
         /\ queue1' = IF Len(Packet1(c)) <= QueueMax1 - Len(queue1) THEN queue1 \o Packet1(c)
                      ELSE P!Event("dropped", 0)
                           \o SubSeq(Packet1(c), (QueueMax1 - Len(queue1)) + 1, Len(Packet1(c)))
         /\ finger1' = [down |-> c.what # "release", place |-> c.place]
  BY DEF P!Frame, Packet1
<1> DEFINE b == Packet1(c)   room == QueueMax1 - Len(queue1)
<1>2. UNCHANGED <<st, told1, truth1, sure1, whole, trust1>>
  BY DEF P!Frame
<1>3. finger1.place \in T!Places
  BY DEF SingleInv, SingleTypes
<1>4. /\ b \in Queues1 /\ c \in Deed
      /\ ReportFacts(AsSlots(b), Alone(c), Alone(finger1)) /\ Len(b) \in 1..4
  BY <1>3, Packet1IsRight
<1>5. /\ queue1' = IF Len(b) <= room THEN queue1 \o b
                   ELSE P!Event("dropped", 0) \o SubSeq(b, room + 1, Len(b))
      /\ room = QueueMax1 - Len(queue1)
  BY <1>1
<1>6. finger1' \in [down : BOOLEAN, place : T!Places] /\ finger1'.place = c.place
  BY <1>1, <1>4 DEF Deed
<1> HIDE DEF b, room
<1>7. CASE Len(b) <= room
  <2>1. queue1' = queue1 \o b /\ Len(b) <= QueueMax1 - Len(queue1)
    BY <1>5, <1>7
  <2> QED  BY <1>2, <1>4, <1>6, <2>1, Frame1Appended
<1>8. CASE ~(Len(b) <= room)
  <2>1. /\ queue1' = P!Event("dropped", 0) \o SubSeq(b, room + 1, Len(b))
        /\ room = QueueMax1 - Len(queue1)
    BY <1>5, <1>8
  <2> QED  BY <1>2, <1>4, <1>6, <1>8, <2>1, Frame1Cut
<1> QED  BY <1>7, <1>8

(* The invariant of the single touch holds first.                          *)
LEMMA SingleFirstState == P!Init => SingleInv
<1> SUFFICES ASSUME P!Init PROVE SingleInv
  OBVIOUS
<1>1. /\ finger1 \in [down : BOOLEAN, place : T!Places] /\ queue1 = <<>>
      /\ st = [place |-> P!Origin, down |-> -1, valid |-> FALSE]
      /\ sure1 = {a \in {"x", "y"} : finger1.place[a] = 0}
      /\ whole = TRUE /\ trust1 = [whole |-> TRUE, sure |-> {}]
      /\ told1 = P!None /\ truth1 = P!None
  BY SlotZero DEF P!Init
<1>2. queue1 \in Seq(Events1) /\ Len(queue1) = 0
  BY <1>1
<1>3. queue1 \in Queues1 /\ Len(queue1) <= QueueMax1
  BY <1>2, QueueAssumption DEF Queues1
<1>4. Len(Heard) = 0 /\ Heard = <<>>
  BY <1>1, <1>2, <1>3, AsSlotsFacts DEF Heard
<1>5. SingleTypes
  BY <1>1, <1>3, SlotZero DEF SingleTypes, Axes
<1>6. Ends(Heard) /\ Truth(Heard) /\ AllTold(Heard) /\ SingleFirst
  <2>1. (\A i \in 2..Len(Heard) : FALSE) /\ (\A i \in 1..Len(Heard) : FALSE)
    BY <1>4
  <2> QED  BY <1>4, <2>1 DEF Ends, Truth, AllTold, SingleFirst
<1>7. SingleRest
  <2>1. ASSUME NEW a \in sure1 PROVE st.place[a] = finger1.place[a]
    BY <1>1 DEF P!Origin
  <2> QED  BY <1>1, <2>1 DEF SingleRest
<1>8. P!ToldAsItWas
  BY <1>1 DEF P!ToldAsItWas
<1> QED  BY <1>5, <1>6, <1>7, <1>8 DEF SingleInv

(* It holds while the single touch rests.                                  *)
LEMMA SingleSame == SingleInv /\ UNCHANGED singleVars => SingleInv'
BY DEF SingleInv, SingleTypes, SingleFirst, SingleRest, Heard, StAsMt, P!ToldAsItWas, singleVars

(* Every step of the single touch preserves it.                            *)
LEMMA SingleNext == SingleInv /\ P!Next => SingleInv'
<1> SUFFICES ASSUME SingleInv, P!Next PROVE SingleInv'
  OBVIOUS
<1>1. CASE P!Frame
  BY <1>1, Frame1IsSent
<1>2. CASE P!ReadTouch
  BY <1>2, TouchIsRead
<1>3. CASE P!ReadPosition("x") \/ P!ReadPosition("y")
  BY <1>3, Position1IsRead DEF Axes
<1>4. CASE P!ReadDropped
  BY <1>4, LossIsRead
<1>5. CASE P!ReadReport
  BY <1>5, ReportIsRead
<1>6. CASE P!Stop \/ P!Ended
  <2>1. UNCHANGED <<finger1, queue1, st, told1, truth1, sure1, whole, trust1>>
    BY <1>6 DEF P!Stop, P!Ended, P!vars, P!kernelVars
  <2> QED  BY <2>1 DEF SingleInv, SingleTypes, SingleFirst, SingleRest, Heard, StAsMt, P!ToldAsItWas
<1> QED  BY <1>1, <1>2, <1>3, <1>4, <1>5, <1>6 DEF P!Next, P!Read

(* Whatever the fingers do, however the kernel's packets and losses come   *)
(* and the reader reads, what is told of them is true as far as the events *)
(* let it know, for every number of slots, all coordinates and every queue *)
(* with room for a packet: by TouchInv for touch tracking (mt, 12 slots    *)
(* there) and by SingleInv for the single touch.                           *)
THEOREM TouchesStayTrue == MCSpec => []TouchesAreTrue
<1> DEFINE Inv == TouchInv /\ SingleInv
<1>1. MCInit => Inv
  BY TouchFirst, SingleFirstState DEF MCInit, NoTouch, NoSingle
<1>2. Inv /\ [MCNext]_<<which, callVars, vars, touchVars, singleVars>> => Inv'
  <2> SUFFICES ASSUME Inv, [MCNext]_<<which, callVars, vars, touchVars, singleVars>> PROVE Inv'
    OBVIOUS
  <2>1. T!Next \/ UNCHANGED touchVars
    BY DEF MCNext
  <2>2. P!Next \/ UNCHANGED singleVars
    BY DEF MCNext
  <2>3. TouchInv'
    BY <2>1, TouchNext, TouchSame
  <2>4. SingleInv'
    BY <2>2, SingleNext, SingleSame
  <2> QED  BY <2>3, <2>4
<1>3. Inv => TouchesAreTrue
  BY DEF TouchInv, SingleInv, TouchesAreTrue
<1> QED  BY <1>1, <1>2, <1>3, PTL DEF MCSpec
=============================================================================

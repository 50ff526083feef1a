------------------------------ MODULE MCScreen ------------------------------
(***************************************************************************)
(* What is drawn on the screen, and the touches and names it is drawn for. *)
(* A behaviour is one of four: a call of LcdDraw, LcdImage or LcdShapes    *)
(* with arguments around the edges of the screen, whose next state has     *)
(* what it has drawn; a run of NameList; one of TouchTracker or one of     *)
(* SingleTouch.  The others stay as they began.                            *)
(***************************************************************************)
EXTENDS LcdImage, LcdShapes, NameList

CONSTANTS
    Margin,      \* bound: how far from an edge of the screen a call may be
    MaxSlot, Xs, Ys, QueueMax, MaxFrames,  \* of TouchTracker
    QueueMax1, MaxFrames1                  \* of SingleTouch, whose coordinates are Xs and Ys

(* The sizes of the screen and the places of the calls are far from the    *)
(* ends of an unsigned int.                                                *)
ASSUME MarginAssumption ==
    /\ Margin \in Nat
    /\ width + Margin < Word /\ height + Margin < Word

(* A packet and a loss fit into a queue.                                   *)
ASSUME QueueAssumption ==
    /\ MaxSlot \in Nat /\ 0 \in Xs /\ 0 \in Ys
    /\ QueueMax \in Nat /\ QueueMax > 4 * (MaxSlot + 1) + 1
    /\ QueueMax1 \in Nat /\ QueueMax1 > 4

VARIABLES which,
          call,  \* <<function, x, y, and two more arguments>>
          drawn, \* the cells it has drawn
          finger, kslot, queue, frames, slot, mt, told, running,
          truth, slotSure, sure, sound, trust,
          finger1, queue1, frames1, st, told1, running1, truth1, sure1, whole, trust1

callVars  == <<call, drawn>>
touchVars == <<finger, kslot, queue, frames, slot, mt, told, running,
               truth, slotSure, sure, sound, trust>>

singleVars == <<finger1, queue1, frames1, st, told1, running1, truth1, sure1, whole, trust1>>

T == INSTANCE TouchTracker

P == INSTANCE SingleTouch WITH QueueMax <- QueueMax1, MaxFrames <- MaxFrames1,
        finger <- finger1, queue <- queue1, frames <- frames1, told <- told1, running <- running1,
        truth <- truth1, sure <- sure1, trust <- trust1
-----------------------------------------------------------------------------
Near(size) == -Margin..Margin \union size - Margin..size + Margin
Lengths    == 0..Margin + 2
Sizes      == 0..Margin \union width - 1..width + 1 \union height - 1..height + 1

LineCalls   == {"line", "int_line"} \X Near(width) \X Near(height) \X {0, 1} \X Lengths
TargetCalls == {"target", "int_target"} \X Columns \X Rows \X {0} \X {0}
CharCalls   == {"char"} \X {x \in Near(width) : x >= 0} \X {y \in Near(height) : y >= 0}
                        \X Lengths \X Lengths
GlyphCalls  == {"glyph"} \X Near(width) \X Near(height) \X Lengths \X Lengths

(* x and y are 0; only BMP files may have their rows top down.             *)
ImageCalls  == {"bmp", "bmp_top_down", "jpeg", "png", "turned", "turned_top_down"}
                   \X {0} \X {0} \X Sizes \X Sizes

(* Points, and rectangles with their two corners, on the screen and right  *)
(* of or below it; stars with the sizes of the screen they are for.        *)
ShapeCalls  == {"point", "rectangle", "fill"}
                   \X {x \in Near(width) : x >= 0} \X {y \in Near(height) : y >= 0}
                   \X Lengths \X Lengths
StarCalls   == {"star"} \X {0} \X {0} \X (127..131) \X (149..154)

CallInit ==
    /\ call \in LineCalls \union TargetCalls \union CharCalls \union GlyphCalls
                          \union ImageCalls \union ShapeCalls \union StarCalls
    /\ drawn = {<<>>}

Call(f) == call[1] = f /\ drawn = {<<>>} /\ UNCHANGED call

Line      == Call("line") /\ drawn' = DrawLine(call[2], call[3], call[4], call[5])
IntLine   == Call("int_line") /\ drawn' = IntDrawLine(call[2], call[3], call[4], call[5])
Target    == Call("target") /\ drawn' = DrawTarget(call[2], call[3])
IntTarget == Call("int_target") /\ drawn' = IntDrawTarget(call[2], call[3])
Char      == Call("char") /\ drawn' = ShowChar(call[2], call[3], call[4], call[5])
Glyph     == Call("glyph") /\ drawn' = FreetypeShow(call[2], call[3], call[4], call[5])

Bmp        == Call("bmp") /\ drawn' = ShowBmp(call[4], call[5], TRUE)
BmpTopDown == Call("bmp_top_down") /\ drawn' = ShowBmp(call[4], call[5], FALSE)
Jpeg       == Call("jpeg") /\ drawn' = ShowJpeg(call[4], call[5])
Png        == Call("png") /\ drawn' = ShowPng(call[4], call[5])
Turned     == Call("turned") /\ drawn' = ShowTurnedBmp(call[4], call[5], TRUE)

(* The height is negative when malloc is asked for line_bytes * height     *)
(* bytes, almost 4 GB, which it may refuse: the program ends.              *)
TurnedTopDown ==
    /\ Call("turned_top_down")
    /\ \/ drawn' = ShowTurnedBmp(call[4], call[5], FALSE)
       \/ call[4] > 0 /\ call[5] > 0 /\ drawn' = {}

Point     == Call("point") /\ drawn' = DrawPoint(call[2], call[3])
Rectangle == Call("rectangle") /\ drawn' = DrawRectangle(call[2], call[3], call[2] + call[4], call[3] + call[5])
Fill      == Call("fill") /\ drawn' = FillRectangle(call[2], call[3], call[2] + call[4], call[3] + call[5])
StarDrawn == Call("star") /\ drawn' = Star(call[4], call[5])

CallNext ==
    \/ Line \/ IntLine \/ Target \/ IntTarget \/ Char \/ Glyph
    \/ Bmp \/ BmpTopDown \/ Jpeg \/ Png \/ Turned \/ TurnedTopDown
    \/ Point \/ Rectangle \/ Fill \/ StarDrawn
    \/ drawn # {<<>>} /\ UNCHANGED callVars
-----------------------------------------------------------------------------
(* A behaviour of one kind: what the others start with is of no interest.  *)
NoCall  == call = <<"">> /\ drawn = {}
NoNames == lines = 0 /\ Init
NoTouch == /\ kslot = 0 /\ finger = [s \in T!Slots |-> [down |-> FALSE, place |-> T!Origin]]
           /\ T!Init
NoSingle == finger1 = [down |-> FALSE, place |-> P!Origin] /\ P!Init

MCInit ==
    \/ which = "call" /\ CallInit /\ NoNames /\ NoTouch /\ NoSingle
    \/ which = "names" /\ Init /\ NoCall /\ NoTouch /\ NoSingle
    \/ which = "touch" /\ T!Init /\ NoCall /\ NoNames /\ NoSingle
    \/ which = "single" /\ P!Init /\ NoCall /\ NoNames /\ NoTouch

MCNext ==
    /\ UNCHANGED which
    /\ \/ which = "call" /\ CallNext /\ UNCHANGED <<vars, touchVars, singleVars>>
       \/ which = "names" /\ Next /\ UNCHANGED <<callVars, touchVars, singleVars>>
       \/ which = "touch" /\ T!Next /\ UNCHANGED <<callVars, vars, singleVars>>
       \/ which = "single" /\ P!Next /\ UNCHANGED <<callVars, vars, touchVars>>

MCSpec == MCInit /\ [][MCNext]_<<which, callVars, vars, touchVars, singleVars>>
-----------------------------------------------------------------------------
Has(f) == call[1] = f /\ drawn # {<<>>}

(* With int sizes every line is cut to what is visible.  With unsigned     *)
(* sizes a line that ends left of the screen or above it goes from edge to *)
(* edge, and every other line is cut to what is visible.                   *)
LinesCut ==
    LET visible == VisibleLine(call[2], call[3], call[4], call[5])
    IN  /\ Has("int_line") => drawn = visible
        /\ Has("line") =>
               IF WrapsAround(call[2], call[3], call[4], call[5])
               THEN drawn = IF call[4] = 1 THEN Columns \X {call[3]} ELSE {call[2]} \X Rows
               ELSE drawn = visible

(* The target at a finger is drawn as it should be; with unsigned sizes    *)
(* only if the finger is not within 26 cells of the left or the upper edge. *)
TargetsCut ==
    \/ Has("int_target")
    \/ Has("target") /\ call[2] >= 26 /\ call[3] >= 26
    => drawn = VisibleTarget(call[2], call[3])

(* Of a character the visible part is drawn, each cell from its own cell   *)
(* of the bitmap.                                                          *)
BitmapsCut ==
    Has("char") \/ Has("glyph") =>
        drawn = VisibleBitmap(call[2], call[3], call[4], call[5])

(* The rectangles of lcd_baseshow are the border of what is on the screen  *)
(* of them, also if that is a single row or column.                        *)
RectanglesCut ==
    LET x1 == InColumns(call[2] + call[4])   y1 == InRows(call[3] + call[5])
        x0 == InColumns(call[2])             y0 == InRows(call[3])
    IN  /\ Has("point") => drawn = Border(x0, y0, x0, y0)
        /\ Has("rectangle") => drawn = Border(x0, y0, x1, y1)
        /\ Has("fill") => drawn = (x0..x1) \X (y0..y1)

(* The star of lcd_myshow is one, and symmetric, if the screen has room    *)
(* for it.                                                                 *)
StarIsWhole == Has("star") => (IsStar(drawn) <=> FitsStar(call[4], call[5]))

(* Lines, targets, bitmaps and rectangles are cut to the screen.           *)
DrawingIsCut == LinesCut /\ TargetsCut /\ BitmapsCut /\ RectanglesCut

(* Of an image the visible upper left part is shown, every pixel at its    *)
(* place, upright or turned, whichever way the rows of the file come.  The *)
(* exception are BMP files with an odd number of columns, which are shown  *)
(* slanted unless a single row is all that is read, and a turned image     *)
(* with rows top down, of which nothing may be shown at all.               *)
ImagesShown ==
    LET w == call[4]
        h == call[5]
        slanted(more) == w % 2 = 1 /\ more
    IN  /\ Has("jpeg") \/ Has("png") => drawn = VisibleBitmap(0, 0, w, h)
        /\ Has("bmp") => (drawn = VisibleBitmap(0, 0, w, h) <=> ~slanted(ReadsOn(w, h, TRUE)))
        /\ Has("bmp_top_down") =>
               (drawn = VisibleBitmap(0, 0, w, h) <=> ~slanted(ReadsOn(w, h, FALSE)))
        /\ Has("turned") => (drawn = VisibleTurned(w, h) <=> ~slanted(h > 1))
        /\ Has("turned_top_down") /\ w % 2 = 0 => drawn \in {{}, VisibleTurned(w, h)}

(* What is told of the fingers, their kinds of moves and their places, is  *)
(* true as far as the kernel's events let a reader know.                   *)
TouchesAreTrue == T!KindsAreTrue /\ T!PlacesAreTrue /\ P!ToldAsItWas
=============================================================================

------------------------------ MODULE LcdImage ------------------------------
(***************************************************************************)
(* How the programs of the LCD show an image of w columns and h rows, as   *)
(* sets of <<row, column, x, y>> like the bitmaps of LcdDraw: 19_lcd's     *)
(* lcd_bmp_show.c, lcd_jpeg_show.c, lcd_png_show.c and, turned by 90       *)
(* degrees, lcd_vertical_display_bmp.c.                                    *)
(*                                                                         *)
(* Screen and BMP files have 16 bits a pixel, a line of the screen has     *)
(* width pixels, and JPEG and PNG images have three components of 8 bits.  *)
(* Colours are left out.                                                   *)
(***************************************************************************)
EXTENDS LcdDraw

(* show_jpeg_image and show_png_image copy the beginning of every row.     *)
ShowJpeg(w, h) ==
    {<<p, q, q, p>> : p \in 0..Smaller(h, height) - 1, q \in 0..Smaller(w, width) - 1}

ShowPng(w, h) ==
    {<<p, q, q, p>> : p \in 0..Smaller(h, height) - 1, q \in 0..Smaller(w, width) - 1}
-----------------------------------------------------------------------------
(***************************************************************************)
(* BMP.  In the file every row is filled up to four bytes, so a row of an  *)
(* odd number of pixels is followed by one that belongs to no pixel.  The  *)
(* programs read rows of w pixels one after the other.                     *)
(***************************************************************************)
Stride(w) == w + (w % 2)

(* Pixel q of the row read after rows others: <<row in the file, column>>. *)
PixelRead(w, rows, q) ==
    LET at == rows * w + q
    IN  <<at \div Stride(w), at % Stride(w)>>

(* The rows of a file with a positive height come bottom up.               *)
RowOf(fileRow, h, bottomUp) == IF bottomUp THEN h - 1 - fileRow ELSE fileRow

(* Mutant: the rows below the screen are not skipped.                      *)
ShowBmpUnskipped(w, h, bottomUp) ==
    LET min_height == Smaller(h, height)
    IN  {LET pixel == PixelRead(w, i, q)
         IN  <<RowOf(pixel[1], h, bottomUp), pixel[2], q, RowOf(i, min_height, bottomUp)>> :
            i \in 0..min_height - 1, q \in 0..Smaller(w, width) - 1}

ShowBmp(w, h, bottomUp) ==
    LET min_height == Smaller(h, height)
        skipped    == IF bottomUp THEN h - min_height ELSE 0
    IN  {LET pixel == PixelRead(w, skipped + i, q)
         IN  <<RowOf(pixel[1], h, bottomUp), pixel[2], q, RowOf(i, min_height, bottomUp)>> :
            i \in 0..min_height - 1, q \in 0..Smaller(w, width) - 1}

(* The whole image is read into screen_temp and turned from there.         *)
ShowTurnedBmp(w, h, bottomUp) ==
    {LET pixel == PixelRead(w, RowOf(i, h, bottomUp), j)
     IN  <<RowOf(pixel[1], h, bottomUp), pixel[2], i, height - 1 - j>> :
        i \in 0..Smaller(h, width) - 1, j \in 0..Smaller(w, height) - 1}
-----------------------------------------------------------------------------
(* The reference: what is visible of an image turned to the left.          *)
VisibleTurned(w, h) ==
    {<<p, q, p, height - 1 - q>> : p \in {p \in Columns : p < h},
                                   q \in {q \in Rows : q < w}}

(* The rows of the file that show_bmp_image reads beside the first one.    *)
ReadsOn(w, h, bottomUp) == h > 1 /\ (bottomUp \/ height > 1)
=============================================================================

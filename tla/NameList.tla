------------------------------ MODULE NameList ------------------------------
(***************************************************************************)
(* The list of 33_mqtt/lcd_freetype_show_char_mqtt.c: the names in         *)
(* list.txt, one a line, are read into str1, cut of their newline into     *)
(* str2, converted by mbstowcs into china_str and drawn in a grid of three *)
(* columns.                                                                *)
(*                                                                         *)
(* mbstowcs may write as many characters as str2 has bytes, so it ends     *)
(* china_str with a null only if one of them has more than one byte; what  *)
(* an earlier name has left behind the end of this one is drawn with it.   *)
(*                                                                         *)
(* Character p of a name always goes to place p of china_str, so a place   *)
(* is modelled by the number of the line its character is from, 0 for the  *)
(* null.  Every line fits into str1, ends with a newline and is valid in   *)
(* the locale.                                                             *)
(***************************************************************************)
EXTENDS Integers

CONSTANTS
    Size,      \* the size of str1, str2 and china_str
    MaxLines   \* bound: the lines of list.txt

ASSUME BufferSizeAssumption  == Size \in Nat /\ Size >= 2
ASSUME LinesAssumption == MaxLines \in Nat

VARIABLES
    pc,             \* where main is
    file,           \* list.txt: [length, chars] of each line
    lines,          \* the number of its lines
    n,              \* how many of them have been drawn
    china_str,      \* china_str
    char_i, char_j  \* the column and the row of the next name

vars == <<pc, file, lines, n, china_str, char_i, char_j>>

(* A name of length characters, narrow if all are of one byte; its bytes,  *)
(* the newline and the null fill at most str1.                             *)
Names  == [length : 0..Size - 2, chars : {"narrow"}]
              \union [length : 1..Size - 3, chars : {"wide"}]
Places == 1..Size

Init ==
    /\ pc = "open"
    /\ lines \in 0..MaxLines /\ file \in [1..lines -> Names]
    /\ n = 0
    /\ china_str = [p \in Places |-> 0]
    /\ char_i = 0 /\ char_j = 0

(* A missing list.txt is not noticed: fgets gets a null pointer.           *)
Open ==
    /\ pc = "open"
    /\ pc' \in {"draw", "crashed"}
    /\ UNCHANGED <<file, lines, n, china_str, char_i, char_j>>

(* Mutant: mbstowcs is given one character less.                           *)
ConvertLess(name, line) ==
    [p \in Places |-> IF p < name.length THEN line
                      ELSE IF p = name.length + 1 /\ name.chars = "wide" THEN 0 ELSE china_str[p]]

Convert(name, line) ==
    [p \in Places |-> IF p <= name.length THEN line
                      ELSE IF p = name.length + 1 /\ name.chars = "wide" THEN 0 ELSE china_str[p]]

NextCell ==
    \/ char_i = 2 /\ char_i' = 0 /\ char_j' = char_j + 1
    \/ char_i < 2 /\ char_i' = char_i + 1 /\ UNCHANGED char_j

Draw ==
    /\ pc = "draw" /\ n < lines
    /\ china_str' = Convert(file[n + 1], n + 1)
    /\ n' = n + 1
    /\ NextCell
    /\ UNCHANGED <<pc, file, lines>>

EndOfFile ==
    /\ pc = "draw" /\ n = lines
    /\ pc' = "return"
    /\ UNCHANGED <<file, lines, n, china_str, char_i, char_j>>

Ended == pc \in {"return", "crashed"} /\ UNCHANGED vars

Next == Open \/ Draw \/ EndOfFile \/ Ended

Spec == Init /\ [][Next]_vars
-----------------------------------------------------------------------------
(* What is drawn: the places before the first null.                        *)
Shown == {p \in Places : \A q \in 1..p : china_str[q] # 0}

TypeOK ==
    /\ pc \in {"open", "draw", "return", "crashed"}
    /\ lines \in 0..MaxLines /\ file \in [1..lines -> Names]
    /\ n \in 0..lines
    /\ china_str \in [Places -> 0..n] /\ china_str[Size] = 0
    /\ char_i \in 0..2 /\ n = 3 * char_j + char_i

(* A character of another name than the last one is drawn only behind its  *)
(* end, only if the last name has no wide character, and it is from the    *)
(* latest name that reached its place.                                     *)
TailIsOld ==
    \A p \in Shown :
        LET m == china_str[p]
        IN  /\ p <= file[m].length
            /\ m < n => p > file[n].length /\ file[n].chars = "narrow"
            /\ \A k \in m + 1..n : file[k].length < p

(* A name is drawn as it is if it has a wide character or no earlier one   *)
(* was longer.                                                             *)
ExactNames ==
    n > 0 /\ (file[n].chars = "wide" \/ \A m \in 1..n - 1 : file[m].length <= file[n].length)
    => Shown = 1..file[n].length

(* A name without wide characters is drawn with the tail of the longer     *)
(* name before it.                                                         *)
TailIsShown ==
    n > 1 /\ file[n].chars = "narrow" /\ file[n - 1].length > file[n].length
    => 1..file[n - 1].length \subseteq Shown
=============================================================================

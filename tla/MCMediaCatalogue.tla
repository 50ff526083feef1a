-------------------------- MODULE MCMediaCatalogue --------------------------
(* An instance of MediaCatalogue for TLC: names of a file that comes with  *)
(* the program, of a numbered take, and one that begins with another.       *)
EXTENDS MediaCatalogue

(* What a message gives is a text, a sequence of parts.                    *)
ASSUME StemsAssumption ==
    \A s \in Stems : Len(s) \in Nat /\ s = [j \in 1..Len(s) |-> s[j]]

MCStems == {<<"song">>, <<"train">>, <<"mine">>, <<"mine", ".wav">>, <<"capture", 1>>}
=============================================================================

--------------------------- MODULE MediaCatalogue ---------------------------
(***************************************************************************)
(* The media lists of the hub (33_mqtt/mqttclient.c, list_init and the     *)
(* play and capture branches of messagearrive).  What can be played is the *)
(* files that come with the program and the takes of this run: sounds,     *)
(* films and pictures.  A take is written to a file with the name the      *)
(* message gives or, told none, with a number; the lists and the numbers   *)
(* are lost when the hub ends, the files are not.  The recorder of sounds  *)
(* (28_audio/pcm_poll_capture.c) does not write over a file that exists.   *)
(*                                                                         *)
(* A name is a sequence of parts: <<"capture", 1, ".wav">>.  A file holds  *)
(* the take that was written to it last, 0 if it came with the program.    *)
(***************************************************************************)
EXTENDS Integers, Sequences, SequencesExt

CONSTANTS
    Stems,    \* the names given in messages, without the extension
    Places,   \* places of a list (10)
    MaxTakes, \* bound: the takes looked at
    MaxRuns   \* bound: the runs of the hub

Media == {"audio", "video", "picture"}
Ext   == [ audio |-> ".wav", video |-> ".avi", picture |-> ".jpg" ]

(* The lists that come with the program: those looked through before the   *)
(* list that takes are added to, what this one begins with, and those      *)
(* after it.                                                               *)
Before == [ audio |-> <<<<"song", ".wav">>, <<"tune", ".wav">>>>, video |-> <<>>,
            picture |-> <<<<"train", ".bmp">>>> ]
First  == [ audio |-> <<>>, video |-> <<>>,
            picture |-> <<<<"book", ".jpeg">>, <<"smile", ".jpeg">>, <<"plant", ".jpeg">>>> ]
After  == [ audio |-> <<>>, video |-> <<>>,
            picture |-> <<<<"planet", ".png">>, <<"tree", ".bmp">>, <<"garden", ".bmp">>>> ]

VARIABLES
    medium,    \* the medium looked at
    run,       \* the run of the hub
    list,      \* audio_format3_list, video_list or picture_jpeg_list
    number,    \* audio_capture_format3_count, video_capture_count, picture_capture_jpeg_count
    capturing, \* audio_capture_status
    broken,    \* a name was written behind the end of the list
    disk,      \* the files: name -> take
    takes,     \* history: name, run, whether the name was given and the file made
    heard      \* the last play: what was asked for, which file it was and the take in it

vars == <<medium, run, list, number, capturing, broken, disk, takes, heard>>

Nothing == [asked |-> <<>>, file |-> <<>>, take |-> -1]

list_init == list = First[medium]

Originals(m) == [ f \in {(Before[m] \o First[m] \o After[m])[i] :
                            i \in 1..Len(Before[m] \o First[m] \o After[m])} |-> 0 ]

Init ==
    /\ medium \in Media /\ run = 1
    /\ list_init /\ number = 0 /\ capturing = FALSE /\ broken = FALSE
    /\ disk = Originals(medium)
    /\ takes = <<>> /\ heard = Nothing
-----------------------------------------------------------------------------
Works == ~broken /\ run <= MaxRuns

(* Mutant: a recorder of sounds that truncates a file which exists.        *)
RefusedNever(name) == FALSE

(* The recorder of sounds opens its file with O_CREAT and O_EXCL: where    *)
(* there is one of this name it ends.                                      *)
Refused(name) == medium = "audio" /\ name \in DOMAIN disk

(* The capture branch, once the name is known.  The program is started and *)
(* the name put on the list; a program that fails or is refused makes no   *)
(* file, one for films or pictures may write over one.  A list that is     *)
(* full is written behind its end, and anything may happen.                *)
Take(name, given) ==
    /\ Works /\ Len(takes) < MaxTakes
    /\ \E made \in BOOLEAN :
          /\ made => ~Refused(name)
          /\ takes' = Append(takes, [name |-> name, run |-> run, given |-> given, made |-> made])
          /\ disk' = IF made
                     THEN [f \in DOMAIN disk \union {name} |->
                              IF f = name THEN Len(takes) + 1 ELSE disk[f]]
                     ELSE disk
    /\ IF Len(list) < Places
       THEN list' = Append(list, name) /\ UNCHANGED broken
       ELSE broken' = TRUE /\ UNCHANGED list
    /\ heard' = Nothing

(* Mutant: the number is not raised.                                       *)
TakeNumberedSame ==
    /\ medium = "audio" => ~capturing
    /\ Take(<<"capture", number + 1, Ext[medium]>>, FALSE)
    /\ number' = number
    /\ capturing' = (medium = "audio")
    /\ UNCHANGED <<medium, run>>

(* A message without a name.                                               *)
TakeNumbered ==
    /\ medium = "audio" => ~capturing
    /\ number' = number + 1
    /\ Take(<<"capture", number', Ext[medium]>>, FALSE)
    /\ capturing' = (medium = "audio")
    /\ UNCHANGED <<medium, run>>

(* A message with one; for sounds, the word that ends a take is one, too,  *)
(* when there is no take to end.                                           *)
TakeNamed ==
    /\ medium = "audio" => ~capturing
    /\ \E stem \in Stems : Take(stem \o <<Ext[medium]>>, TRUE)
    /\ capturing' = (medium = "audio")
    /\ UNCHANGED <<medium, run, number>>

(* Only sounds are taken until a message ends them.                        *)
EndTake ==
    /\ Works /\ capturing /\ capturing' = FALSE
    /\ UNCHANGED <<medium, run, list, number, broken, disk, takes, heard>>
-----------------------------------------------------------------------------
(* The play branch: the first name that begins with the payload.           *)
Playable == Before[medium] \o list \o After[medium]

Play ==
    /\ Works
    /\ \E payload \in {<<>>} \union Stems \union DOMAIN disk :
         LET found == {n \in 1..Len(Playable) : IsPrefix(payload, Playable[n])}
             first == CHOOSE n \in found : \A m \in found : n <= m
         IN  heard' = IF found = {} THEN [Nothing EXCEPT !.asked = payload]
                      ELSE [asked |-> payload, file |-> Playable[first],
                            take |-> IF Playable[first] \in DOMAIN disk
                                     THEN disk[Playable[first]] ELSE -1]
    /\ UNCHANGED <<medium, run, list, number, capturing, broken, disk, takes>>

(* The hub ends, for whatever reason, and is started again.                *)
Restart ==
    /\ run <= MaxRuns /\ run' = run + 1
    /\ list' = First[medium] /\ number' = 0 /\ capturing' = FALSE /\ broken' = FALSE
    /\ heard' = Nothing
    /\ UNCHANGED <<medium, disk, takes>>

Over == run > MaxRuns /\ UNCHANGED vars

Next == TakeNumbered \/ TakeNamed \/ EndTake \/ Play \/ Restart \/ Over

Spec == Init /\ [][Next]_vars
-----------------------------------------------------------------------------
(* Where a take finds the name of another one of them is lost: a film or a *)
(* picture that is written over, or a sound that is refused.  That happens *)
(* to numbered ones only if the name is given in a message as well or by   *)
(* the same number of another run; in one run two numbers never meet.      *)
NumbersDiffer ==
    \A a, b \in 1..Len(takes) :
        a < b /\ takes[a].name = takes[b].name =>
            takes[a].given \/ takes[b].given \/ takes[a].run # takes[b].run

(* Who asks for a take by its whole name gets the last one made under that *)
(* name, or a file whose longer name begins with this one.  A hub that was *)
(* started again may find nothing, but never another take: a name that is  *)
(* on its new list stands for the file of the run before if the new take   *)
(* has made none.                                                          *)
LastTakeHeard ==
    \A n \in 1..Len(takes) :
        LET t == takes[n]
            last == \A m \in n + 1..Len(takes) : takes[m].name # t.name \/ ~takes[m].made
        IN  heard.asked = t.name /\ t.made /\ last =>
                \/ heard.take = n
                \/ t.run < run /\ heard.file = <<>>
                \/ heard.file # t.name /\ IsStrictPrefix(t.name, heard.file)

(* A sound that was recorded stays in its file, whatever is recorded under *)
(* its name later, in this run or another.                                 *)
SoundsStay ==
    medium = "audio" =>
        \A n \in 1..Len(takes) :
            takes[n].made => takes[n].name \in DOMAIN disk /\ disk[takes[n].name] = n

(* A take is heard again under the name it was given.                      *)
HeardAsTaken == NumbersDiffer /\ LastTakeHeard /\ SoundsStay
=============================================================================

------------------------------- MODULE MCInput -------------------------------
(* Instances of EventReaders and of SocketChat for TLC.  A behaviour is    *)
(* one of the programs that read mouse and keyboard or one of a pair of    *)
(* server and client; the other stays as it began.                         *)
EXTENDS EventReaders

CONSTANTS BufRoom, MaxSent

VARIABLES which, pair, server, client, sent, ends, got, buf, begun

svars == <<pair, server, client, sent, ends, got, buf, begun>>

S == INSTANCE SocketChat

(* The programs are those of EventReaders, and there is room to read into. *)
ASSUME InputAssumption ==
    /\ Programs \subseteq DOMAIN Text
    /\ Chunk \in Nat \ {0} /\ Reports \in Nat
    /\ BufRoom \in Nat \ {0} /\ MaxSent \in Nat

MCInit ==
    /\ Init /\ S!Init
    /\ \/ which = "events" /\ pair = "plain"
       \/ which = "socket" /\ prog = "pollio"

MCNext ==
    /\ UNCHANGED which
    /\ \/ which = "events" /\ Next /\ UNCHANGED svars
       \/ which = "socket" /\ S!Next /\ UNCHANGED vars

(* main, the handlers and the server run; nobody need move the mouse, type *)
(* or start a client.                                                      *)
MCSpec ==
    /\ MCInit /\ [][MCNext]_<<which, vars, svars>>
    /\ WF_vars(which = "events" /\ Main)
    /\ WF_vars(which = "events" /\ Handlers)
    /\ WF_svars(which = "socket" /\ (S!Listen \/ S!Accept \/ S!Receive \/ S!ReceiveEnd))

(* The server understands the exit line if a recv begins with it, and      *)
(* takes nothing else for it where a recv begins with a piece.             *)
ExitUnderstood == S!ExitUnderstood

(* Whoever polls reads everything that comes, and a server takes notice of *)
(* the end of its client.                                                  *)
InputFollowed == EverythingRead /\ S!ServerFollows
=============================================================================

----------------------------- MODULE SocketChat -----------------------------
(***************************************************************************)
(* The two pairs of 30_socket: server.c and client.c, which sends the      *)
(* lines it reads from the standard input, and server_get_internetip.c and *)
(* client_get_internetip.c, which sends what its empty buffer holds,       *)
(* nothing.                                                                *)
(*                                                                         *)
(* A line is sent in one send or, when it is longer than buf, in several:  *)
(* what fgets returns is a piece.  Text is modelled by units, three of     *)
(* which may be the last: <<"e", "x">> stands for "exit\n" and is the last *)
(* of a piece that ends with it; "t" stands for other text.  TCP keeps the *)
(* order of the units but not where a piece ends: recv returns any number  *)
(* of the units that are there.                                            *)
(***************************************************************************)
EXTENDS Integers, Sequences

CONSTANTS
    BufRoom,    \* units that fit into the server's buf; one less fit into a piece
    MaxSent  \* bound: the units sent

ExitLine == <<"e", "x">>
Pieces   == {p \in {ExitLine, <<"t">>, <<"t">> \o ExitLine} : Len(p) < BufRoom}

VARIABLES
    pair,     \* "plain" or "internet"
    server,   \* "off", "listening", "serving" or how it ended
    client,   \* "off", "connected", "failed" before that, or how it ended
    sent,     \* history: the units sent
    ends,     \* history: the lengths of sent after each send
    got,      \* the number of units received
    buf,      \* the units in the server's buf
    begun     \* history: what got was when the last recv with text began

vars == <<pair, server, client, sent, ends, got, buf, begun>>

ServerEnds == {"return", "error", "killed"}
ClientEnds == {"return", "error", "killed"}

Init ==
    /\ pair \in {"plain", "internet"}
    /\ server = "off" /\ client = "off"
    /\ sent = <<>> /\ ends = {0} /\ got = 0 /\ buf = <<>> /\ begun = 0

dataVars == <<pair, sent, ends, got, buf, begun>>
-----------------------------------------------------------------------------
(* socket, bind and listen; accept; inet_ntop.                             *)
Listen ==
    /\ server = "off" /\ server' \in {"listening", "error"}
    /\ UNCHANGED <<client, dataVars>>

Accept ==
    /\ server = "listening" /\ client \notin {"off", "failed"} /\ server' \in {"serving", "error"}
    /\ UNCHANGED <<client, dataVars>>

(* socket, bind and connect, which is refused if nobody listens.           *)
Connect ==
    /\ client = "off" /\ server # "off"
    /\ client' \in {"failed"} \union (IF server = "listening" THEN {"connected"} ELSE {})
    /\ UNCHANGED <<server, dataVars>>
-----------------------------------------------------------------------------
Here == server \in {"listening", "serving"}

(* A send to a server that has closed is lost; once the client has been    *)
(* told so one gives -1, which ends either client, or it gets SIGPIPE.     *)
SendPiece ==
    /\ client = "connected" /\ pair = "plain"
    /\ \E p \in Pieces :
        /\ Len(sent) + Len(p) <= MaxSent
        /\ \/ /\ sent' = sent \o p /\ ends' = ends \union {Len(sent')}
              /\ client' = IF p = ExitLine THEN "return" ELSE client
           \/ ~Here /\ client' \in {"killed", "error"} /\ UNCHANGED <<sent, ends>>
    /\ UNCHANGED <<pair, server, got, buf, begun>>

(* At the end of the input buf stays empty: sending nothing gives 0, which *)
(* is an error to client and none to client_get_internetip.                *)
SendNothing ==
    /\ client = "connected"
    /\ \/ pair = "plain" /\ client' = "error"
       \/ pair = "internet" /\ UNCHANGED client
       \/ ~Here /\ client' \in {"killed", "error"}
    /\ UNCHANGED <<server, dataVars>>

KillClient ==
    /\ client = "connected" /\ client' = "killed"
    /\ UNCHANGED <<server, dataVars>>
-----------------------------------------------------------------------------
(* The loop of the server.                                                 *)
(* Mutant: the exit line is looked for at the end of buf (strstr).         *)
ReceiveContains ==
    /\ server = "serving" /\ got < Len(sent)
    /\ \E n \in 1..BufRoom :
        /\ got + n <= Len(sent)
        /\ got' = got + n
        /\ buf' = SubSeq(sent, got + 1, got + n)
    /\ begun' = got
    /\ server' = IF pair = "plain" /\ \E k \in 0..Len(buf') : SubSeq(buf', k + 1, Len(buf')) = ExitLine
                  THEN "return" ELSE server
    /\ UNCHANGED <<pair, client, sent, ends>>

Receive ==
    /\ server = "serving" /\ got < Len(sent)
    /\ \E n \in 1..BufRoom :
        /\ got + n <= Len(sent)
        /\ got' = got + n
        /\ buf' = SubSeq(sent, got + 1, got + n)
    /\ begun' = got
    /\ server' = IF pair = "plain" /\ buf' = ExitLine THEN "return" ELSE server
    /\ UNCHANGED <<pair, client, sent, ends>>

(* The client has closed: recv gives 0, which only server.c looks for.     *)
ReceiveEnd ==
    /\ server = "serving" /\ got = Len(sent) /\ client \in ClientEnds
    /\ buf' = <<>>
    /\ server' = IF pair = "plain" THEN "error" ELSE server
    /\ UNCHANGED <<pair, client, sent, ends, got, begun>>

(* The connection is reset with the client's death, or a signal comes.     *)
ReceiveFails ==
    /\ server = "serving" /\ client = "killed" /\ server' = "error"
    /\ UNCHANGED <<client, dataVars>>

KillServer ==
    /\ Here /\ server' = "killed"
    /\ UNCHANGED <<client, dataVars>>

Server == Listen \/ Accept \/ Receive \/ ReceiveEnd \/ ReceiveFails

Client == Connect \/ SendPiece \/ SendNothing \/ KillClient

(* Both have ended, or the server waits for another client.                *)
Over ==
    /\ server \in ServerEnds \union {"listening"} /\ client \in ClientEnds \union {"failed"}
    /\ server = "listening" => client = "failed"
    /\ UNCHANGED vars

Next == Server \/ Client \/ KillServer \/ Over

Spec == Init /\ [][Next]_vars

(* The server is scheduled; nobody need type, start or stop a client.      *)
FairSpec == Spec /\ WF_vars(Listen \/ Accept \/ Receive \/ ReceiveEnd)
-----------------------------------------------------------------------------
(* What came before does not matter to how the last recv is understood.    *)
(* If that began where a piece begins, the server takes its leave only     *)
(* from a client that has, and has read all.  If it began with the exit    *)
(* line and took all, the server does not miss it.  It fills buf, which is *)
(* then printed beyond its end, only with units of several pieces.         *)
ExitUnderstood ==
    /\ server = "return" /\ begun \in ends => client = "return" /\ got = Len(sent)
    /\ server = "error" /\ client = "return" /\ got = Len(sent) => begun # Len(sent) - Len(ExitLine)
    /\ Len(buf) = BufRoom => \E e \in ends : begun < e /\ e < got

(* A server of the plain pair ends once its client has, whichever way.     *)
ServerFollows ==
    (pair = "plain" /\ server = "serving" /\ client \in ClientEnds) ~> (server \in ServerEnds)
=============================================================================

----------------------------- MODULE MqttSession -----------------------------
(***************************************************************************)
(* The life of the MQTT session in main of 33_mqtt/mqttclient.c: connect   *)
(* with a will and cleansession = 0, announce "online", make the           *)
(* subscriptions in order, publish for ever, and on any failure undo what  *)
(* was made through a chain of goto labels, disconnect and end.            *)
(*                                                                         *)
(* The broker keeps the subscriptions of the client and the retained       *)
(* status message when the connection or the program ends; the program may *)
(* be killed at any moment and be started again.  The network may break    *)
(* without either side knowing: the broker still holds the connection (and *)
(* the will) until it times out or the same client id connects again.      *)
(*                                                                         *)
(* What messagearrive does with the messages is module MqttHub.            *)
(***************************************************************************)
EXTENDS Integers, Sequences, FiniteSets

CONSTANTS
    Order,    \* the topics, in the order main subscribes to them
    MaxRuns   \* bound: how often the program is started

VARIABLES
    pc,      \* main: the call it makes next
    k,       \* main: how far along Order; the labels of the goto chain
    link,    \* this run's connection: "none", "up", "broken" or "lost"
    made,    \* history: the topics subscribed to in this run
    subs,    \* broker: the subscriptions of the client's session
    status,  \* broker: the retained message of the will topic; "unexpected" is the
             \* will, "unexpected disconnect"
    ghost,   \* broker: a connection it takes for alive although it is dead
    runs     \* how often the program was started (bound only)

vars == <<pc, k, link, made, subs, status, ghost, runs>>

N      == Len(Order)
Topics == {Order[j] : j \in 1..N}

Init ==
    /\ pc = "ended" /\ k = 0 /\ link = "none" /\ made = {}
    /\ subs = {} /\ status = "none" /\ ghost = FALSE /\ runs = 0
-----------------------------------------------------------------------------
Start ==
    /\ pc = "ended" /\ link = "none" /\ runs < MaxRuns
    /\ pc' = "connect" /\ k' = 0 /\ made' = {}
    /\ runs' = runs + 1
    /\ UNCHANGED <<link, subs, status, ghost>>

(* Creating the client, setting the callbacks or connecting fails.         *)
ConnectFails ==
    /\ pc = "connect"
    /\ pc' = "ended"
    /\ UNCHANGED <<k, link, made, subs, status, ghost, runs>>

(* CONNECT with the client id of a connection the broker still holds ends  *)
(* that connection, so its will is published first.                        *)
Connect ==
    /\ pc = "connect"
    /\ pc' = "online" /\ link' = "up"
    /\ status' = IF ghost THEN "unexpected" ELSE status
    /\ ghost' = FALSE
    /\ UNCHANGED <<k, made, subs, runs>>

(* Mutant: main goes on without the announcement.                          *)
AnnounceNothing ==
    /\ pc = "online"
    /\ pc' = "subscribe"
    /\ UNCHANGED <<k, link, made, subs, status, ghost, runs>>

(* A QoS 0 publish is written to the socket: it reaches the broker while   *)
(* the link is up, vanishes when the break has not been noticed yet, and   *)
(* fails when it has.                                                      *)
AnnounceOnline ==
    /\ pc = "online"
    /\ \/ link = "up" /\ status' = "online" /\ pc' = "subscribe"
       \/ link = "broken" /\ pc' \in {"subscribe", "disconnect"} /\ UNCHANGED status
       \/ link \in {"up", "lost"} /\ pc' = "disconnect" /\ UNCHANGED status
    /\ UNCHANGED <<k, link, made, subs, ghost, runs>>

Subscribed ==
    /\ pc = "subscribe" /\ k < N /\ link = "up"
    /\ subs' = subs \cup {Order[k + 1]}
    /\ made' = made \cup {Order[k + 1]}
    /\ k' = k + 1
    /\ pc' = IF k + 1 = N THEN "publish" ELSE "subscribe"
    /\ UNCHANGED <<link, status, ghost, runs>>

(* Mutant: the goto of a failed subscription lands one label too low.      *)
SubscribeFailsLabelTooLow ==
    /\ pc = "subscribe" /\ k < N
    /\ pc' = "unsubscribe"
    /\ k' = IF k > 0 THEN k - 1 ELSE k
    /\ link' = IF link = "up" THEN "up" ELSE "lost"
    /\ UNCHANGED <<made, subs, status, ghost, runs>>

(* The broker refuses, or the link is dead: unwind from the topic before.  *)
SubscribeFails ==
    /\ pc = "subscribe" /\ k < N
    /\ pc' = "unsubscribe"
    /\ link' = IF link = "up" THEN "up" ELSE "lost"
    /\ UNCHANGED <<k, made, subs, status, ghost, runs>>

(* The broker has subscribed but its answer never comes: the library       *)
(* closes the connection, with or without the broker hearing a goodbye.    *)
SubscribeUnanswered ==
    /\ pc = "subscribe" /\ k < N /\ link = "up"
    /\ subs' = subs \cup {Order[k + 1]}
    /\ pc' = "unsubscribe" /\ link' = "lost"
    /\ ghost' \in BOOLEAN
    /\ UNCHANGED <<k, made, status, runs>>

(* Mutant: the result of the publication is not looked at.                 *)
PublishUnchecked ==
    /\ pc = "publish"
    /\ UNCHANGED vars

(* The temperature, every 30 s; an error unwinds from the last topic.  So  *)
(* does the waitpid error of the same loop (WaitError of MqttHub), which   *)
(* happens on a link that is up.                                           *)
Publish ==
    /\ pc = "publish"
    /\ \/ link \in {"up", "broken"} /\ UNCHANGED pc
       \/ pc' = "unsubscribe"
    /\ UNCHANGED <<k, link, made, subs, status, ghost, runs>>

(* One label of the chain; its result is not looked at.                    *)
Unsubscribe ==
    /\ pc = "unsubscribe" /\ k > 0
    /\ subs' = IF link = "up" THEN subs \ {Order[k]} ELSE subs
    /\ link' = IF link = "up" THEN "up" ELSE "lost"
    /\ k' = k - 1
    /\ UNCHANGED <<pc, made, status, ghost, runs>>

UnsubscribedAll ==
    /\ pc = "unsubscribe" /\ k = 0
    /\ pc' = "disconnect"
    /\ UNCHANGED <<k, link, made, subs, status, ghost, runs>>

(* A DISCONNECT that reaches the broker makes it forget the will: the      *)
(* retained "online" stays.                                                *)
Disconnect ==
    /\ pc = "disconnect"
    /\ pc' = "ended" /\ link' = "none"
    /\ UNCHANGED <<k, made, subs, status, ghost, runs>>
-----------------------------------------------------------------------------
(* The network breaks and nobody knows yet.                                *)
LinkBreaks ==
    /\ link = "up"
    /\ link' = "broken" /\ ghost' = TRUE
    /\ UNCHANGED <<pc, k, made, subs, status, runs>>

(* connectlose only prints: no reconnection, main is not told.             *)
ConnectLose ==
    /\ link = "broken"
    /\ link' = "lost"
    /\ UNCHANGED <<pc, k, made, subs, status, ghost, runs>>

(* The broker gives a silent connection up and publishes its will.         *)
BrokerTimeout ==
    /\ ghost
    /\ ghost' = FALSE
    /\ status' = "unexpected"
    /\ UNCHANGED <<pc, k, link, made, subs, runs>>

(* The program is killed.                                                  *)
Killed ==
    /\ pc # "ended"
    /\ pc' = "ended" /\ link' = "none"
    /\ ghost' = (ghost \/ link = "up")
    /\ UNCHANGED <<k, made, subs, status, runs>>
-----------------------------------------------------------------------------
Main == ConnectFails \/ Connect \/ AnnounceOnline \/ Subscribed \/ SubscribeFails
        \/ SubscribeUnanswered \/ Publish \/ Unsubscribe \/ UnsubscribedAll
        \/ Disconnect

Next == Start \/ Main \/ LinkBreaks \/ ConnectLose \/ BrokerTimeout \/ Killed

Spec == Init /\ [][Next]_vars

(* main runs, the library's keep-alive notices a broken link and so does   *)
(* the broker's.  Nothing forces a publication to fail on a link that main *)
(* takes for alive.                                                        *)
MainMustMove == Main /\ (pc = "publish" => link = "lost")

FairSpec == Spec /\ WF_vars(MainMustMove) /\ WF_vars(ConnectLose)
-----------------------------------------------------------------------------
TypeOK ==
    /\ pc \in {"connect", "online", "subscribe", "publish", "unsubscribe",
               "disconnect", "ended"}
    /\ k \in 0..N
    /\ link \in {"none", "up", "broken", "lost"}
    /\ made \subseteq Topics /\ subs \subseteq Topics
    /\ status \in {"none", "online", "unexpected"}
    /\ ghost \in BOOLEAN
    /\ runs \in Nat

(* The goto chain undoes exactly what was made: when main says goodbye on  *)
(* a link that has held all along, the broker's session, which outlives    *)
(* the program, keeps no subscription made in this run, wherever the setup *)
(* failed.                                                                 *)
GoodbyeLeavesNothing == pc = "disconnect" /\ link = "up" => subs \cap made = {}

(* While main publishes, the broker's session has every topic, broken link *)
(* or not: the loop is entered only with all subscriptions made.           *)
LoopHasAllTopics == pc = "publish" => subs = Topics

(* As long as the link holds after the announcement, the retained status   *)
(* says "online": a will left behind by a run that was killed or cut off   *)
(* is never published over it.                                             *)
OnlineWhileLinked ==
    pc \in {"subscribe", "publish", "unsubscribe"} /\ link = "up"
        => status = "online"

(* A lost connection ends the program: nothing reconnects, the next        *)
(* publication fails and the program unwinds.                              *)
LossEndsProgram == (link = "broken") ~> (pc = "ended")

=============================================================================

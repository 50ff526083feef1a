--------------------------- MODULE MqttClientProofs ---------------------------
(***************************************************************************)
(* Proofs about mqttclient.c beside its hub: MqttSession, for every list   *)
(* of topics and every number of starts (what the goto chain undoes and    *)
(* what the retained status says), and MediaCatalogue, for every set of    *)
(* names that messages give, every length of the list and every number of  *)
(* takes and runs.                                                         *)
(***************************************************************************)
EXTENDS MCMqttSession, MCMediaCatalogue, WellFoundedInduction, TLAPS

(***************************************************************************)
(* MqttSession.                                                            *)
(***************************************************************************)
Upto(n) == {Order[j] : j \in 1..n}

(* A connection exists between the connect and the disconnect only, and    *)
(* the broker knows of no other one while it is up.                        *)
LinkInv ==
    /\ pc \in {"connect", "ended"} => link = "none"
    /\ link = "up" => ~ghost
    /\ pc \in {"subscribe", "publish", "unsubscribe"} /\ link = "up"
          => status = "online"

(* The label of the goto chain covers what this run has subscribed to.     *)
UnwindInv ==
    /\ pc \in {"connect", "online"} => k = 0 /\ made = {}
    /\ pc \in {"subscribe", "publish", "unsubscribe"} /\ link = "up"
          => subs \cap made \subseteq Upto(k)
    /\ pc = "disconnect" /\ link = "up" => subs \cap made = {}
    /\ pc = "subscribe" => Upto(k) \subseteq subs
    /\ pc = "publish" => subs = S!Topics

SessionInv == S!TypeOK /\ LinkInv /\ UnwindInv

LEMMA TopicCount == S!N \in Nat /\ S!N > 0
BY OrderAssumption DEF S!N

LEMMA UptoEnds == Upto(0) = {} /\ Upto(S!N) = S!Topics
BY OrderAssumption DEF S!N, S!Topics, Upto

LEMMA UptoGrows ==
    ASSUME NEW n \in 0..S!N, n < S!N
    PROVE  /\ Upto(n + 1) = Upto(n) \cup {Order[n + 1]}
           /\ Order[n + 1] \in S!Topics
<1>1. n + 1 \in 1..S!N /\ 1..(n + 1) = (1..n) \cup {n + 1}
  BY TopicCount
<1> QED  BY <1>1 DEF Upto, S!Topics

LEMMA UptoShrinks ==
    ASSUME NEW n \in 1..S!N
    PROVE  Upto(n) \ {Order[n]} \subseteq Upto(n - 1)
<1>1. \A j \in 1..n : j = n \/ j \in 1..(n - 1)
  BY TopicCount
<1> QED  BY <1>1 DEF Upto

LEMMA SessionInit == S!Init => SessionInv
<1> SUFFICES ASSUME S!Init PROVE SessionInv
  OBVIOUS
<1>1. ghost \in BOOLEAN
  BY Zenon DEF S!Init
<1>2. S!TypeOK
  BY <1>1, TopicCount DEF S!Init, S!TypeOK
<1>3. LinkInv /\ UnwindInv
  BY DEF S!Init, LinkInv, UnwindInv
<1> QED  BY <1>2, <1>3 DEF SessionInv

LEMMA SessionTypes == SessionInv /\ [S!Next]_(S!vars) => S!TypeOK'
<1> SUFFICES ASSUME S!TypeOK, [S!Next]_(S!vars) PROVE S!TypeOK'
  BY DEF SessionInv
<1> USE TopicCount DEF S!TypeOK
<1>1. CASE S!Start \/ S!ConnectFails \/ S!Connect
  <2>1. ghost' \in BOOLEAN
    BY <1>1, Zenon DEF S!Start, S!ConnectFails, S!Connect
  <2> QED
    BY <1>1, <2>1 DEF S!Start, S!ConnectFails, S!Connect
<1>2. CASE S!AnnounceOnline \/ S!Publish \/ S!UnsubscribedAll \/ S!Disconnect
  BY <1>2 DEF S!AnnounceOnline, S!Publish, S!UnsubscribedAll, S!Disconnect
<1>3. CASE S!Subscribed \/ S!SubscribeFails \/ S!SubscribeUnanswered
  BY <1>3, UptoGrows DEF S!Subscribed, S!SubscribeFails, S!SubscribeUnanswered
<1>4. CASE S!Unsubscribe
  BY <1>4 DEF S!Unsubscribe
<1>5. CASE S!LinkBreaks \/ S!ConnectLose \/ S!BrokerTimeout \/ S!Killed \/ UNCHANGED S!vars
  <2>1. ghost' \in BOOLEAN
    BY <1>5, Zenon DEF S!LinkBreaks, S!ConnectLose, S!BrokerTimeout, S!Killed, S!vars
  <2> QED
    BY <1>5, <2>1 DEF S!LinkBreaks, S!ConnectLose, S!BrokerTimeout, S!Killed, S!vars
<1> QED
  BY <1>1, <1>2, <1>3, <1>4, <1>5 DEF S!Next, S!Main

LEMMA SessionLink == SessionInv /\ [S!Next]_(S!vars) => LinkInv'
<1> SUFFICES ASSUME S!TypeOK, LinkInv, [S!Next]_(S!vars) PROVE LinkInv'
  BY DEF SessionInv
<1> USE DEF LinkInv, S!TypeOK
<1>1. CASE S!Start \/ S!ConnectFails \/ S!Connect
  BY <1>1 DEF S!Start, S!ConnectFails, S!Connect
<1>2. CASE S!AnnounceOnline \/ S!Publish \/ S!UnsubscribedAll \/ S!Disconnect
  BY <1>2 DEF S!AnnounceOnline, S!Publish, S!UnsubscribedAll, S!Disconnect
<1>3. CASE S!Subscribed \/ S!SubscribeFails \/ S!SubscribeUnanswered
  BY <1>3 DEF S!Subscribed, S!SubscribeFails, S!SubscribeUnanswered
<1>4. CASE S!Unsubscribe
  BY <1>4 DEF S!Unsubscribe
<1>5. CASE S!LinkBreaks \/ S!ConnectLose \/ S!BrokerTimeout \/ S!Killed \/ UNCHANGED S!vars
  BY <1>5 DEF S!LinkBreaks, S!ConnectLose, S!BrokerTimeout, S!Killed, S!vars
<1> QED
  BY <1>1, <1>2, <1>3, <1>4, <1>5 DEF S!Next, S!Main

LEMMA SessionUnwind == SessionInv /\ [S!Next]_(S!vars) => UnwindInv'
<1> SUFFICES ASSUME S!TypeOK, LinkInv, UnwindInv, [S!Next]_(S!vars) PROVE UnwindInv'
  BY DEF SessionInv
<1>1. CASE S!Start \/ S!ConnectFails \/ S!Connect
  BY <1>1 DEF S!Start, S!ConnectFails, S!Connect, UnwindInv
<1>2. CASE S!AnnounceOnline
  BY <1>2, UptoEnds DEF S!AnnounceOnline, UnwindInv
<1>3. CASE S!Subscribed
  <2>1. Upto(k + 1) = Upto(k) \cup {Order[k + 1]} /\ k + 1 \in 1..S!N
    BY <1>3, TopicCount, UptoGrows DEF S!Subscribed, S!TypeOK
  <2>2. Upto(k) \subseteq subs /\ subs \cap made \subseteq Upto(k)
    BY <1>3 DEF S!Subscribed, UnwindInv
  <2>3. subs' \cap made' \subseteq Upto(k') /\ Upto(k') \subseteq subs'
    BY <1>3, <2>1, <2>2 DEF S!Subscribed
  <2>4. k' = S!N => subs' = S!Topics
    BY <1>3, <2>3, UptoEnds, TopicCount, UptoGrows DEF S!Subscribed, S!TypeOK
  <2> QED  BY <1>3, <2>3, <2>4 DEF S!Subscribed, UnwindInv
<1>4. CASE S!SubscribeFails \/ S!SubscribeUnanswered
  BY <1>4 DEF S!SubscribeFails, S!SubscribeUnanswered, UnwindInv
<1>5. CASE S!Unsubscribe
  <2>1. k \in 1..S!N
    BY <1>5, TopicCount DEF S!Unsubscribe, S!TypeOK
  <2>2. link' = "up" => subs' = subs \ {Order[k]} /\ link = "up"
    BY <1>5 DEF S!Unsubscribe
  <2>3. link' = "up" => subs' \cap made' \subseteq Upto(k - 1)
    BY <1>5, <2>1, <2>2, UptoShrinks DEF S!Unsubscribe, UnwindInv
  <2> QED  BY <1>5, <2>3 DEF S!Unsubscribe, UnwindInv
<1>6. CASE S!UnsubscribedAll
  BY <1>6, UptoEnds DEF S!UnsubscribedAll, UnwindInv
<1>7. CASE S!Publish \/ S!Disconnect
  BY <1>7 DEF S!Publish, S!Disconnect, UnwindInv
<1>8. CASE S!LinkBreaks \/ S!ConnectLose \/ S!BrokerTimeout \/ S!Killed \/ UNCHANGED S!vars
  BY <1>8 DEF S!LinkBreaks, S!ConnectLose, S!BrokerTimeout, S!Killed, S!vars, UnwindInv
<1> QED
  BY <1>1, <1>2, <1>3, <1>4, <1>5, <1>6, <1>7, <1>8 DEF S!Next, S!Main

LEMMA SessionInvariance == S!Spec => []SessionInv
<1>1. SessionInv /\ [S!Next]_(S!vars) => SessionInv'
  BY SessionTypes, SessionLink, SessionUnwind DEF SessionInv
<1> QED  BY <1>1, SessionInit, PTL DEF S!Spec
-----------------------------------------------------------------------------
(* When main disconnects on a link that held, the broker's session has no  *)
(* subscription made in this run, wherever the setup failed.               *)
THEOREM GoodbyeIsClean == S!Spec => []GoodbyeLeavesNothing
<1>1. SessionInv => GoodbyeLeavesNothing
  BY DEF SessionInv, UnwindInv, GoodbyeLeavesNothing, S!GoodbyeLeavesNothing
<1> QED  BY <1>1, SessionInvariance, PTL

(* The publishing loop is entered with every subscription made.            *)
THEOREM LoopIsComplete == S!Spec => []S!LoopHasAllTopics
<1>1. SessionInv => S!LoopHasAllTopics
  BY DEF SessionInv, UnwindInv, S!LoopHasAllTopics
<1> QED  BY <1>1, SessionInvariance, PTL

(* No will of an earlier run is published over the "online" of a link that *)
(* holds.                                                                  *)
THEOREM StatusIsOnline == S!Spec => []OnlineWhileLinked
<1>1. SessionInv => OnlineWhileLinked
  BY DEF SessionInv, LinkInv, OnlineWhileLinked, S!OnlineWhileLinked
<1> QED  BY <1>1, SessionInvariance, PTL
-----------------------------------------------------------------------------
(***************************************************************************)
(* MediaCatalogue.                                                         *)
(***************************************************************************)
(* The take n is the last one made under its name.                         *)
LastMade(n) ==
    \A m \in n + 1..Len(takes) : takes[m].name # takes[n].name \/ ~takes[m].made

TakeNames ==
    {<<"capture", j, Ext[m]>> : j \in Nat, m \in Media} \cup {s \o <<Ext[m]>> : s \in Stems, m \in Media}

Installed ==
    {<<"song", ".wav">>, <<"tune", ".wav">>, <<"train", ".bmp">>, <<"book", ".jpeg">>,
     <<"smile", ".jpeg">>, <<"plant", ".jpeg">>, <<"planet", ".png">>, <<"tree", ".bmp">>,
     <<"garden", ".bmp">>}

Names == Installed \cup TakeNames

TakeRecords == [name : TakeNames, run : Nat, given : BOOLEAN, made : BOOLEAN]

CatalogueTypes ==
    /\ medium \in Media /\ run \in Nat /\ number \in Nat
    /\ list \in Seq(Names)
    /\ takes \in Seq(TakeRecords)

(* The numbers given in this run are those counted so far.                 *)
NumbersInv ==
    \A n \in 1..Len(takes) :
        /\ takes[n].run <= run
        /\ ~takes[n].given => \E j \in Nat : /\ takes[n].name = <<"capture", j, Ext[medium]>>
                                             /\ takes[n].run = run => j <= number

(* Every take of this run is on the list.                                  *)
ListInv ==
    ~broken => \A n \in 1..Len(takes) :
                   takes[n].run = run => \E i \in 1..Len(list) : list[i] = takes[n].name

(* A file holds the last take made under its name.                         *)
DiskInv ==
    \A n \in 1..Len(takes) :
        takes[n].made /\ LastMade(n) => takes[n].name \in DOMAIN disk /\ disk[takes[n].name] = n

CatalogueInv ==
    CatalogueTypes /\ NumbersInv /\ NumbersDiffer /\ ListInv /\ DiskInv /\ LastTakeHeard
    /\ SoundsStay

(* A set of natural numbers has a least element: what the lookup finds     *)
(* first.                                                                  *)
LEMMA LeastExists ==
    ASSUME NEW T, T \subseteq Nat, T # {}
    PROVE  \E x \in T : \A y \in T : x <= y
<1> DEFINE R == {ss \in Nat \X Nat : ss[1] < ss[2]}
<1>1. IsWellFoundedOn(R, Nat)
  BY NatLessThanWellFounded DEF OpToRel
<1>2. \E x \in T : \A y \in T : ~(<<y, x>> \in R)
  <2> HIDE DEF R
  <2> QED  BY <1>1, WFMin
<1>3. PICK x \in T : \A y \in T : <<y, x>> \notin R
  BY <1>2
<1>4. ASSUME NEW y \in T PROVE x <= y
  <2>1. <<y, x>> \in Nat \X Nat /\ <<y, x>> \notin R
    BY <1>3
  <2>2. <<y, x>>[1] = y /\ <<y, x>>[2] = x /\ x \in Nat /\ y \in Nat
    OBVIOUS
  <2> QED  BY <2>1, <2>2
<1> QED  BY <1>4

(* What is in the middle of three lists is in all of them.                 *)
LEMMA Middle ==
    ASSUME NEW T, NEW a \in Seq(T), NEW b \in Seq(T), NEW c \in Seq(T), NEW i \in 1..Len(b)
    PROVE  /\ Len(a) + i \in 1..Len(a \o b \o c)
           /\ (a \o b \o c)[Len(a) + i] = b[i]
OBVIOUS

(* The lists that come with the program.                                   *)
LEMMA InstalledLists ==
    ASSUME NEW m \in Media
    PROVE  Before[m] \in Seq(Names) /\ First[m] \in Seq(Names) /\ After[m] \in Seq(Names)
<1>1. Before[m] \in Seq(Installed) /\ First[m] \in Seq(Installed) /\ After[m] \in Seq(Installed)
  <2>1. CASE m = "audio"
    BY <2>1 DEF Before, First, After, Installed
  <2>2. CASE m = "video"
    BY <2>2 DEF Before, First, After, Installed
  <2>3. CASE m = "picture"
    <3>1. First[m] = <<<<"book", ".jpeg">>, <<"smile", ".jpeg">>, <<"plant", ".jpeg">>>>
      BY <2>3 DEF First
    <3>2. After[m] = <<<<"planet", ".png">>, <<"tree", ".bmp">>, <<"garden", ".bmp">>>>
      BY <2>3 DEF After
    <3>3. Before[m] = <<<<"train", ".bmp">>>>
      BY <2>3 DEF Before
    <3> QED  BY <3>1, <3>2, <3>3 DEF Installed
  <2> QED  BY <2>1, <2>2, <2>3 DEF Media
<1>2. Seq(Installed) \subseteq Seq(Names)
  BY DEF Names
<1> QED  BY <1>1, <1>2

(* No take has the empty name.                                             *)
LEMMA NamedTakes == ASSUME NEW f \in TakeNames PROVE f # <<>>
<1>1. ASSUME NEW s \in Stems, NEW m \in Media PROVE s \o <<Ext[m]>> # <<>>
  <2>1. s \in Seq({s[j] : j \in 1..Len(s)})
    BY StemsAssumption
  <2>2. Len(s \o <<Ext[m]>>) = Len(s) + 1 /\ Len(s) \in Nat
    BY <2>1
  <2> QED  BY <2>2
<1>2. \A j \in Nat, m \in Media : <<"capture", j, Ext[m]>> # <<>>
  OBVIOUS
<1>3. CASE f \in {<<"capture", j, Ext[m]>> : j \in Nat, m \in Media}
  BY <1>2, <1>3
<1>4. CASE f \in {s \o <<Ext[m]>> : s \in Stems, m \in Media}
  <2> DEFINE name(s, m) == s \o <<Ext[m]>>
  <2>1. f \in {name(s, m) : s \in Stems, m \in Media}
    BY <1>4
  <2>2. \E s \in Stems, m \in Media : f = name(s, m)
    <3> HIDE DEF name
    <3> QED  BY <2>1
  <2> QED  BY <1>1, <2>2
<1> QED  BY <1>3, <1>4 DEF TakeNames

LEMMA CatalogueInit == Init => CatalogueInv
<1> SUFFICES ASSUME Init PROVE CatalogueInv
  OBVIOUS
<1>1. /\ medium \in Media /\ run = 1 /\ list = First[medium] /\ number = 0 /\ takes = <<>>
  BY DEF Init, list_init
<1>2. CatalogueTypes
  BY <1>1, InstalledLists DEF CatalogueTypes
<1>3. NumbersInv /\ NumbersDiffer /\ ListInv /\ DiskInv /\ LastTakeHeard /\ SoundsStay
  BY <1>1 DEF NumbersInv, NumbersDiffer, ListInv, DiskInv, LastTakeHeard, SoundsStay
<1> QED  BY <1>2, <1>3 DEF CatalogueInv

(* A take, given a name or numbered with the next number.                  *)
LEMMA TakeStep ==
    ASSUME CatalogueInv, NEW name \in TakeNames, NEW given \in BOOLEAN, Take(name, given),
           medium' = medium, run' = run, number' \in Nat, number <= number',
           ~given => number' = number + 1 /\ name = <<"capture", number', Ext[medium]>>
    PROVE  CatalogueInv'
<1> DEFINE n == Len(takes) + 1
<1>1. PICK wrote \in BOOLEAN :
          /\ wrote => ~Refused(name)
          /\ takes' = Append(takes, [name |-> name, run |-> run, given |-> given, made |-> wrote])
          /\ disk' = IF wrote
                     THEN [f \in DOMAIN disk \union {name} |-> IF f = name THEN n ELSE disk[f]]
                     ELSE disk
  BY DEF Take
<1> DEFINE last == [name |-> name, run |-> run, given |-> given, made |-> wrote]
<1>2. /\ takes' \in Seq(TakeRecords)
      /\ Len(takes) \in Nat /\ Len(takes') = n /\ takes'[n] = last
      /\ \A m \in 1..Len(takes) : takes'[m] = takes[m]
      /\ 1..n = (1..Len(takes)) \cup {n} /\ n \notin 1..Len(takes)
  BY <1>1 DEF CatalogueInv, CatalogueTypes, TakeRecords
<1>3. /\ ~broken
      /\ \/ list' = Append(list, name)
         \/ list' = list /\ broken' = TRUE
      /\ heard' = Nothing
  BY DEF Take, Works
<1>4. /\ list' \in Seq(Names)
      /\ \A i \in 1..Len(list) : i \in 1..Len(list') /\ list'[i] = list[i]
      /\ ~broken' => \E i \in 1..Len(list') : list'[i] = name
  <2>1. list \in Seq(Names) /\ name \in Names
    BY DEF CatalogueInv, CatalogueTypes, Names
  <2>2. CASE list' = Append(list, name)
    <3>1. Len(list') = Len(list) + 1 /\ list'[Len(list) + 1] = name
      BY <2>1, <2>2
    <3> QED  BY <2>1, <2>2, <3>1
  <2>3. CASE list' = list /\ broken' = TRUE
    BY <2>1, <2>3
  <2> QED  BY <1>3, <2>2, <2>3
<1>5. CatalogueTypes'
  BY <1>2, <1>4 DEF CatalogueInv, CatalogueTypes
<1> HIDE DEF n
<1>6. NumbersInv'
  <2>1. /\ last.run <= run
        /\ ~last.given => \E j \in Nat : last.name = <<"capture", j, Ext[medium]>> /\ j <= number'
    BY DEF CatalogueInv, CatalogueTypes
  <2>2. ASSUME NEW m \in 1..Len(takes)
        PROVE  /\ takes[m].run <= run
               /\ ~takes[m].given =>
                      \E j \in Nat : /\ takes[m].name = <<"capture", j, Ext[medium]>>
                                     /\ takes[m].run = run => j <= number'
    BY DEF CatalogueInv, CatalogueTypes, NumbersInv
  <2> QED  BY <1>2, <2>1, <2>2 DEF NumbersInv
<1>7. NumbersDiffer'
  <2>1. ASSUME NEW a \in 1..Len(takes), takes[a].name = name
        PROVE  takes[a].given \/ given \/ takes[a].run # run
    <3> SUFFICES ASSUME ~takes[a].given, ~given, takes[a].run = run PROVE FALSE
      OBVIOUS
    <3>1. PICK j \in Nat : takes[a].name = <<"capture", j, Ext[medium]>> /\ j <= number
      BY DEF CatalogueInv, NumbersInv
    <3>2. <<"capture", j, Ext[medium]>>[2] = <<"capture", number + 1, Ext[medium]>>[2]
      BY <2>1, <3>1
    <3> QED  BY <3>1, <3>2 DEF CatalogueInv, CatalogueTypes
  <2>2. ASSUME NEW a \in 1..Len(takes), NEW b \in 1..Len(takes), a < b,
               takes[a].name = takes[b].name
        PROVE  takes[a].given \/ takes[b].given \/ takes[a].run # takes[b].run
    BY <2>2 DEF CatalogueInv, NumbersDiffer
  <2>3. ASSUME NEW a \in 1..Len(takes'), NEW b \in 1..Len(takes'), a < b,
               takes'[a].name = takes'[b].name
        PROVE  takes'[a].given \/ takes'[b].given \/ takes'[a].run # takes'[b].run
    <3>1. a \in 1..Len(takes)
      BY <1>2, <2>3 DEF n
    <3>2. CASE b = n
      BY <1>2, <2>1, <2>3, <3>1, <3>2
    <3>3. CASE b \in 1..Len(takes)
      BY <1>2, <2>2, <2>3, <3>1, <3>3
    <3> QED  BY <1>2, <3>2, <3>3
  <2> QED  BY <2>3 DEF NumbersDiffer
<1>8. ListInv'
  <2>1. ASSUME ~broken', NEW m \in 1..Len(takes'), takes'[m].run = run'
        PROVE  \E i \in 1..Len(list') : list'[i] = takes'[m].name
    <3>1. CASE m = n
      BY <1>2, <1>4, <2>1, <3>1
    <3>2. CASE m \in 1..Len(takes)
      <4>1. PICK i \in 1..Len(list) : list[i] = takes[m].name
        BY <1>2, <1>3, <2>1, <3>2 DEF CatalogueInv, ListInv
      <4> QED  BY <1>2, <1>4, <3>2, <4>1
    <3> QED  BY <1>2, <3>1, <3>2
  <2> QED  BY <2>1 DEF ListInv
<1>9. DiskInv'
  <2>1. wrote => name \in DOMAIN disk' /\ disk'[name] = n
    BY <1>1 DEF n
  <2>2. ASSUME NEW m \in 1..Len(takes), takes[m].made, LastMade(m)'
        PROVE  takes[m].name \in DOMAIN disk' /\ disk'[takes[m].name] = m
    <3>1. LastMade(m)
      <4>1. \A i \in m + 1..Len(takes) : i \in m + 1..Len(takes') /\ i \in 1..Len(takes)
        BY <1>2 DEF n
      <4> QED  BY <1>2, <2>2, <4>1 DEF LastMade
    <3>2. n \in m + 1..Len(takes')
      BY <1>2 DEF n
    <3>3. takes[m].name # name \/ ~wrote
      BY <1>2, <2>2, <3>2 DEF LastMade
    <3>4. takes[m].name \in DOMAIN disk /\ disk[takes[m].name] = m
      BY <2>2, <3>1 DEF CatalogueInv, DiskInv
    <3> QED  BY <1>1, <3>3, <3>4
  <2> QED  BY <1>2, <2>1, <2>2 DEF DiskInv
<1>10. LastTakeHeard'
  <2>1. heard'.asked = <<>>
    BY <1>3 DEF Nothing
  <2>2. \A m \in 1..Len(takes') : takes'[m].name # <<>>
    <3>1. ASSUME NEW m \in 1..Len(takes') PROVE takes'[m].name \in TakeNames
      <4>1. takes'[m] \in TakeRecords
        BY <1>5 DEF CatalogueTypes
      <4> QED  BY <4>1 DEF TakeRecords
    <3> QED  BY <3>1, NamedTakes
  <2> QED  BY <2>1, <2>2 DEF LastTakeHeard
<1>11. SoundsStay'
  <2>1. ASSUME medium = "audio", NEW m \in 1..Len(takes), takes[m].made
        PROVE  takes[m].name \in DOMAIN disk' /\ disk'[takes[m].name] = m
    <3>1. takes[m].name \in DOMAIN disk /\ disk[takes[m].name] = m
      BY <2>1 DEF CatalogueInv, SoundsStay
    <3>2. wrote => takes[m].name # name
      BY <1>1, <2>1, <3>1 DEF Refused
    <3> QED  BY <1>1, <3>1, <3>2
  <2>2. wrote => name \in DOMAIN disk' /\ disk'[name] = n
    BY <1>1 DEF n
  <2> QED  BY <1>2, <2>1, <2>2 DEF SoundsStay
<1> QED  BY <1>5, <1>6, <1>7, <1>8, <1>9, <1>10, <1>11 DEF CatalogueInv

LEMMA TakesStep == CatalogueInv /\ (TakeNumbered \/ TakeNamed) => CatalogueInv'
<1> SUFFICES ASSUME CatalogueInv, TakeNumbered \/ TakeNamed PROVE CatalogueInv'
  OBVIOUS
<1>1. medium \in Media /\ number \in Nat
  BY DEF CatalogueInv, CatalogueTypes
<1>2. ASSUME NEW g \in BOOLEAN, g = FALSE,
             Take(<<"capture", number', Ext[medium]>>, g), TakeNumbered
      PROVE  CatalogueInv'
  <2>1. number' = number + 1 /\ medium' = medium /\ run' = run
    BY <1>2 DEF TakeNumbered
  <2>2. <<"capture", number', Ext[medium]>> \in TakeNames
    BY <1>1, <2>1 DEF TakeNames
  <2> QED  BY <1>1, <1>2, <2>1, <2>2, TakeStep
<1>3. ASSUME NEW g \in BOOLEAN, g = TRUE, NEW s \in Stems, Take(s \o <<Ext[medium]>>, g), TakeNamed
      PROVE  CatalogueInv'
  <2>1. number' = number /\ medium' = medium /\ run' = run
    BY <1>3 DEF TakeNamed
  <2>2. s \o <<Ext[medium]>> \in TakeNames
    BY <1>1 DEF TakeNames
  <2>3. ~g => number' = number + 1 /\ s \o <<Ext[medium]>> = <<"capture", number', Ext[medium]>>
    BY <1>3
  <2>4. number' \in Nat /\ number <= number'
    BY <1>1, <2>1
  <2> HIDE DEF CatalogueInv
  <2> QED  BY <1>3, <2>1, <2>2, <2>3, <2>4, TakeStep
<1>4. CASE TakeNumbered
  <2>1. \E g \in BOOLEAN : g = FALSE /\ Take(<<"capture", number', Ext[medium]>>, g)
    BY <1>4, Zenon DEF TakeNumbered
  <2> QED  BY <1>2, <1>4, <2>1
<1>5. CASE TakeNamed
  <2>1. \E g \in BOOLEAN, s \in Stems : g = TRUE /\ Take(s \o <<Ext[medium]>>, g)
    BY <1>5, Zenon DEF TakeNamed
  <2> QED  BY <1>3, <1>5, <2>1
<1> QED  BY <1>4, <1>5

(* What is looked up by the whole name of the last take is this take, or a *)
(* file whose longer name begins with it: the take is on the list, so that *)
(* something is found, and the file holds the last take.                   *)
LEMMA PlayStep == CatalogueInv /\ Play => CatalogueInv'
<1> SUFFICES ASSUME CatalogueInv, Play PROVE CatalogueInv'
  OBVIOUS
<1>1. /\ UNCHANGED <<medium, run, list, number, broken, disk, takes>> /\ ~broken
  BY DEF Play, Works
<1>2. (CatalogueTypes /\ NumbersInv /\ NumbersDiffer /\ ListInv /\ DiskInv /\ SoundsStay)'
  BY <1>1 DEF CatalogueInv, CatalogueTypes, NumbersInv, NumbersDiffer, ListInv, DiskInv, LastMade,
              SoundsStay
<1>3. PICK payload \in {<<>>} \union Stems \union DOMAIN disk :
         LET found == {n \in 1..Len(Playable) : IsPrefix(payload, Playable[n])}
             first == CHOOSE n \in found : \A m \in found : n <= m
         IN  heard' = IF found = {} THEN [Nothing EXCEPT !.asked = payload]
                      ELSE [asked |-> payload, file |-> Playable[first],
                            take |-> IF Playable[first] \in DOMAIN disk
                                     THEN disk[Playable[first]] ELSE -1]
  BY DEF Play
<1> DEFINE found == {n \in 1..Len(Playable) : IsPrefix(payload, Playable[n])}
           first == CHOOSE n \in found : \A m \in found : n <= m
<1>4. heard'.asked = payload
  BY <1>3 DEF Nothing
<1>5. found # {} => first \in found
  <2>1. found \subseteq Nat
    OBVIOUS
  <2>2. found # {} => \E n \in found : \A m \in found : n <= m
    BY <2>1, LeastExists
  <2> QED  BY <2>2
<1>6. ASSUME NEW n \in 1..Len(takes), payload = takes[n].name, takes[n].run = run
      PROVE  found # {}
  <2>1. PICK i \in 1..Len(list) : list[i] = payload
    BY <1>1, <1>6 DEF CatalogueInv, ListInv
  <2>2. Before[medium] \in Seq(Names) /\ list \in Seq(Names) /\ After[medium] \in Seq(Names)
    BY InstalledLists DEF CatalogueInv, CatalogueTypes
  <2>3. /\ Len(Before[medium]) + i \in 1..Len(Playable)
        /\ Playable[Len(Before[medium]) + i] = payload
    <3> DEFINE before == Before[medium]
               after  == After[medium]
    <3>1. before \in Seq(Names) /\ list \in Seq(Names) /\ after \in Seq(Names)
      BY <2>2
    <3>2. Playable = before \o list \o after
      BY DEF Playable
    <3> HIDE DEF before, after
    <3>3. /\ Len(before) + i \in 1..Len(before \o list \o after)
          /\ (before \o list \o after)[Len(before) + i] = list[i]
      BY <3>1, Middle
    <3>4. Len(before) + i \in 1..Len(Playable) /\ Playable[Len(before) + i] = payload
      BY <2>1, <3>2, <3>3
    <3> QED  BY <3>4 DEF before
  <2>4. IsPrefix(payload, payload)
    BY <1>6 DEF IsPrefix
  <2> QED  BY <2>3, <2>4
<1>7. ASSUME NEW n \in 1..Len(takes), payload = takes[n].name, takes[n].made, LastMade(n),
             found # {}
      PROVE  heard'.take = n \/ (heard'.file # payload /\ IsStrictPrefix(payload, heard'.file))
  <2>1. first \in found /\ found # {}
    BY <1>5, <1>7
  <2>2. /\ heard'.file = Playable[first]
        /\ heard'.take = IF Playable[first] \in DOMAIN disk THEN disk[Playable[first]] ELSE -1
    BY <1>3, <2>1
  <2>3. IsPrefix(payload, Playable[first])
    BY <2>1
  <2> HIDE DEF first, found
  <2>4. CASE Playable[first] = payload
    <3>1. payload \in DOMAIN disk /\ disk[payload] = n
      BY <1>7 DEF CatalogueInv, DiskInv
    <3> QED  BY <2>2, <2>4, <3>1
  <2>5. CASE Playable[first] # payload
    BY <2>2, <2>3, <2>5 DEF IsStrictPrefix
  <2> QED  BY <2>4, <2>5
<1>8. ASSUME NEW n \in 1..Len(takes) PROVE takes[n].run < run \/ takes[n].run = run
  <2>1. takes[n] \in TakeRecords /\ run \in Nat
    BY DEF CatalogueInv, CatalogueTypes
  <2>2. takes[n].run <= run
    BY DEF CatalogueInv, NumbersInv
  <2> QED  BY <2>1, <2>2 DEF TakeRecords
<1>9. found = {} => heard'.file = <<>>
  BY <1>3 DEF Nothing
<1>10. LastTakeHeard'
  <2>1. ASSUME NEW n \in 1..Len(takes), payload = takes[n].name, takes[n].made, LastMade(n)
        PROVE  \/ heard'.take = n
               \/ takes[n].run < run /\ heard'.file = <<>>
               \/ heard'.file # payload /\ IsStrictPrefix(payload, heard'.file)
    <3> HIDE DEF found, first
    <3> QED  BY <1>6, <1>7, <1>8, <1>9, <2>1
  <2> HIDE DEF found, first
  <2> QED  BY <1>1, <1>4, <2>1 DEF LastTakeHeard, LastMade
<1> QED  BY <1>2, <1>10 DEF CatalogueInv

(* The lists and the numbers are lost, the files are not.                  *)
LEMMA RestartStep == CatalogueInv /\ Restart => CatalogueInv'
<1> SUFFICES ASSUME CatalogueInv, Restart PROVE CatalogueInv'
  OBVIOUS
<1>1. /\ run' = run + 1 /\ list' = First[medium] /\ number' = 0 /\ broken' = FALSE
      /\ heard' = Nothing /\ UNCHANGED <<medium, disk, takes>>
  BY DEF Restart
<1>2. ASSUME NEW n \in 1..Len(takes)
      PROVE  takes[n].run <= run /\ takes[n].run # run' /\ takes[n].name # <<>>
  <2>1. takes[n] \in TakeRecords /\ run \in Nat
    BY DEF CatalogueInv, CatalogueTypes
  <2>2. takes[n].run <= run
    BY DEF CatalogueInv, NumbersInv
  <2>3. takes[n].name \in TakeNames /\ takes[n].run \in Nat
    BY <2>1 DEF TakeRecords
  <2> QED  BY <1>1, <2>1, <2>2, <2>3, NamedTakes
<1>3. CatalogueTypes'
  BY <1>1, InstalledLists DEF CatalogueInv, CatalogueTypes
<1>4. NumbersInv'
  <2>1. ASSUME NEW n \in 1..Len(takes)
        PROVE  /\ takes[n].run <= run'
               /\ ~takes[n].given => \E j \in Nat : takes[n].name = <<"capture", j, Ext[medium]>>
    <3>1. takes[n] \in TakeRecords /\ run \in Nat
      BY DEF CatalogueInv, CatalogueTypes
    <3>2. takes[n].run \in Nat
      BY <3>1 DEF TakeRecords
    <3> QED  BY <1>1, <1>2, <3>1, <3>2 DEF CatalogueInv, NumbersInv
  <2> QED  BY <1>1, <1>2, <2>1 DEF NumbersInv
<1>5. NumbersDiffer' /\ ListInv' /\ DiskInv' /\ SoundsStay'
  BY <1>1, <1>2 DEF CatalogueInv, NumbersDiffer, ListInv, DiskInv, LastMade, SoundsStay
<1>6. LastTakeHeard'
  BY <1>1, <1>2 DEF LastTakeHeard, Nothing
<1> QED  BY <1>3, <1>4, <1>5, <1>6 DEF CatalogueInv

LEMMA CatalogueInvariance == Spec => []CatalogueInv
<1>1. CatalogueInv /\ [Next]_vars => CatalogueInv'
  <2> SUFFICES ASSUME CatalogueInv, [Next]_vars PROVE CatalogueInv'
    OBVIOUS
  <2>1. CASE EndTake \/ Over \/ UNCHANGED vars
    <3>1. UNCHANGED <<medium, run, list, number, broken, disk, takes, heard>>
      BY <2>1 DEF EndTake, Over, vars
    <3>2. (CatalogueTypes /\ NumbersInv /\ NumbersDiffer)'
      BY <3>1 DEF CatalogueInv, CatalogueTypes, NumbersInv, NumbersDiffer
    <3>3. (ListInv /\ DiskInv /\ LastTakeHeard /\ SoundsStay)'
      BY <3>1 DEF CatalogueInv, ListInv, DiskInv, LastTakeHeard, LastMade, SoundsStay
    <3> QED  BY <3>2, <3>3 DEF CatalogueInv
  <2> QED  BY <2>1, TakesStep, PlayStep, RestartStep DEF Next
<1> QED  BY <1>1, CatalogueInit, PTL DEF Spec

(* Takes of one run never share a number, who asks for a take by its whole *)
(* name hears the last one made under it, or a file whose longer name      *)
(* begins with it, or after a restart nothing; and no sound is ever        *)
(* written over.                                                           *)
THEOREM TakesAreHeard == Spec => []HeardAsTaken
<1>1. CatalogueInv => HeardAsTaken
  BY DEF CatalogueInv, HeardAsTaken
<1> QED  BY <1>1, CatalogueInvariance, PTL
=============================================================================

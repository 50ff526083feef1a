----------------------------- MODULE InputProofs -----------------------------
(***************************************************************************)
(* What the programs that wait for input may rely on: that signals are     *)
(* enough for the readers of 3_asyncio, 4_optasyncio and uart_ctrl.c       *)
(* (EventReaders), and that the servers of 30_socket understand the exit   *)
(* line of their client (SocketChat).                                      *)
(***************************************************************************)
EXTENDS MCInput, FiniteSetTheorems, Functions, TLAPS

(* The calls of main, what they are of, and those it has made.             *)
Call(n) == Text[prog][n][1]
Of(n)   == Text[prog][n][2]

Made(op, x) == \E n \in 1..(at - 1) : Call(n) = op /\ Of(n) = x

Driven == prog \in SignalDriven

Rt == prog \in {"optasyncio", "optasyncio_concur"}

(* The calls of each signal-driven program.                                *)
LEMMA AsyncioCalls ==
    ASSUME prog = "asyncio"
    PROVE  /\ Len(Text[prog]) = 5
           /\ Call(1) = "open" /\ Call(2) = "async" /\ Call(3) = "own" /\ Call(4) = "handle"
           /\ Call(5) = "spin"
           /\ Of(1) = "mouse" /\ Of(2) = "mouse" /\ Of(3) = "mouse" /\ Of(4) = "SIGIO"
<1>1. Text[prog] = Asyncio
  BY DEF Text
<1>2. Len(Asyncio) = 5
  BY DEF Asyncio
<1>3. /\ Asyncio[1][1] = "open" /\ Asyncio[2][1] = "async" /\ Asyncio[3][1] = "own"
      /\ Asyncio[4][1] = "handle" /\ Asyncio[5][1] = "spin"
      /\ Asyncio[1][2] = "mouse" /\ Asyncio[2][2] = "mouse" /\ Asyncio[3][2] = "mouse"
      /\ Asyncio[4][2] = "SIGIO"
  BY DEF Asyncio
<1> QED  BY <1>1, <1>2, <1>3 DEF Call, Of

LEMMA AsyncioConcurCalls ==
    ASSUME prog = "asyncio_concur"
    PROVE  /\ Len(Text[prog]) = 9
           /\ Call(1) = "open" /\ Call(2) = "async" /\ Call(3) = "own" /\ Call(4) = "async"
           /\ Call(5) = "own" /\ Call(6) = "SIGUSR1" /\ Call(7) = "handle" /\ Call(8) = "handle"
           /\ Call(9) = "spin"
           /\ Of(1) = "mouse" /\ Of(2) = "mouse" /\ Of(3) = "mouse" /\ Of(4) = "keys"
           /\ Of(5) = "keys" /\ Of(6) = "keys" /\ Of(7) = "SIGIO" /\ Of(8) = "SIGUSR1"
<1>1. Text[prog] = AsyncioConcur
  BY DEF Text
<1>2. Len(AsyncioConcur) = 9
  BY DEF AsyncioConcur
<1>3. /\ AsyncioConcur[1][1] = "open" /\ AsyncioConcur[2][1] = "async" /\ AsyncioConcur[3][1] = "own"
      /\ AsyncioConcur[4][1] = "async" /\ AsyncioConcur[5][1] = "own" /\ AsyncioConcur[6][1] = "SIGUSR1"
      /\ AsyncioConcur[7][1] = "handle" /\ AsyncioConcur[8][1] = "handle" /\ AsyncioConcur[9][1] = "spin"
      /\ AsyncioConcur[1][2] = "mouse" /\ AsyncioConcur[2][2] = "mouse" /\ AsyncioConcur[3][2] = "mouse"
      /\ AsyncioConcur[4][2] = "keys" /\ AsyncioConcur[5][2] = "keys" /\ AsyncioConcur[6][2] = "keys"
      /\ AsyncioConcur[7][2] = "SIGIO" /\ AsyncioConcur[8][2] = "SIGUSR1"
  BY DEF AsyncioConcur
<1> QED  BY <1>1, <1>2, <1>3 DEF Call, Of

LEMMA OptasyncioCalls ==
    ASSUME prog = "optasyncio"
    PROVE  /\ Len(Text[prog]) = 6
           /\ Call(1) = "open" /\ Call(2) = "async" /\ Call(3) = "own" /\ Call(4) = "SIGRTMIN"
           /\ Call(5) = "handle" /\ Call(6) = "spin"
           /\ Of(1) = "mouse" /\ Of(2) = "mouse" /\ Of(3) = "mouse" /\ Of(4) = "mouse"
           /\ Of(5) = "SIGRTMIN"
<1>1. Text[prog] = Optasyncio
  BY DEF Text
<1>2. Len(Optasyncio) = 6
  BY DEF Optasyncio
<1>3. /\ Optasyncio[1][1] = "open" /\ Optasyncio[2][1] = "async" /\ Optasyncio[3][1] = "own"
      /\ Optasyncio[4][1] = "SIGRTMIN" /\ Optasyncio[5][1] = "handle" /\ Optasyncio[6][1] = "spin"
      /\ Optasyncio[1][2] = "mouse" /\ Optasyncio[2][2] = "mouse" /\ Optasyncio[3][2] = "mouse"
      /\ Optasyncio[4][2] = "mouse" /\ Optasyncio[5][2] = "SIGRTMIN"
  BY DEF Optasyncio
<1> QED  BY <1>1, <1>2, <1>3 DEF Call, Of

LEMMA OptasyncioConcurCalls ==
    ASSUME prog = "optasyncio_concur"
    PROVE  /\ Len(Text[prog]) = 9
           /\ Call(1) = "open" /\ Call(2) = "async" /\ Call(3) = "own" /\ Call(4) = "SIGRTMIN"
           /\ Call(5) = "async" /\ Call(6) = "own" /\ Call(7) = "SIGRTMIN" /\ Call(8) = "handle"
           /\ Call(9) = "spin"
           /\ Of(1) = "mouse" /\ Of(2) = "mouse" /\ Of(3) = "mouse" /\ Of(4) = "mouse"
           /\ Of(5) = "keys" /\ Of(6) = "keys" /\ Of(7) = "keys" /\ Of(8) = "SIGRTMIN"
<1>1. Text[prog] = OptasyncioConcur
  BY DEF Text
<1>2. Len(OptasyncioConcur) = 9
  BY DEF OptasyncioConcur
<1>3. /\ OptasyncioConcur[1][1] = "open" /\ OptasyncioConcur[2][1] = "async" /\ OptasyncioConcur[3][1] = "own"
      /\ OptasyncioConcur[4][1] = "SIGRTMIN" /\ OptasyncioConcur[5][1] = "async" /\ OptasyncioConcur[6][1] = "own"
      /\ OptasyncioConcur[7][1] = "SIGRTMIN" /\ OptasyncioConcur[8][1] = "handle" /\ OptasyncioConcur[9][1] = "spin"
      /\ OptasyncioConcur[1][2] = "mouse" /\ OptasyncioConcur[2][2] = "mouse" /\ OptasyncioConcur[3][2] = "mouse"
      /\ OptasyncioConcur[4][2] = "mouse" /\ OptasyncioConcur[5][2] = "keys" /\ OptasyncioConcur[6][2] = "keys"
      /\ OptasyncioConcur[7][2] = "keys" /\ OptasyncioConcur[8][2] = "SIGRTMIN"
  BY DEF OptasyncioConcur
<1> QED  BY <1>1, <1>2, <1>3 DEF Call, Of

LEMMA UartCalls ==
    ASSUME prog = "uart"
    PROVE  /\ Len(Text[prog]) = 7
           /\ Call(1) = "open" /\ Call(2) = "flush" /\ Call(3) = "async" /\ Call(4) = "own"
           /\ Call(5) = "SIGRTMIN" /\ Call(6) = "handle" /\ Call(7) = "spin"
           /\ Of(1) = "mouse" /\ Of(2) = "mouse" /\ Of(3) = "mouse" /\ Of(4) = "mouse"
           /\ Of(5) = "mouse" /\ Of(6) = "SIGRTMIN"
<1>1. Text[prog] = Uart
  BY DEF Text
<1>2. Len(Uart) = 7
  BY DEF Uart
<1>3. /\ Uart[1][1] = "open" /\ Uart[2][1] = "flush" /\ Uart[3][1] = "async"
      /\ Uart[4][1] = "own" /\ Uart[5][1] = "SIGRTMIN" /\ Uart[6][1] = "handle"
      /\ Uart[7][1] = "spin"
      /\ Uart[1][2] = "mouse" /\ Uart[2][2] = "mouse" /\ Uart[3][2] = "mouse"
      /\ Uart[4][2] = "mouse" /\ Uart[5][2] = "mouse" /\ Uart[6][2] = "SIGRTMIN"
  BY DEF Uart
<1> QED  BY <1>1, <1>2, <1>3 DEF Call, Of

LEMMA Texts ==
    ASSUME Driven, NEW n \in 1..Len(Text[prog])
    PROVE  /\ Call(n) \in {"open", "flush", "async", "own", "SIGUSR1", "SIGRTMIN", "handle", "spin"}
           /\ Call(n) = "spin" \/ n + 1 \in 1..Len(Text[prog])
           /\ Call(n) \in {"async", "own", "SIGUSR1", "SIGRTMIN"} => Of(n) \in Devices
           /\ Call(n) = "handle" => Of(n) \in Signals
           /\ Call(n) = "flush" => prog = "uart" /\ Of(n) = "mouse"
           /\ Call(n) = "SIGUSR1" => prog = "asyncio_concur"
           /\ Call(n) = "SIGRTMIN" => prog # "asyncio_concur"
<1> USE DEF Devices, Signals
<1>1. CASE prog = "asyncio"
  <2>1. n \in 1..5 /\ Len(Text[prog]) = 5
    BY <1>1, AsyncioCalls
  <2>2. \/ Call(n) = "open" /\ n < 5 /\ Of(n) \in {"mouse"}
        \/ Call(n) = "async" /\ n < 5 /\ Of(n) \in {"mouse"}
        \/ Call(n) = "own" /\ n < 5 /\ Of(n) \in {"mouse"}
        \/ Call(n) = "handle" /\ n < 5 /\ Of(n) \in {"SIGIO"}
        \/ Call(n) = "spin"
    BY <1>1, <2>1, AsyncioCalls
  <2> QED  BY <1>1, <2>1, <2>2
<1>2. CASE prog = "asyncio_concur"
  <2>1. n \in 1..9 /\ Len(Text[prog]) = 9
    BY <1>2, AsyncioConcurCalls
  <2>2. \/ Call(n) = "open" /\ n < 9 /\ Of(n) \in {"mouse"}
        \/ Call(n) = "async" /\ n < 9 /\ Of(n) \in {"mouse", "keys"}
        \/ Call(n) = "own" /\ n < 9 /\ Of(n) \in {"mouse", "keys"}
        \/ Call(n) = "SIGUSR1" /\ n < 9 /\ Of(n) \in {"keys"}
        \/ Call(n) = "handle" /\ n < 9 /\ Of(n) \in {"SIGIO", "SIGUSR1"}
        \/ Call(n) = "spin"
    BY <1>2, <2>1, AsyncioConcurCalls
  <2> QED  BY <1>2, <2>1, <2>2
<1>3. CASE prog = "optasyncio"
  <2>1. n \in 1..6 /\ Len(Text[prog]) = 6
    BY <1>3, OptasyncioCalls
  <2>2. \/ Call(n) = "open" /\ n < 6 /\ Of(n) \in {"mouse"}
        \/ Call(n) = "async" /\ n < 6 /\ Of(n) \in {"mouse"}
        \/ Call(n) = "own" /\ n < 6 /\ Of(n) \in {"mouse"}
        \/ Call(n) = "SIGRTMIN" /\ n < 6 /\ Of(n) \in {"mouse"}
        \/ Call(n) = "handle" /\ n < 6 /\ Of(n) \in {"SIGRTMIN"}
        \/ Call(n) = "spin"
    BY <1>3, <2>1, OptasyncioCalls
  <2> QED  BY <1>3, <2>1, <2>2
<1>4. CASE prog = "optasyncio_concur"
  <2>1. n \in 1..9 /\ Len(Text[prog]) = 9
    BY <1>4, OptasyncioConcurCalls
  <2>2. \/ Call(n) = "open" /\ n < 9 /\ Of(n) \in {"mouse"}
        \/ Call(n) = "async" /\ n < 9 /\ Of(n) \in {"mouse", "keys"}
        \/ Call(n) = "own" /\ n < 9 /\ Of(n) \in {"mouse", "keys"}
        \/ Call(n) = "SIGRTMIN" /\ n < 9 /\ Of(n) \in {"mouse", "keys"}
        \/ Call(n) = "handle" /\ n < 9 /\ Of(n) \in {"SIGRTMIN"}
        \/ Call(n) = "spin"
    BY <1>4, <2>1, OptasyncioConcurCalls
  <2> QED  BY <1>4, <2>1, <2>2
<1>5. CASE prog = "uart"
  <2>1. n \in 1..7 /\ Len(Text[prog]) = 7
    BY <1>5, UartCalls
  <2>2. \/ Call(n) = "open" /\ n < 7 /\ Of(n) \in {"mouse"}
        \/ Call(n) = "flush" /\ n < 7 /\ Of(n) \in {"mouse"}
        \/ Call(n) = "async" /\ n < 7 /\ Of(n) \in {"mouse"}
        \/ Call(n) = "own" /\ n < 7 /\ Of(n) \in {"mouse"}
        \/ Call(n) = "SIGRTMIN" /\ n < 7 /\ Of(n) \in {"mouse"}
        \/ Call(n) = "handle" /\ n < 7 /\ Of(n) \in {"SIGRTMIN"}
        \/ Call(n) = "spin"
    BY <1>5, <2>1, UartCalls
  <2> QED  BY <1>5, <2>1, <2>2
<1> QED  BY <1>1, <1>2, <1>3, <1>4, <1>5 DEF Driven, SignalDriven

(* Once a signal is handled the devices have their signals; once main has  *)
(* nothing left to do every signal of a device is handled.                 *)
Handling == \E s \in Signals : Made("handle", s)

LEMMA MadeByThen ==
    ASSUME Driven, at \in 1..Len(Text[prog])
    PROVE  /\ Handling => Call(at) \in {"handle", "spin"}
           /\ \A d \in Devices : Handling /\ Made("async", d) =>
                  /\ Made("SIGUSR1", d) <=> prog = "asyncio_concur" /\ d = "keys"
                  /\ Made("SIGRTMIN", d) <=> Rt \/ prog = "uart"
           /\ \A s \in Signals : Made("handle", s) => (s = "SIGRTMIN" <=> Rt \/ prog = "uart")
           /\ Call(at) = "spin" =>
                  /\ prog \in {"asyncio", "asyncio_concur"} => Made("handle", "SIGIO")
                  /\ prog = "asyncio_concur" => Made("handle", "SIGUSR1")
                  /\ Rt \/ prog = "uart" => Made("handle", "SIGRTMIN")
           /\ prog = "asyncio" => ~Made("async", "keys")
<1> USE DEF Handling, Devices, Signals, Rt
<1>1. CASE prog = "asyncio"
  <2>1. at \in 1..5
    BY <1>1, AsyncioCalls
  <2>2. \A op, x : Made(op, x) <=> \E n \in 1..4 : n < at /\ Call(n) = op /\ Of(n) = x
    BY <2>1 DEF Made
  <2> QED  BY <1>1, <2>1, <2>2, AsyncioCalls
<1>2. CASE prog = "asyncio_concur"
  <2>1. at \in 1..9
    BY <1>2, AsyncioConcurCalls
  <2>2. \A op, x : Made(op, x) <=> \E n \in 1..8 : n < at /\ Call(n) = op /\ Of(n) = x
    BY <2>1 DEF Made
  <2> QED  BY <1>2, <2>1, <2>2, AsyncioConcurCalls
<1>3. CASE prog = "optasyncio"
  <2>1. at \in 1..6
    BY <1>3, OptasyncioCalls
  <2>2. \A op, x : Made(op, x) <=> \E n \in 1..5 : n < at /\ Call(n) = op /\ Of(n) = x
    BY <2>1 DEF Made
  <2> QED  BY <1>3, <2>1, <2>2, OptasyncioCalls
<1>4. CASE prog = "optasyncio_concur"
  <2>1. at \in 1..9
    BY <1>4, OptasyncioConcurCalls
  <2>2. \A op, x : Made(op, x) <=> \E n \in 1..8 : n < at /\ Call(n) = op /\ Of(n) = x
    BY <2>1 DEF Made
  <2> QED  BY <1>4, <2>1, <2>2, OptasyncioConcurCalls
<1>5. CASE prog = "uart"
  <2>1. at \in 1..7
    BY <1>5, UartCalls
  <2>2. \A op, x : Made(op, x) <=> \E n \in 1..6 : n < at /\ Call(n) = op /\ Of(n) = x
    BY <2>1 DEF Made
  <2> QED  BY <1>5, <2>1, <2>2, UartCalls
<1> QED  BY <1>1, <1>2, <1>3, <1>4, <1>5 DEF Driven, SignalDriven

(* Where a device stands in a queue of signals.                            *)
Positions(q, d) == {n \in 1..Len(q) : q[n] = d}

LEMMA PositionsFinite ==
    ASSUME NEW q \in Seq(Devices), NEW d
    PROVE  IsFiniteSet(Positions(q, d)) /\ Cardinality(Positions(q, d)) \in Nat
<1>1. IsFiniteSet(1..Len(q)) /\ Positions(q, d) \in SUBSET (1..Len(q))
  BY FS_Interval DEF Positions
<1> QED  BY <1>1, FS_Subset, FS_CardinalityType

LEMMA AppendCounts ==
    ASSUME NEW q \in Seq(Devices), NEW e \in Devices, NEW d \in Devices
    PROVE  Cardinality(Positions(Append(q, e), d)) =
               Cardinality(Positions(q, d)) + IF e = d THEN 1 ELSE 0
<1>1. /\ Len(q) \in Nat /\ Len(Append(q, e)) = Len(q) + 1 /\ Append(q, e)[Len(q) + 1] = e
      /\ \A n \in 1..Len(q) : Append(q, e)[n] = q[n]
  OBVIOUS
<1>2. CASE e = d
  <2>1. Positions(Append(q, e), d) = Positions(q, d) \cup {Len(q) + 1}
    BY <1>1, <1>2 DEF Positions
  <2>2. Len(q) + 1 \notin Positions(q, d)
    BY <1>1 DEF Positions
  <2> QED  BY <1>2, <2>1, <2>2, PositionsFinite, FS_AddElement
<1>3. CASE e # d
  <2>1. Positions(Append(q, e), d) = Positions(q, d)
    BY <1>1, <1>3 DEF Positions
  <2> QED  BY <1>3, <2>1, PositionsFinite
<1> QED  BY <1>2, <1>3

LEMMA TailCounts ==
    ASSUME NEW q \in Seq(Devices), q # <<>>, NEW d \in Devices
    PROVE  Cardinality(Positions(q, d)) =
               Cardinality(Positions(Tail(q), d)) + IF Head(q) = d THEN 1 ELSE 0
<1>1. /\ Len(q) \in Nat /\ Len(q) > 0 /\ Len(Tail(q)) = Len(q) - 1 /\ Head(q) = q[1]
      /\ \A n \in 1..Len(Tail(q)) : Tail(q)[n] = q[n + 1]
      /\ Tail(q) \in Seq(Devices)
  OBVIOUS
<1> DEFINE P == Positions(Tail(q), d)
           R == Positions(q, d) \ {1}
           f == [n \in P |-> n + 1]
<1>2. f \in [P -> R]
  BY <1>1 DEF Positions
<1>3. \A a, b \in P : f[a] = f[b] => a = b
  BY <1>1 DEF Positions
<1>4. ASSUME NEW m \in R PROVE \E n \in P : f[n] = m
  <2>1. m - 1 \in P /\ m - 1 + 1 = m
    BY <1>1 DEF Positions
  <2> QED  BY <2>1
<1>5. Cardinality(R) = Cardinality(P)
  <2>1. DOMAIN f = P
    OBVIOUS
  <2> HIDE DEF f, P, R
  <2>2. f \in Bijection(P, R)
    BY <1>2, <1>3, <1>4, <2>1 DEF Bijection, Injection, Surjection, IsInjective
  <2>3. IsFiniteSet(P)
    BY <1>1, PositionsFinite DEF P
  <2> QED  BY <2>2, <2>3, FS_Bijection DEF ExistsBijection
<1>6. 1 \in Positions(q, d) <=> Head(q) = d
  BY <1>1 DEF Positions
<1>7. Cardinality(R) = IF Head(q) = d THEN Cardinality(Positions(q, d)) - 1
                       ELSE Cardinality(Positions(q, d))
  BY <1>6, PositionsFinite, FS_RemoveElement
<1>8. Cardinality(Positions(q, d)) \in Nat /\ Cardinality(P) \in Nat
  BY <1>1, PositionsFinite
<1>9. Cardinality(P) = IF Head(q) = d THEN Cardinality(Positions(q, d)) - 1
                       ELSE Cardinality(Positions(q, d))
  BY <1>5, <1>7
<1> QED  BY <1>8, <1>9

(***************************************************************************)
(* The inductive invariant of the signal-driven programs: what is set up   *)
(* is what main has called for, nothing signals before a handler is there, *)
(* with queued signals there is one for each report until a read takes     *)
(* several, and a report left unread has its cause or its signal.          *)
(***************************************************************************)
EvTypes ==
    /\ at \in 1..Len(Text[prog])
    /\ queue \in [Devices -> Nat] /\ sigOf \in [Devices -> Signals]
    /\ pending \subseteq {"SIGIO", "SIGUSR1"} /\ rtQueue \in Seq(Devices)
    /\ running \subseteq Signals \X Devices
    /\ early \subseteq Devices /\ full \subseteq Devices /\ merged \subseteq Devices

SetUpInv ==
    /\ async = {d \in Devices : Made("async", d)} /\ owned = {d \in Devices : Made("own", d)}
    /\ handled = {s \in Signals : Made("handle", s)}
    /\ \A d \in Devices :
           sigOf[d] = IF Made("SIGUSR1", d) THEN "SIGUSR1"
                      ELSE IF Made("SIGRTMIN", d) THEN "SIGRTMIN" ELSE "SIGIO"

UnhandledInv ==
    handled = {} =>
        /\ pending = {} /\ rtQueue = <<>> /\ running = {}
        /\ Live => \A d \in Devices : queue[d] > 0 => d \in early

Signalled(d) == Cardinality(Positions(rtQueue, d)) + IF <<"SIGRTMIN", d>> \in running THEN 1 ELSE 0

RtInv ==
    Rt => /\ pending = {} /\ running \subseteq {"SIGRTMIN"} \X Devices /\ "keys" \notin merged
          /\ \A d \in Devices :
                 /\ d \notin merged => Signalled(d) <= queue[d]
                 /\ Live /\ d \notin early => queue[d] <= Signalled(d)

MergeInv ==
    prog \in {"asyncio", "asyncio_concur"} =>
        /\ rtQueue = <<>> /\ running \subseteq {"SIGIO", "SIGUSR1"} \X Devices
        /\ Live => \A d \in Devices : queue[d] > 0 =>
               \/ d \in early \/ d \in full
               \/ d \in async /\ (sigOf[d] \in pending \/ <<sigOf[d], d>> \in running)

UartInv ==
    prog = "uart" =>
        /\ pending = {} /\ running \subseteq {"SIGRTMIN"} \X Devices
        /\ Live => \A d \in Devices : queue[d] > 0 =>
               d \in early \/ d \in full \/ <<"SIGRTMIN", d>> \in running \/ Positions(rtQueue, d) # {}

EvInv == /\ Driven /\ EvTypes /\ SetUpInv /\ UnhandledInv /\ RtInv /\ MergeInv /\ UartInv
         /\ EndsForAReason

LEMMA EvInit == Init /\ Driven => EvInv
<1> SUFFICES ASSUME Init, Driven PROVE EvInv
  OBVIOUS
<1>1. /\ at = 1 /\ queue = [d \in Devices |-> 0] /\ async = {} /\ owned = {} /\ handled = {}
      /\ sigOf = [d \in Devices |-> "SIGIO"] /\ pending = {} /\ rtQueue = <<>> /\ running = {}
      /\ early = {} /\ full = {} /\ merged = {} /\ ended = "no"
  BY DEF Init
<1>2. EvTypes
  <2>1. 1 \in 1..Len(Text[prog])
    <3>1. Len(Text[prog]) \in {5, 6, 7, 9}
      BY AsyncioCalls, AsyncioConcurCalls, OptasyncioCalls, OptasyncioConcurCalls, UartCalls
         DEF Driven, SignalDriven
    <3>2. \A n \in {5, 6, 7, 9} : 1 \in 1..n
      OBVIOUS
    <3> QED  BY <3>1, <3>2
  <2>2. rtQueue \in Seq(Devices)
    BY <1>1
  <2>3. queue \in [Devices -> Nat] /\ sigOf \in [Devices -> Signals]
    BY <1>1 DEF Signals
  <2> QED  BY <1>1, <2>1, <2>2, <2>3 DEF EvTypes
<1>3. \A op, x : ~Made(op, x)
  BY <1>1 DEF Made
<1>4. SetUpInv
  BY <1>1, <1>3 DEF SetUpInv
<1>5. UnhandledInv /\ MergeInv /\ UartInv /\ EndsForAReason
  BY <1>1 DEF UnhandledInv, MergeInv, UartInv, EndsForAReason
<1>6. RtInv
  <2>1. \A d \in Devices : Positions(rtQueue, d) = {}
    BY <1>1 DEF Positions
  <2>2. \A d \in Devices : Signalled(d) = 0
    BY <1>1, <2>1, FS_EmptySet DEF Signalled
  <2> QED  BY <1>1, <2>2 DEF RtInv
<1> QED  BY <1>2, <1>4, <1>5, <1>6 DEF EvInv

(* The devices whose signals are handled have the right ones.              *)
LEMMA HandledSignals ==
    ASSUME EvInv, handled # {}
    PROVE  /\ Call(at) \in {"handle", "spin"}
           /\ Rt \/ prog = "uart" =>
                  handled = {"SIGRTMIN"} /\ \A d \in async : sigOf[d] = "SIGRTMIN"
           /\ prog \in {"asyncio", "asyncio_concur"} =>
                  /\ "SIGRTMIN" \notin handled
                  /\ \A d \in async : sigOf[d] = IF d = "keys" THEN "SIGUSR1" ELSE "SIGIO"
<1> USE DEF EvInv
<1>1. Handling /\ at \in 1..Len(Text[prog]) /\ Driven
  BY DEF SetUpInv, Handling, EvTypes
<1>2. \A d \in async : d \in Devices /\ Made("async", d)
  BY DEF SetUpInv
<1>3. \A s \in handled : s \in Signals /\ Made("handle", s)
  BY DEF SetUpInv
<1>4. Call(at) \in {"handle", "spin"}
  BY <1>1, MadeByThen
<1>5. ASSUME Rt \/ prog = "uart"
      PROVE  handled = {"SIGRTMIN"} /\ \A d \in async : sigOf[d] = "SIGRTMIN"
  <2>1. \A s \in handled : s = "SIGRTMIN"
    BY <1>1, <1>3, <1>5, MadeByThen
  <2>2. ASSUME NEW d \in async PROVE sigOf[d] = "SIGRTMIN"
    BY <1>1, <1>2, <1>5, MadeByThen DEF SetUpInv, Rt
  <2> QED  BY <2>1, <2>2
<1>6. ASSUME prog \in {"asyncio", "asyncio_concur"}
      PROVE  /\ "SIGRTMIN" \notin handled
             /\ \A d \in async : sigOf[d] = IF d = "keys" THEN "SIGUSR1" ELSE "SIGIO"
  <2>1. "SIGRTMIN" \notin handled
    BY <1>1, <1>3, <1>6, MadeByThen DEF Rt
  <2>2. ASSUME NEW d \in async PROVE sigOf[d] = IF d = "keys" THEN "SIGUSR1" ELSE "SIGIO"
    BY <1>1, <1>2, <1>6, MadeByThen DEF SetUpInv, Rt
  <2> QED  BY <2>1, <2>2
<1> QED  BY <1>4, <1>5, <1>6

LEMMA AllHandled ==
    ASSUME EvInv, Call(at) = "spin" PROVE handled # {} /\ \A d \in async : sigOf[d] \in handled
<1> USE DEF EvInv
<1>1. at \in 1..Len(Text[prog]) /\ Driven
  BY DEF EvTypes
<1>2. /\ prog \in {"asyncio", "asyncio_concur"} => "SIGIO" \in handled
      /\ prog = "asyncio_concur" => "SIGUSR1" \in handled
      /\ Rt \/ prog = "uart" => "SIGRTMIN" \in handled
  BY <1>1, MadeByThen DEF SetUpInv, Signals
<1>3. handled # {}
  BY <1>1, <1>2 DEF Driven, SignalDriven, Rt
<1>4. prog = "asyncio" => "keys" \notin async
  BY <1>1, MadeByThen DEF SetUpInv
<1>5. async \subseteq Devices
  BY DEF SetUpInv
<1> QED  BY <1>1, <1>2, <1>3, <1>4, <1>5, HandledSignals DEF Driven, SignalDriven, Rt, Devices

LEMMA Onward ==
    ASSUME EvInv, prog' = prog, at' = at + 1, Call(at) # "spin"
    PROVE  /\ at' \in 1..Len(Text[prog])
           /\ \A op, x : Made(op, x)' <=> Made(op, x) \/ (Call(at) = op /\ Of(at) = x)
<1>1. at \in 1..Len(Text[prog]) /\ at + 1 \in 1..Len(Text[prog]) /\ at \in Nat /\ at > 0
  BY Texts DEF EvInv, EvTypes
<1>2. ASSUME NEW op, NEW x
      PROVE  Made(op, x)' <=> Made(op, x) \/ (Call(at) = op /\ Of(at) = x)
  <2>1. Made(op, x)' <=> \E n \in 1..at : Call(n) = op /\ Of(n) = x
    BY <1>1 DEF Made, Call, Of
  <2>2. \A n : n \in 1..at <=> n \in 1..(at - 1) \/ n = at
    BY <1>1
  <2> QED  BY <2>1, <2>2 DEF Made
<1> QED  BY <1>1, <1>2

(* What stays when neither main nor the set-up moves.                      *)
LEMMA SetUpStays ==
    ASSUME EvInv, UNCHANGED <<prog, at, setupVars>>
    PROVE  Driven' /\ at' \in 1..Len(Text[prog'])
           /\ sigOf' \in [Devices -> Signals] /\ SetUpInv' /\ (Rt' <=> Rt)
  BY DEF EvInv, EvTypes, setupVars, SetUpInv, Driven, Rt, Made, Call, Of

LEMMA MainStep == ASSUME EvInv, Main PROVE EvInv'
<1> USE DEF EvInv
<1>1. /\ Op = Call(at) /\ Arg = Of(at) /\ Driven
      /\ Call(at) \in {"open", "flush", "async", "own", "SIGUSR1", "SIGRTMIN", "handle", "spin"}
      /\ Call(at) \in {"async", "own", "SIGUSR1", "SIGRTMIN"} => Of(at) \in Devices
      /\ Call(at) = "handle" => Of(at) \in Signals
      /\ Call(at) = "flush" => prog = "uart" /\ Of(at) = "mouse"
      /\ handled # {} => Call(at) \in {"handle", "spin"}
  BY Texts, HandledSignals DEF Op, Arg, Call, Of, EvTypes
<1>2. CASE UNCHANGED vars
  BY <1>2 DEF vars, setupVars, signalVars, readVars, EvTypes, SetUpInv, UnhandledInv, RtInv,
      MergeInv,
     UartInv, EndsForAReason, Driven, Rt, Made, Call, Of, Signalled, Live, Op
<1>3. CASE (Open \/ Flush) /\ UNCHANGED at
  <2>1. /\ Call(at) \in {"open", "flush"} /\ ended' = "error"
        /\ UNCHANGED <<prog, setupVars, signalVars, readVars, early, at>>
        /\ queue' = queue \/ (prog = "uart" /\ queue' = [queue EXCEPT !["mouse"] = 0])
    BY <1>1, <1>3 DEF Open, Flush, Calls, Live, Forward, EvTypes
  <2>2. queue' \in [Devices -> Nat] /\ (prog # "uart" => queue' = queue)
    BY <2>1 DEF EvTypes
  <2>3. EvTypes' /\ SetUpInv'
    BY <2>1, <2>2, SetUpStays DEF signalVars, readVars, EvTypes
  <2>4. UnhandledInv' /\ MergeInv' /\ UartInv'
    BY <2>1 DEF setupVars, signalVars, UnhandledInv, MergeInv, UartInv, Live
  <2>5. RtInv'
    BY <2>1, <2>2 DEF signalVars, readVars, RtInv, Rt, Live, Signalled
  <2>6. EndsForAReason' /\ Driven'
    BY <1>1, <2>1 DEF EndsForAReason, Driven, Op, Call
  <2> QED  BY <2>3, <2>4, <2>5, <2>6
<1>4. CASE (Open \/ Flush) /\ Forward
  <2>1. /\ Call(at) \in {"open", "flush"} /\ ended = "no" /\ at' = at + 1
        /\ UNCHANGED <<prog, setupVars, signalVars, readVars, early>>
        /\ queue' = queue \/ (prog = "uart" /\ queue' = [queue EXCEPT !["mouse"] = 0])
        /\ ended' = ended \/ (ended' = "error" /\ at' = at)
    BY <1>1, <1>4 DEF Open, Flush, Calls, Live, Forward
  <2>2. /\ queue' \in [Devices -> Nat] /\ (prog # "uart" => queue' = queue)
        /\ \A d \in Devices : queue'[d] > 0 => queue[d] > 0
        /\ ended' = "no"
    BY <2>1 DEF EvTypes, Devices
  <2>3. /\ at' \in 1..Len(Text[prog])
        /\ \A op, x : op \notin {"open", "flush"} => (Made(op, x)' <=> Made(op, x))
    BY <2>1, Onward
  <2>4. EvTypes'
    BY <2>1, <2>2, <2>3 DEF setupVars, signalVars, readVars, EvTypes
  <2>5. SetUpInv'
    BY <2>1, <2>3 DEF setupVars, SetUpInv
  <2>6. UnhandledInv' /\ MergeInv' /\ UartInv'
    <3>1. UnhandledInv'
      BY <2>1, <2>2 DEF setupVars, signalVars, UnhandledInv, Live
    <3>2. MergeInv'
      BY <2>1, <2>2 DEF setupVars, signalVars, readVars, MergeInv, Live
    <3>3. UartInv'
      BY <2>1, <2>2 DEF setupVars, signalVars, readVars, UartInv, Live
    <3> QED  BY <3>1, <3>2, <3>3
  <2>7. RtInv'
    BY <2>1, <2>2 DEF signalVars, readVars, RtInv, Rt, Live, Signalled
  <2>8. EndsForAReason' /\ Driven'
    BY <2>1, <2>2 DEF EndsForAReason, Driven
  <2> QED  BY <2>4, <2>5, <2>6, <2>7, <2>8
<1>5. CASE SetUp
  <2>1. /\ ended = "no" /\ at' = at + 1 /\ Call(at) # "spin"
        /\ UNCHANGED <<prog, queue, pending, rtQueue, running, full, merged, early, ended>>
    BY <1>1, <1>5 DEF SetUp, Calls, Live, Forward, signalVars, readVars
  <2>2. \/ /\ Call(at) = "async" /\ async' = async \cup {Of(at)} /\ UNCHANGED <<owned, sigOf,
                                                                                handled>>
        \/ /\ Call(at) = "own" /\ owned' = owned \cup {Of(at)} /\ UNCHANGED <<async, sigOf,
                                                                              handled>>
        \/ /\ Call(at) \in {"SIGUSR1", "SIGRTMIN"} /\ sigOf' = [sigOf EXCEPT ![Of(at)] = Call(at)]
           /\ UNCHANGED <<async, owned, handled>>
        \/ /\ Call(at) = "handle" /\ handled' = handled \cup {Of(at)} /\ UNCHANGED <<async, owned,
                                                                                     sigOf>>
    BY <1>1, <1>5 DEF SetUp, Calls
  <2>3. /\ at' \in 1..Len(Text[prog])
        /\ \A op, x : Made(op, x)' <=> Made(op, x) \/ (Call(at) = op /\ Of(at) = x)
    BY <2>1, Onward
  <2>4. SetUpInv'
    <3>1. CASE Call(at) = "async"
      BY <1>1, <2>2, <2>3, <3>1 DEF SetUpInv
    <3>2. CASE Call(at) = "own"
      BY <1>1, <2>2, <2>3, <3>2 DEF SetUpInv
    <3>3. CASE Call(at) = "SIGUSR1"
      BY <1>1, <2>2, <2>3, <3>3 DEF SetUpInv, EvTypes
    <3>4. CASE Call(at) = "SIGRTMIN"
      <4>1. \A x : ~Made("SIGUSR1", x)
        <5>1. at \in 1..Len(Text[prog]) /\ prog # "asyncio_concur"
          BY <1>1, <3>4, Texts DEF EvTypes
        <5>2. \A n \in 1..(at - 1) : n \in 1..Len(Text[prog])
          BY <5>1, Len(Text[prog]) \in Nat, Texts DEF EvTypes
        <5> QED  BY <1>1, <5>1, <5>2, Texts DEF Made
      <4> QED  BY <1>1, <2>2, <2>3, <3>4, <4>1 DEF SetUpInv, EvTypes
    <3>5. CASE Call(at) = "handle"
      BY <1>1, <2>2, <2>3, <3>5 DEF SetUpInv
    <3> QED  BY <2>2, <3>1, <3>2, <3>3, <3>4, <3>5
  <2>5. /\ async \subseteq async' /\ handled \subseteq handled' /\ (sigOf' = sigOf \/ handled = {})
        /\ sigOf' \in [Devices -> Signals]
    BY <1>1, <2>2 DEF EvTypes, Signals
  <2>6. EvTypes'
    BY <2>1, <2>3, <2>5 DEF EvTypes
  <2>7. UnhandledInv' /\ UartInv'
    BY <2>1, <2>5 DEF UnhandledInv, UartInv, Live
  <2>8. MergeInv'
    BY <2>1, <2>5 DEF UnhandledInv, MergeInv, Live
  <2>9. RtInv'
    BY <2>1 DEF RtInv, Rt, Live, Signalled
  <2>10. EndsForAReason' /\ Driven'
    BY <2>1 DEF EndsForAReason, Driven
  <2> QED  BY <2>4, <2>6, <2>7, <2>8, <2>9, <2>10
<1> QED
  <2>1. ~(WaitingRead \/ TryRead \/ LookRead \/ Poll \/ Serve \/ Again \/ Return)
    BY <1>1 DEF WaitingRead, TryRead, LookRead, Poll, Serve, Again, Return, Calls
  <2>2. Spin => UNCHANGED vars
    BY DEF Spin
  <2>3. Open \/ Flush => Forward \/ UNCHANGED at
    BY DEF Open, Flush
  <2> QED  BY <1>2, <1>3, <1>4, <1>5, <2>1, <2>2, <2>3 DEF Main

LEMMA DeliverStep == ASSUME EvInv, Deliver PROVE EvInv'
<1> USE DEF EvInv
<1>1. /\ ended = "no" /\ UNCHANGED <<prog, at, queue, setupVars, full, merged, early, ended>>
      /\ UNCHANGED <<async, owned, sigOf, handled>>
  BY DEF Deliver, Live, readVars, setupVars
<1>2. EndsForAReason'
  BY <1>1 DEF EndsForAReason
<1>3. CASE \E s \in pending : \E d \in Devices :
             /\ sigOf[d] = s /\ (d = "keys") = (s = "SIGUSR1")
             /\ running' = running \cup {<<s, d>>} /\ pending' = pending \ {s} /\ rtQueue' = rtQueue
  <2>1. PICK s \in pending : \E d \in Devices :
             /\ sigOf[d] = s /\ (d = "keys") = (s = "SIGUSR1")
             /\ running' = running \cup {<<s, d>>} /\ pending' = pending \ {s} /\ rtQueue' = rtQueue
    BY <1>3
  <2>2. PICK d \in Devices :
             /\ sigOf[d] = s /\ (d = "keys") = (s = "SIGUSR1")
             /\ running' = running \cup {<<s, d>>} /\ pending' = pending \ {s} /\ rtQueue' = rtQueue
    BY <2>1
  <2>3. /\ handled # {} /\ prog \in {"asyncio", "asyncio_concur"} /\ s \in {"SIGIO", "SIGUSR1"}
        /\ \A e \in async : sigOf[e] = IF e = "keys" THEN "SIGUSR1" ELSE "SIGIO"
    BY HandledSignals DEF UnhandledInv, RtInv, UartInv, Driven, SignalDriven, EvTypes, Rt
  <2>4. /\ running' \subseteq Signals \X Devices /\ running' \subseteq {"SIGIO", "SIGUSR1"} \X Devices
        /\ pending' \subseteq {"SIGIO", "SIGUSR1"}
    BY <2>2, <2>3 DEF EvTypes, MergeInv, Signals
  <2>5. EvTypes'
    BY <1>1, <2>2, <2>4, SetUpStays DEF EvTypes
  <2>6. MergeInv'
    <3>1. ASSUME NEW e \in async, e \in Devices, sigOf[e] \in pending \/ <<sigOf[e], e>> \in running
          PROVE  sigOf[e] \in pending' \/ <<sigOf[e], e>> \in running'
      <4>1. CASE sigOf[e] = s
        <5>1. e = d
          BY <2>2, <2>3, <3>1, <4>1 DEF Devices
        <5> QED  BY <2>2, <4>1, <5>1
      <4>2. CASE sigOf[e] # s
        BY <2>2, <3>1, <4>2
      <4> QED  BY <4>1, <4>2
    <3> QED  BY <1>1, <2>2, <2>4, <3>1 DEF MergeInv, Live, setupVars
  <2>7. UnhandledInv' /\ UartInv' /\ RtInv'
    BY <1>1, <2>3 DEF UnhandledInv, UartInv, RtInv, Rt, setupVars
  <2> QED  BY <1>1, <1>2, <2>5, <2>6, <2>7, SetUpStays
<1>4. CASE /\ rtQueue # <<>> /\ ~Runs("SIGRTMIN") /\ pending' = pending
           /\ running' = running \cup {<<"SIGRTMIN", Head(rtQueue)>>} /\ rtQueue' = Tail(rtQueue)
  <2>1. handled # {} /\ (Rt \/ prog = "uart")
    BY <1>4 DEF UnhandledInv, MergeInv, Driven, SignalDriven, Rt
  <2>2. Head(rtQueue) \in Devices /\ Tail(rtQueue) \in Seq(Devices)
    BY <1>4 DEF EvTypes
  <2>3. /\ running' \subseteq Signals \X Devices
        /\ running \subseteq {"SIGRTMIN"} \X Devices
        /\ running' \subseteq {"SIGRTMIN"} \X Devices
        /\ pending = {}
    BY <1>4, <2>1, <2>2 DEF EvTypes, RtInv, UartInv, Signals
  <2>4. EvTypes'
    BY <1>1, <1>4, <2>2, <2>3, SetUpStays DEF EvTypes
  <2>5. UnhandledInv' /\ MergeInv'
    BY <1>1, <2>1 DEF UnhandledInv, MergeInv, Rt
  <2>6. ASSUME NEW d \in Devices
        PROVE  /\ Signalled(d)' = Signalled(d)
               /\ Positions(rtQueue, d) # {} => Positions(rtQueue', d) # {} \/ <<"SIGRTMIN", d>> \in running'
    <3>1. <<"SIGRTMIN", d>> \notin running
      BY <1>4 DEF Runs
    <3>2. <<"SIGRTMIN", d>> \in running' <=> Head(rtQueue) = d
      BY <1>4, <3>1
    <3>3. Cardinality(Positions(rtQueue, d)) =
              Cardinality(Positions(rtQueue', d)) + IF Head(rtQueue) = d THEN 1 ELSE 0
      BY <1>4, TailCounts DEF EvTypes
    <3>4. /\ IsFiniteSet(Positions(rtQueue, d)) /\ Cardinality(Positions(rtQueue, d)) \in Nat
          /\ IsFiniteSet(Positions(rtQueue', d)) /\ Cardinality(Positions(rtQueue', d)) \in Nat
      BY <1>4, <2>2, PositionsFinite DEF EvTypes
    <3>5. Signalled(d)' = Cardinality(Positions(rtQueue', d)) + IF Head(rtQueue) = d THEN 1 ELSE 0
      BY <3>2 DEF Signalled, Positions
    <3>6. Signalled(d) = Cardinality(Positions(rtQueue, d))
      BY <3>1, <3>4 DEF Signalled
    <3>7. Positions(rtQueue', d) = {} /\ Head(rtQueue) # d => Positions(rtQueue, d) = {}
      BY <3>3, <3>4, FS_EmptySet
    <3> QED  BY <3>2, <3>3, <3>4, <3>5, <3>6, <3>7
  <2>7. RtInv'
    BY <1>1, <1>4, <2>3, <2>6 DEF RtInv, Rt, Live
  <2>8. UartInv'
    BY <1>1, <1>4, <2>3, <2>6 DEF UartInv, Live
  <2> QED  BY <1>1, <1>2, <2>4, <2>5, <2>7, <2>8, SetUpStays
<1> QED  BY <1>3, <1>4 DEF Deliver

(* A read that has left something has taken all there was room for.        *)
LEMMA ReadTakes ==
    ASSUME EvInv, NEW d \in Devices, Read(d)
    PROVE  \E n \in 1..queue[d] :
             /\ queue' = [queue EXCEPT ![d] = queue[d] - n] /\ (queue[d] - n > 0 => d \in full')
             /\ full \subseteq full' /\ full' \subseteq full \cup {d}
             /\ merged \subseteq merged' /\ merged' \subseteq merged \cup {d}
             /\ n > 1 => d \in merged' /\ d = "mouse"
             /\ n = 1 => merged' = merged
<1> DEFINE n == IF queue[d] < Room(d) THEN queue[d] ELSE Room(d)
<1>1. /\ queue[d] > 0 /\ queue[d] \in Nat /\ Room(d) \in Nat \ {0} /\ (Room(d) > 1 => d = "mouse")
      /\ queue' = [queue EXCEPT ![d] = queue[d] - n]
      /\ full' = IF n = Room(d) THEN full \cup {d} ELSE full
      /\ merged' = IF n > 1 THEN merged \cup {d} ELSE merged
  BY InputAssumption DEF Read, Room, EvInv, EvTypes
<1>2. /\ n \in 1..queue[d] /\ (n > 1 => Room(d) > 1) /\ (queue[d] - n > 0 => n = Room(d))
  BY <1>1
<1> HIDE DEF n
<1>3. n \in Nat /\ (n = 1 => ~(n > 1)) /\ queue[d] \in Nat
  BY <1>1, <1>2
<1>4. queue[d] - n > 0 => d \in full'
  BY <1>1, <1>2
<1>5. full \subseteq full' /\ full' \subseteq full \cup {d}
  BY <1>1
<1>6. merged \subseteq merged' /\ merged' \subseteq merged \cup {d}
  BY <1>1
<1>7. /\ n > 1 => d \in merged' /\ d = "mouse"
      /\ n = 1 => merged' = merged
  BY <1>1, <1>2, <1>3
<1> QED  BY <1>1, <1>2, <1>4, <1>5, <1>6, <1>7

(* A read, or one that finds nothing, of a device.                         *)
LEMMA ReadsOfHandler ==
    ASSUME EvInv, NEW d \in Devices, Read(d) \/ ReadNothing(d)
    PROVE  /\ queue' \in [Devices -> Nat] /\ full' \subseteq Devices /\ merged' \subseteq Devices
           /\ \A e \in Devices : e # d => queue'[e] = queue[e] /\ (e \in merged <=> e \in merged')
           /\ full \subseteq full' /\ merged \subseteq merged'
           /\ queue'[d] > 0 => d \in full'
           /\ "keys" \in merged' => "keys" \in merged
<1>0. queue \in [Devices -> Nat] /\ full \subseteq Devices /\ merged \subseteq Devices
  BY DEF EvInv, EvTypes
<1>1. CASE Read(d)
  <2>1. PICK n \in 1..queue[d] :
             /\ queue' = [queue EXCEPT ![d] = queue[d] - n] /\ (queue[d] - n > 0 => d \in full')
             /\ full \subseteq full' /\ full' \subseteq full \cup {d}
             /\ merged \subseteq merged' /\ merged' \subseteq merged \cup {d}
             /\ n > 1 => d \in merged' /\ d = "mouse"
             /\ n = 1 => merged' = merged
    BY <1>1, ReadTakes
  <2>2. queue[d] \in Nat /\ queue[d] - n \in Nat /\ (n > 1 \/ n = 1)
    BY <1>0, <2>1
  <2>3. queue' \in [Devices -> Nat] /\ queue'[d] = queue[d] - n
    BY <1>0, <2>1, <2>2
  <2>4. \A e \in Devices : e # d => queue'[e] = queue[e] /\ (e \in merged <=> e \in merged')
    BY <1>0, <2>1
  <2>5. "keys" \in merged' => "keys" \in merged
    BY <2>1, <2>2
  <2> QED  BY <1>0, <2>1, <2>3, <2>4, <2>5
<1>2. CASE ReadNothing(d)
  BY <1>0, <1>2 DEF ReadNothing, readVars
<1> QED  BY <1>1, <1>2

LEMMA HandlerStep == ASSUME EvInv, NEW s \in {"SIGIO", "SIGUSR1"}, Handler(s) PROVE EvInv'
<1> USE DEF EvInv
<1>1. PICK d \in Devices :
        /\ Live /\ <<s, d>> \in running
        /\ Read(d) \/ ReadNothing(d)
        /\ running' = running \ {<<s, d>>}
        /\ UNCHANGED <<prog, at, came, ready, setupVars, pending, rtQueue, early, ended>>
  BY DEF Handler
<1>2. /\ prog \in {"asyncio", "asyncio_concur"} /\ ~Rt /\ prog # "uart" /\ handled # {}
  BY <1>1 DEF RtInv, UartInv, UnhandledInv, Driven, SignalDriven, Rt
<1>3. /\ queue' \in [Devices -> Nat] /\ full' \subseteq Devices /\ merged' \subseteq Devices
      /\ \A e \in Devices : e # d => queue'[e] = queue[e]
      /\ full \subseteq full'
      /\ queue'[d] > 0 => d \in full'
  BY <1>1, ReadsOfHandler
<1>4. EvTypes'
  BY <1>1, <1>3, SetUpStays DEF EvTypes
<1>5. MergeInv'
  <2>1. ASSUME Live', NEW e \in Devices, queue'[e] > 0
        PROVE  \/ e \in early' \/ e \in full'
               \/ e \in async' /\ (sigOf'[e] \in pending' \/ <<sigOf'[e], e>> \in running')
    <3>1. CASE e = d
      BY <1>3, <2>1, <3>1
    <3>2. CASE e # d
      <4>1. <<sigOf[e], e>> \in running => <<sigOf[e], e>> \in running'
        BY <1>1, <3>2
      <4>2. \/ e \in early \/ e \in full
            \/ e \in async /\ (sigOf[e] \in pending \/ <<sigOf[e], e>> \in running)
        BY <1>1, <1>2, <1>3, <2>1, <3>2 DEF MergeInv
      <4> QED  BY <1>1, <1>3, <4>1, <4>2 DEF setupVars
    <3> QED  BY <3>1, <3>2
  <2>2. rtQueue' = <<>> /\ running' \subseteq {"SIGIO", "SIGUSR1"} \X Devices
    BY <1>1, <1>2 DEF MergeInv
  <2> QED  BY <2>1, <2>2 DEF MergeInv
<1>6. UnhandledInv' /\ RtInv' /\ UartInv' /\ EndsForAReason'
  BY <1>1, <1>2 DEF UnhandledInv, RtInv, UartInv, EndsForAReason, setupVars, Rt, Live
<1> QED  BY <1>1, <1>4, <1>5, <1>6, SetUpStays

LEMMA RtHandlerStep == ASSUME EvInv, RtHandler PROVE EvInv'
<1> USE DEF EvInv
<1>1. PICK d \in Devices :
        /\ Live /\ <<"SIGRTMIN", d>> \in running
        /\ \/ Read(d) /\ UNCHANGED ended
           \/ ReadNothing(d) /\ ended' = IF prog = "uart" THEN ended ELSE "error"
        /\ running' = running \ {<<"SIGRTMIN", d>>}
        /\ UNCHANGED <<prog, at, came, ready, setupVars, pending, rtQueue, early>>
  BY DEF RtHandler
<1>2. /\ handled # {} /\ prog \notin {"asyncio", "asyncio_concur"} /\ (Rt \/ prog = "uart")
  BY <1>1 DEF UnhandledInv, MergeInv, Driven, SignalDriven, Rt
<1>3. /\ queue' \in [Devices -> Nat] /\ full' \subseteq Devices /\ merged' \subseteq Devices
      /\ \A e \in Devices : e # d => queue'[e] = queue[e] /\ (e \in merged <=> e \in merged')
      /\ full \subseteq full' /\ merged \subseteq merged'
      /\ queue'[d] > 0 => d \in full'
      /\ "keys" \in merged' => "keys" \in merged
  BY <1>1, ReadsOfHandler
<1>4. EvTypes'
  BY <1>1, <1>3, SetUpStays DEF EvTypes
<1>5. ASSUME NEW e \in Devices
      PROVE  /\ Signalled(e) \in Nat
             /\ Signalled(e)' = IF e = d THEN Signalled(e) - 1 ELSE Signalled(e)
             /\ Signalled(d) > 0
  <2> DEFINE c(x) == Cardinality(Positions(rtQueue, x))
  <2>1. c(e) \in Nat /\ c(d) \in Nat /\ Positions(rtQueue, e)' = Positions(rtQueue, e)
    BY <1>1, PositionsFinite DEF EvTypes, Positions
  <2>2. /\ Signalled(e) = c(e) + IF <<"SIGRTMIN", e>> \in running THEN 1 ELSE 0
        /\ Signalled(d) = c(d) + 1
        /\ Signalled(e)' = c(e) + IF <<"SIGRTMIN", e>> \in running' THEN 1 ELSE 0
    BY <1>1, <2>1 DEF Signalled
  <2>3. e # d => (<<"SIGRTMIN", e>> \in running' <=> <<"SIGRTMIN", e>> \in running)
    BY <1>1
  <2>4. e = d => <<"SIGRTMIN", e>> \notin running' /\ <<"SIGRTMIN", e>> \in running
    BY <1>1
  <2> HIDE DEF c
  <2> QED  BY <2>1, <2>2, <2>3, <2>4
<1>6. CASE Rt
  <2>1. running' \subseteq {"SIGRTMIN"} \X Devices /\ pending' = {} /\ "keys" \notin merged'
    BY <1>1, <1>3, <1>6 DEF RtInv
  <2>2. ended' = "no" \/ (ended' = "error" /\ d \in merged)
    <3>1. CASE ended' = ended
      BY <1>1, <3>1 DEF Live
    <3>2. CASE queue[d] = 0 /\ ended' = "error"
      <4>1. Signalled(d) \in Nat /\ Signalled(d) > 0
        BY <1>5
      <4>2. d \notin merged => Signalled(d) <= 0
        BY <1>6, <3>2 DEF RtInv
      <4> QED  BY <3>2, <4>1, <4>2
    <3> QED  BY <1>1, <1>6, <3>1, <3>2 DEF ReadNothing, Rt
  <2>3. ASSUME NEW e \in Devices
        PROVE  /\ e \notin merged' => Signalled(e)' <= queue'[e]
               /\ Live' /\ e \notin early' => queue'[e] <= Signalled(e)'
    <3>1. /\ e \notin merged => Signalled(e) <= queue[e]
          /\ e \notin early => queue[e] <= Signalled(e)
      BY <1>1, <1>6 DEF RtInv
    <3>2. CASE e # d
      BY <1>1, <1>3, <1>5, <3>1, <3>2
    <3>3. CASE e = d /\ Read(d)
      <4>1. PICK n \in 1..queue[d] :
                 /\ queue' = [queue EXCEPT ![d] = queue[d] - n]
                 /\ n > 1 => d \in merged'
        BY <3>3, ReadTakes
      <4>2. queue[d] \in Nat /\ queue'[d] = queue[d] - n /\ n \in Nat /\ n > 0
        BY <4>1 DEF EvTypes
      <4> QED  BY <1>1, <1>3, <1>5, <3>1, <3>3, <4>1, <4>2
    <3>4. CASE e = d /\ ~Read(d)
      BY <1>1, <1>2, <1>3, <1>6, <2>2, <3>4 DEF Live, Rt
    <3> QED  BY <3>2, <3>3, <3>4
  <2>4. RtInv'
    BY <1>1, <2>1, <2>3 DEF RtInv
  <2>5. EndsForAReason'
    <3>1. d \in merged => d = "mouse"
      BY <1>6 DEF RtInv, Devices
    <3>2. prog # "uart"
      BY <1>6 DEF Rt
    <3>3. "mouse" \in merged => "mouse" \in merged'
      BY <1>3
    <3> QED  BY <1>1, <2>2, <3>1, <3>2, <3>3 DEF EndsForAReason
  <2>6. UnhandledInv' /\ MergeInv' /\ UartInv'
    BY <1>1, <1>2, <1>6 DEF UnhandledInv, MergeInv, UartInv, setupVars, Rt
  <2> QED  BY <1>1, <1>4, <2>4, <2>5, <2>6, SetUpStays
<1>7. CASE prog = "uart"
  <2>1. /\ ended' = "no" /\ running' \subseteq {"SIGRTMIN"} \X Devices /\ pending' = {}
        /\ \A e \in Devices : Positions(rtQueue, e)' = Positions(rtQueue, e)
    BY <1>1, <1>7 DEF Live, UartInv, Positions
  <2>2. ASSUME NEW e \in Devices, queue'[e] > 0
        PROVE  \/ e \in early' \/ e \in full' \/ <<"SIGRTMIN", e>> \in running'
               \/ Positions(rtQueue', e) # {}
    <3>1. CASE e = d
      BY <1>3, <2>2, <3>1
    <3>2. CASE e # d
      <4>1. <<"SIGRTMIN", e>> \in running => <<"SIGRTMIN", e>> \in running'
        BY <1>1, <3>2
      <4>2. \/ e \in early \/ e \in full \/ <<"SIGRTMIN", e>> \in running
            \/ Positions(rtQueue, e) # {}
        BY <1>1, <1>3, <1>7, <2>2, <3>2 DEF UartInv
      <4> QED  BY <1>1, <1>3, <4>1, <4>2
    <3> QED  BY <3>1, <3>2
  <2>3. UartInv'
    BY <1>1, <1>7, <2>1, <2>2 DEF UartInv
  <2>4. UnhandledInv' /\ MergeInv' /\ RtInv' /\ EndsForAReason'
    BY <1>1, <1>2, <1>7, <2>1 DEF UnhandledInv, MergeInv, RtInv, EndsForAReason, setupVars, Rt
  <2> QED  BY <1>1, <1>4, <2>3, <2>4, SetUpStays
<1> QED  BY <1>2, <1>6, <1>7

LEMMA SignalledStays ==
    ASSUME EvInv, NEW d \in Devices, UNCHANGED <<running, rtQueue>>
    PROVE  Signalled(d) \in Nat /\ Signalled(d)' = Signalled(d)
<1>1. Cardinality(Positions(rtQueue, d)) \in Nat
  BY PositionsFinite DEF EvInv, EvTypes
<1>2. Positions(rtQueue, d)' = Positions(rtQueue, d)
  BY DEF Positions
<1>3. Signalled(d) \in Nat
  BY <1>1 DEF Signalled
<1>4. Signalled(d)' = Signalled(d)
  BY <1>2 DEF Signalled
<1> QED  BY <1>3, <1>4

LEMMA ArriveStep == ASSUME EvInv, NEW d \in Devices, Arrive(d) PROVE EvInv'
<1> USE DEF EvInv
<1>1. /\ ended = "no" /\ early' = IF Raises(d) THEN early ELSE early \cup {d}
      /\ UNCHANGED <<prog, at, setupVars, running, readVars>>
      /\ UNCHANGED <<async, owned, sigOf, handled, full, merged>>
  BY DEF Arrive, Live, setupVars, readVars
<1>2. PICK n \in Lot(d) : queue' = [queue EXCEPT ![d] = queue[d] + n]
  BY DEF Arrive, EvTypes
<1>3. n \in Nat /\ n > 0 /\ (prog # "uart" => n = 1)
  BY <1>2, InputAssumption DEF Lot
<1>4. /\ queue' \in [Devices -> Nat] /\ queue'[d] = queue[d] + n /\ queue[d] \in Nat
      /\ \A e \in Devices : e # d => queue'[e] = queue[e]
  BY <1>2, <1>3 DEF EvTypes
<1>5. early' \subseteq Devices /\ early \subseteq early'
  BY <1>1 DEF EvTypes
<1>6. CASE ~Raises(d) /\ UNCHANGED <<pending, rtQueue, ended>>
  <2>1. d \in early'
    BY <1>1, <1>6
  <2>2. EvTypes'
    BY <1>1, <1>4, <1>5, <1>6, SetUpStays DEF EvTypes, readVars
  <2>3. UnhandledInv'
    BY <1>1, <1>4, <1>5, <1>6, <2>1 DEF UnhandledInv, Live
  <2>4. RtInv'
    <3>1. ASSUME NEW e \in Devices, Rt
          PROVE  /\ e \notin merged' => Signalled(e)' <= queue'[e]
                 /\ Live' /\ e \notin early' => queue'[e] <= Signalled(e)'
      <4>1. /\ e \notin merged => Signalled(e) <= queue[e]
            /\ e \notin early => queue[e] <= Signalled(e)
        BY <1>1, <3>1 DEF RtInv, Live
      <4>2. Signalled(e) \in Nat /\ Signalled(e)' = Signalled(e)
        BY <1>1, <1>6, SignalledStays
      <4> QED  BY <1>1, <1>3, <1>4, <1>5, <2>1, <4>1, <4>2
    <3> QED  BY <1>1, <1>6, <3>1 DEF RtInv, Rt
  <2>5. MergeInv'
    BY <1>1, <1>4, <1>5, <1>6, <2>1 DEF MergeInv, Live
  <2>6. UartInv'
    BY <1>1, <1>4, <1>5, <1>6, <2>1 DEF UartInv, Live
  <2>7. EndsForAReason'
    BY <1>1, <1>6 DEF EndsForAReason
  <2> QED  BY <1>1, <2>2, <2>3, <2>4, <2>5, <2>6, <2>7, SetUpStays
<1>7. CASE Raises(d) /\ sigOf[d] \notin handled /\ ended' = "killed" /\ UNCHANGED <<pending,
                                                                                    rtQueue>>
  <2>1. EvTypes'
    BY <1>1, <1>4, <1>5, <1>7, SetUpStays DEF EvTypes, readVars
  <2>2. UnhandledInv' /\ MergeInv' /\ UartInv'
    BY <1>1, <1>7 DEF UnhandledInv, MergeInv, UartInv, Live
  <2>3. RtInv'
    <3>1. ASSUME NEW e \in Devices, Rt
          PROVE  e \notin merged' => Signalled(e)' <= queue'[e]
      <4>1. e \notin merged => Signalled(e) <= queue[e]
        BY <3>1 DEF RtInv
      <4>2. Signalled(e) \in Nat /\ Signalled(e)' = Signalled(e) /\ queue[e] \in Nat
        BY <1>1, <1>7, SignalledStays DEF EvTypes
      <4> QED  BY <1>1, <1>3, <1>4, <4>1, <4>2
    <3> QED  BY <1>1, <1>7, <3>1 DEF RtInv, Rt, Live
  <2>4. EndsForAReason'
    <3>1. d \in async
      BY <1>7 DEF Raises
    <3>2. Call(at) # "spin"
      BY <1>7, <3>1, AllHandled
    <3> QED  BY <1>1, <1>7, <3>2 DEF EndsForAReason, Op, Call
  <2> QED  BY <1>1, <2>1, <2>2, <2>3, <2>4, SetUpStays
<1>8. CASE /\ Raises(d) /\ sigOf[d] \in handled \ {"SIGRTMIN"}
           /\ pending' = pending \cup {sigOf[d]} /\ UNCHANGED <<rtQueue, ended>>
  <2>1. /\ handled # {} /\ ~Rt /\ prog # "uart" /\ prog \in {"asyncio", "asyncio_concur"}
        /\ sigOf[d] \in {"SIGIO", "SIGUSR1"} /\ d \in async
    BY <1>8, HandledSignals DEF Driven, SignalDriven, Rt, Raises, SetUpInv, Signals
  <2>2. EvTypes'
    BY <1>1, <1>4, <1>5, <1>8, <2>1, SetUpStays DEF EvTypes, readVars
  <2>3. MergeInv'
    BY <1>1, <1>4, <1>5, <1>8, <2>1 DEF MergeInv, Live
  <2>4. UnhandledInv' /\ RtInv' /\ UartInv' /\ EndsForAReason'
    BY <1>1, <1>8, <2>1 DEF UnhandledInv, RtInv, UartInv, EndsForAReason, Rt
  <2> QED  BY <1>1, <2>2, <2>3, <2>4, SetUpStays
<1>9. CASE /\ Raises(d) /\ sigOf[d] \in handled \cap {"SIGRTMIN"}
           /\ rtQueue' = Append(rtQueue, d) /\ UNCHANGED <<pending, ended>>
  <2>1. handled # {} /\ prog \notin {"asyncio", "asyncio_concur"} /\ (Rt \/ prog = "uart")
    BY <1>9, HandledSignals DEF Driven, SignalDriven, Rt
  <2>2. rtQueue' \in Seq(Devices) /\ rtQueue \in Seq(Devices)
    BY <1>9 DEF EvTypes
  <2>3. EvTypes'
    BY <1>1, <1>4, <1>5, <1>9, <2>2, SetUpStays DEF EvTypes, readVars
  <2>4. ASSUME NEW e \in Devices
        PROVE  /\ Signalled(e) \in Nat
               /\ Signalled(e)' = Signalled(e) + IF e = d THEN 1 ELSE 0
               /\ Positions(rtQueue, e) # {} \/ e = d => Positions(rtQueue', e) # {}
    <3> DEFINE c == Cardinality(Positions(rtQueue, e))
    <3>1. Cardinality(Positions(rtQueue', e)) = c + IF d = e THEN 1 ELSE 0
      BY <1>9, <2>2, AppendCounts
    <3>2. /\ c \in Nat /\ IsFiniteSet(Positions(rtQueue, e)) /\ IsFiniteSet(Positions(rtQueue', e))
          /\ Positions(rtQueue, e)' = Positions(rtQueue', e)
      BY <2>2, PositionsFinite DEF Positions
    <3>3. Signalled(e)' = Cardinality(Positions(rtQueue', e))
                          + IF <<"SIGRTMIN", e>> \in running THEN 1 ELSE 0
      BY <1>1, <3>2 DEF Signalled
    <3>4. Signalled(e) = c + IF <<"SIGRTMIN", e>> \in running THEN 1 ELSE 0
      BY DEF Signalled
    <3>5. Positions(rtQueue, e) # {} => c # 0
      BY <3>2, FS_EmptySet
    <3>6. Cardinality(Positions(rtQueue', e)) # 0 => Positions(rtQueue', e) # {}
      BY <3>2, FS_EmptySet
    <3> HIDE DEF c
    <3> QED  BY <3>1, <3>2, <3>3, <3>4, <3>5, <3>6
  <2>5. RtInv'
    <3>1. ASSUME NEW e \in Devices, Rt
          PROVE  /\ e \notin merged' => Signalled(e)' <= queue'[e]
                 /\ Live' /\ e \notin early' => queue'[e] <= Signalled(e)'
      <4>1. /\ e \notin merged => Signalled(e) <= queue[e]
            /\ e \notin early => queue[e] <= Signalled(e)
        BY <1>1, <3>1 DEF RtInv, Live
      <4>2. n = 1 /\ queue[e] \in Nat
        BY <1>3, <3>1 DEF Rt, EvTypes
      <4> QED  BY <1>1, <1>4, <1>5, <2>4, <4>1, <4>2
    <3> QED  BY <1>1, <1>9, <3>1 DEF RtInv, Rt
  <2>6. UartInv'
    <3>1. ASSUME prog = "uart", NEW e \in Devices, queue'[e] > 0
          PROVE  \/ e \in early' \/ e \in full' \/ <<"SIGRTMIN", e>> \in running'
                 \/ Positions(rtQueue', e) # {}
      <4>1. CASE e = d
        BY <2>4, <4>1
      <4>2. CASE e # d
        BY <1>1, <1>4, <1>5, <2>4, <3>1, <4>2 DEF UartInv, Live
      <4> QED  BY <4>1, <4>2
    <3> QED  BY <1>1, <1>9, <3>1 DEF UartInv, Live
  <2>7. UnhandledInv' /\ MergeInv' /\ EndsForAReason'
    BY <1>1, <1>9, <2>1 DEF UnhandledInv, MergeInv, EndsForAReason
  <2> QED  BY <1>1, <2>3, <2>5, <2>6, <2>7, SetUpStays
<1> QED  BY <1>6, <1>7, <1>8, <1>9 DEF Arrive

LEMMA EvStep == EvInv /\ [Next]_vars => EvInv'
<1>1. ASSUME EvInv, UNCHANGED vars PROVE EvInv'
  <2>1. /\ UNCHANGED <<prog, at, queue, setupVars, pending, rtQueue, running, full, merged, early,
                       ended>>
        /\ UNCHANGED <<async, owned, sigOf, handled>>
    BY <1>1 DEF vars, setupVars, signalVars, readVars
  <2>2. EvTypes' /\ SetUpInv' /\ Driven'
    BY <1>1, <2>1, SetUpStays DEF EvInv, EvTypes
  <2>3. UnhandledInv' /\ MergeInv' /\ EndsForAReason'
    BY <1>1, <2>1 DEF EvInv, UnhandledInv, MergeInv, EndsForAReason, Live, Op
  <2>4. RtInv' /\ UartInv'
    BY <1>1, <2>1 DEF EvInv, RtInv, UartInv, Live, Rt, Signalled, Positions
  <2> QED  BY <2>2, <2>3, <2>4 DEF EvInv
<1>2. Next => \/ Main \/ Deliver \/ (\E s \in {"SIGIO", "SIGUSR1"} : Handler(s)) \/ RtHandler
              \/ (\E d \in Devices : Arrive(d)) \/ UNCHANGED vars
  BY DEF Next, Handlers, Over
<1> QED  BY <1>1, <1>2, MainStep, DeliverStep, HandlerStep, RtHandlerStep, ArriveStep

LEMMA EvAnnounces == ASSUME EvInv PROVE SignalsSuffice
<1> USE DEF EvInv
<1> SUFFICES ASSUME Live, Op = "spin", NEW d \in async, queue[d] > 0
             PROVE  \/ Announced(d) \/ d \in early
                    \/ (sigOf[d] # "SIGRTMIN" \/ prog = "uart") /\ d \in full
  BY DEF SignalsSuffice, NothingUnannounced
<1>1. Call(at) = "spin" /\ d \in Devices
  BY DEF Op, Call, SetUpInv
<1>2. handled # {}
  BY <1>1, AllHandled
<1>3. Positions(rtQueue, d) # {} => Announced(d)
  BY DEF Positions, Announced, EvTypes
<1>4. ASSUME NEW s, <<s, d>> \in running PROVE Announced(d)
  <2>1. <<s, d>>[2] = d
    OBVIOUS
  <2> QED  BY <1>4, <2>1 DEF Announced
<1>5. CASE Rt
  <2>1. d \in early \/ queue[d] <= Signalled(d)
    BY <1>1, <1>5 DEF RtInv
  <2>2. queue[d] \in Nat /\ IsFiniteSet(Positions(rtQueue, d)) /\ Cardinality(Positions(rtQueue, d)) \in Nat
    BY <1>1, PositionsFinite DEF EvTypes
  <2>3. Positions(rtQueue, d) = {} => Cardinality(Positions(rtQueue, d)) = 0
    BY <2>2, FS_EmptySet
  <2>4. Signalled(d) = Cardinality(Positions(rtQueue, d))
                       + IF <<"SIGRTMIN", d>> \in running THEN 1 ELSE 0
    BY DEF Signalled
  <2> QED  BY <1>3, <1>4, <2>1, <2>2, <2>3, <2>4
<1>6. CASE prog \in {"asyncio", "asyncio_concur"}
  <2>1. sigOf[d] # "SIGRTMIN"
    BY <1>2, <1>6, HandledSignals
  <2>2. sigOf[d] \in pending => Announced(d)
    BY DEF Announced
  <2> QED  BY <1>1, <1>4, <1>6, <2>1, <2>2 DEF MergeInv
<1>7. CASE prog = "uart"
  BY <1>1, <1>3, <1>4, <1>7 DEF UartInv
<1> QED  BY <1>5, <1>6, <1>7 DEF Driven, SignalDriven, Rt

(* In the signal-driven readers and in the serial port's, signals are      *)
(* enough, whatever the order in which reports come and handlers run, the  *)
(* size of the buffer and the number of reports.                           *)
THEOREM SignalsAreEnough == Spec => []SignalsSuffice
<1> DEFINE Inv == Driven => EvInv
<1>1. Init => Inv
  BY EvInit
<1>2. Inv /\ [Next]_vars => Inv'
  <2>1. [Next]_vars => prog' = prog
    BY DEF Next, Main, Open, WaitingRead, TryRead, LookRead, Poll, Serve, Again, Return, SetUp,
        Flush,
       Spin, Handlers, Deliver, Handler, RtHandler, Arrive, Over, vars
  <2>2. prog' = prog => (Driven' <=> Driven)
    BY DEF Driven
  <2> QED  BY <2>1, <2>2, EvStep
<1>3. Inv => SignalsSuffice
  <2>1. ~Driven => SignalsSuffice
    BY DEF Driven, SignalsSuffice, NothingUnannounced, EndsForAReason
  <2> QED  BY <2>1, EvAnnounces
<1> QED  BY <1>1, <1>2, <1>3, PTL DEF Spec

-----------------------------------------------------------------------------
(***************************************************************************)
(* The socket programs: what the client has sent is a sequence of pieces   *)
(* shorter than the buffer, and only the last begins with the exit line.   *)
(***************************************************************************)
Units == {"t", "e", "x"}

SockTypes ==
    /\ pair \in {"plain", "internet"}
    /\ sent \in Seq(Units) /\ got \in 0..Len(sent) /\ buf \in Seq(Units)
    /\ ends \subseteq 0..Len(sent) /\ Len(sent) \in ends
    /\ begun \in 0..got

(* A piece that begins with the exit line is the last, and the client ends *)
(* with no other.                                                          *)
PieceInv ==
    /\ \A e \in ends : e < Len(sent) /\ sent[e + 1] = "e" => client = "return" /\ Len(sent) = e + 2
    /\ client = "return" =>
           /\ pair = "plain" /\ Len(sent) >= 2
           /\ Len(sent) - 2 \in ends /\ Len(sent) - 1 \notin ends
           /\ sent[Len(sent) - 1] = "e" /\ sent[Len(sent)] = "x"

(* Pieces are shorter than the buffer.                                     *)
GapInv ==
    \A g \in 0..Len(sent) :
        g + BufRoom <= Len(sent) => \E e \in ends : g < e /\ e < g + BufRoom

(* Once the server has all of a client that took its leave and began with  *)
(* the exit line, it has taken leave itself.                               *)
TakenInv ==
    client = "return" /\ got = Len(sent) /\ begun = Len(sent) - 2 => server \in {"return", "killed"}

SockInv == SockTypes /\ PieceInv /\ GapInv /\ TakenInv /\ S!ExitUnderstood

LEMMA SockInit == S!Init => SockInv
<1> SUFFICES ASSUME S!Init PROVE SockInv
  OBVIOUS
<1>1. /\ pair \in {"plain", "internet"} /\ client = "off" /\ server = "off"
      /\ sent = <<>> /\ ends = {0} /\ got = 0 /\ buf = <<>> /\ begun = 0
  BY DEF S!Init
<1>2. sent \in Seq(Units) /\ Len(sent) = 0 /\ buf \in Seq(Units) /\ Len(buf) = 0
  BY <1>1
<1>3. SockTypes
  <2>1. got \in 0..Len(sent) /\ ends \subseteq 0..Len(sent) /\ Len(sent) \in ends
    BY <1>1, <1>2
  <2>2. begun \in 0..got
    BY <1>1
  <2> QED  BY <1>1, <1>2, <2>1, <2>2 DEF SockTypes
<1>4. PieceInv /\ TakenInv
  BY <1>1, <1>2 DEF PieceInv, TakenInv
<1>5. GapInv /\ S!ExitUnderstood
  BY <1>1, <1>2, InputAssumption DEF GapInv, S!ExitUnderstood, S!ExitLine
<1> QED  BY <1>3, <1>4, <1>5 DEF SockInv

LEMMA SendStep == ASSUME SockInv, S!SendPiece PROVE SockInv'
<1> USE DEF SockInv
<1>1. client = "connected" /\ pair = "plain" /\ UNCHANGED <<pair, server, got, buf, begun>>
  BY DEF S!SendPiece
<1>2. CASE client' \in {"killed", "error"} /\ UNCHANGED <<sent, ends>>
  BY <1>1, <1>2 DEF SockTypes, PieceInv, GapInv, TakenInv, S!ExitUnderstood
<1>3. CASE client' \notin {"killed", "error"}
  <2>1. PICK p \in S!Pieces : /\ sent' = sent \o p /\ ends' = ends \union {Len(sent')}
                             /\ client' = IF p = S!ExitLine THEN "return" ELSE client
    BY <1>3 DEF S!SendPiece
  <2>2. /\ p \in Seq(Units) /\ Len(p) \in 1..(BufRoom - 1)
        /\ p[1] = "e" \/ p = S!ExitLine => p = S!ExitLine /\ Len(p) = 2 /\ p[1] = "e" /\ p[2] = "x"
    <3>1. CASE p = <<"e", "x">>
      BY <3>1, <2>1, InputAssumption DEF S!Pieces, S!ExitLine, Units
    <3>2. CASE p = <<"t">>
      BY <3>2, <2>1, InputAssumption DEF S!Pieces, S!ExitLine, Units
    <3>3. CASE p = <<"t">> \o <<"e", "x">>
      <4>1. p \in Seq(Units) /\ Len(p) = 3 /\ p[1] = "t"
        BY <3>3 DEF Units
      <4>2. Len(p) < BufRoom
        BY <2>1 DEF S!Pieces
      <4>3. p # S!ExitLine
        BY <4>1 DEF S!ExitLine
      <4> QED  BY <4>1, <4>2, <4>3, InputAssumption
    <3> QED  BY <2>1, <3>1, <3>2, <3>3 DEF S!Pieces, S!ExitLine
  <2>3. /\ sent' \in Seq(Units) /\ Len(sent') = Len(sent) + Len(p)
        /\ \A i \in 1..Len(sent) : sent'[i] = sent[i]
        /\ \A i \in 1..Len(p) : sent'[Len(sent) + i] = p[i]
    BY <2>1, <2>2 DEF SockTypes
  <2>4. Len(sent) \in Nat /\ ends \subseteq 0..Len(sent) /\ Len(p) \in Nat /\ Len(p) > 0
    BY <2>2 DEF SockTypes
  <2>0. \A x : x \in ends' <=> x \in ends \/ x = Len(sent')
    BY <2>1
  <2> HIDE DEF SockInv
  <2>5. SockTypes'
    <3>1. got \in 0..Len(sent) /\ Len(sent) <= Len(sent') /\ Len(sent') \in Nat
      BY <2>3, <2>4 DEF SockInv, SockTypes
    <3>2. ends' \subseteq 0..Len(sent') /\ Len(sent') \in ends'
      <4>1. Len(sent') \in ends'
        BY <2>0
      <4>2. ASSUME NEW e \in ends' PROVE e \in 0..Len(sent')
        <5>1. CASE e = Len(sent')
          BY <3>1, <5>1
        <5>2. CASE e \in ends
          BY <2>4, <3>1, <5>2
        <5> QED  BY <2>0, <5>1, <5>2
      <4> QED  BY <4>1, <4>2
    <3>3. got' \in 0..Len(sent')
      BY <1>1, <2>4, <3>1
    <3> QED  BY <1>1, <2>3, <3>2, <3>3 DEF SockInv, SockTypes
  <2>6. PieceInv'
    <3>1. ASSUME NEW e \in ends', e < Len(sent'), sent'[e + 1] = "e"
          PROVE  client' = "return" /\ Len(sent') = e + 2
      <4>1. CASE e < Len(sent)
        <5>1. sent[e + 1] = "e" /\ e \in ends
          BY <2>1, <2>3, <2>4, <3>1, <4>1
        <5> QED  BY <1>1, <4>1, <5>1 DEF SockInv, PieceInv
      <4>2. CASE e = Len(sent)
        BY <2>1, <2>2, <2>3, <2>4, <3>1, <4>2
      <4> QED  BY <2>1, <2>4, <3>1, <4>1, <4>2
    <3>2. ASSUME client' = "return"
          PROVE  /\ pair' = "plain" /\ Len(sent') >= 2
                 /\ Len(sent') - 2 \in ends' /\ Len(sent') - 1 \notin ends'
                 /\ sent'[Len(sent') - 1] = "e" /\ sent'[Len(sent')] = "x"
      <4>1. p = S!ExitLine
        BY <1>1, <2>1, <3>2
      <4>2. Len(p) = 2 /\ p[1] = "e" /\ p[2] = "x"
        BY <2>2, <4>1
      <4>3. Len(sent') - 2 = Len(sent) /\ Len(sent') - 1 = Len(sent) + 1 /\ Len(sent') = Len(sent) + 2
        BY <2>3, <2>4, <4>2
      <4>4. sent'[Len(sent) + 1] = "e" /\ sent'[Len(sent) + 2] = "x"
        BY <2>3, <4>2
      <4>5. Len(sent) \in ends
        BY DEF SockInv, SockTypes
      <4>6. Len(sent) \in ends' /\ Len(sent) + 1 \notin ends'
        BY <2>0, <2>4, <4>3, <4>5
      <4>7. sent'[Len(sent') - 1] = "e" /\ sent'[Len(sent')] = "x"
        BY <4>3, <4>4
      <4> QED  BY <1>1, <2>4, <4>3, <4>6, <4>7
    <3> QED  BY <3>1, <3>2 DEF PieceInv
  <2>7. GapInv'
    <3> SUFFICES ASSUME NEW g \in 0..Len(sent'), g + BufRoom <= Len(sent')
                 PROVE  \E e \in ends' : g < e /\ e < g + BufRoom
      BY DEF GapInv
    <3>1. CASE g + BufRoom <= Len(sent)
      BY <2>1, <2>4, <3>1, InputAssumption DEF SockInv, GapInv
    <3>2. CASE g + BufRoom > Len(sent)
      <4>1. Len(sent) \in ends' /\ g < Len(sent) /\ Len(sent) < g + BufRoom
        BY <2>1, <2>2, <2>3, <2>4, <3>2, InputAssumption DEF SockInv, SockTypes
      <4> QED  BY <4>1
    <3> QED  BY <2>4, <3>1, <3>2, InputAssumption
  <2>8. TakenInv' /\ S!ExitUnderstood'
    <3>1. got < Len(sent') /\ got' = got
      BY <1>1, <2>3, <2>4 DEF SockInv, SockTypes
    <3>2. server = "return" => begun' \notin ends'
      <4>1. server = "return" => begun \notin ends
        BY <1>1 DEF SockInv, S!ExitUnderstood
      <4>2. begun' < Len(sent')
        BY <1>1, <2>4, <3>1 DEF SockInv, SockTypes
      <4> QED  BY <1>1, <2>0, <4>1, <4>2
    <3>3. got' < Len(sent') /\ Len(sent') \in Nat /\ got' \in Nat /\ ends \subseteq ends'
      BY <2>1, <2>3, <2>4, <3>1 DEF SockInv, SockTypes
    <3>4. TakenInv'
      BY <1>1, <2>1, <3>3 DEF SockInv, TakenInv
    <3>5. S!ExitUnderstood'
      BY <1>1, <3>2, <3>3 DEF SockInv, S!ExitUnderstood, SockTypes
    <3> QED  BY <3>4, <3>5
  <2> QED  BY <2>5, <2>6, <2>7, <2>8 DEF SockInv
<1> QED  BY <1>1, <1>2, <1>3 DEF S!SendPiece

LEMMA ReceiveStep == ASSUME SockInv, S!Receive PROVE SockInv'
<1> USE DEF SockInv
<1>1. /\ server = "serving" /\ got < Len(sent) /\ UNCHANGED <<pair, client, sent, ends>>
      /\ begun' = got
      /\ server' = IF pair = "plain" /\ buf' = S!ExitLine THEN "return" ELSE server
  BY DEF S!Receive
<1>2. PICK n \in 1..BufRoom : /\ got + n <= Len(sent) /\ got' = got + n
                              /\ buf' = SubSeq(sent, got + 1, got + n)
  BY DEF S!Receive
<1>3. /\ n \in Nat /\ n > 0 /\ got \in Nat /\ Len(sent) \in Nat /\ got' \in 0..Len(sent) /\ BufRoom \in Nat
  BY <1>2, InputAssumption DEF SockTypes
<1>4. /\ buf' \in Seq(Units) /\ Len(buf') = n
      /\ \A i \in 1..n : buf'[i] = sent[got + i]
  BY <1>2, <1>3 DEF SockTypes
<1>5. SockTypes' /\ PieceInv' /\ GapInv'
  <2>1. begun' \in 0..got'
    BY <1>1, <1>2, <1>3
  <2>2. SockTypes'
    BY <1>1, <1>3, <1>4, <2>1 DEF SockTypes
  <2>3. PieceInv'
    BY <1>1 DEF PieceInv
  <2>4. GapInv'
    BY <1>1 DEF GapInv
  <2> QED  BY <2>2, <2>3, <2>4
<1>6. ASSUME server' = "return", begun' \in ends' PROVE client = "return" /\ got' = Len(sent)
  <2>1. buf' = <<"e", "x">>
    BY <1>1, <1>6 DEF S!ExitLine
  <2>2. n = 2 /\ sent[got + 1] = "e"
    BY <1>4, <2>1
  <2> QED  BY <1>1, <1>2, <1>6, <2>2 DEF PieceInv
<1>7. ASSUME client = "return", got' = Len(sent), begun' = Len(sent) - 2
      PROVE  server' = "return"
  <2>1. pair = "plain" /\ sent[Len(sent) - 1] = "e" /\ sent[Len(sent)] = "x"
    BY <1>7 DEF PieceInv
  <2>2. n = 2 /\ buf'[1] = "e" /\ buf'[2] = "x"
    BY <1>1, <1>2, <1>3, <1>4, <1>7, <2>1
  <2>3. buf' = S!ExitLine
    BY <1>4, <2>2 DEF S!ExitLine
  <2> QED  BY <1>1, <2>1, <2>3
<1>8. Len(buf') = BufRoom => \E e \in ends : got < e /\ e < got'
  BY <1>1, <1>2, <1>3, <1>4 DEF GapInv
<1>9. TakenInv'
  BY <1>1, <1>7 DEF TakenInv
<1>10. S!ExitUnderstood'
  <2>1. Len(S!ExitLine) = 2
    BY DEF S!ExitLine
  <2> QED  BY <1>1, <1>6, <1>7, <1>8, <2>1 DEF S!ExitUnderstood
<1> QED  BY <1>5, <1>9, <1>10

(* Everything else leaves the text alone.                                  *)
LEMMA QuietStep ==
    ASSUME SockInv,
           \/ S!Listen \/ S!Accept \/ S!Connect \/ S!SendNothing \/ S!KillClient
           \/ S!ReceiveEnd \/ S!ReceiveFails \/ S!KillServer \/ UNCHANGED S!vars
    PROVE  SockInv'
<1> USE DEF SockInv
<1>1. /\ UNCHANGED <<pair, sent, ends, got, begun>>
      /\ buf' = buf \/ buf' = <<>>
      /\ client' = client \/ (client # "return" /\ client' # "return")
      /\ \/ server' = server
         \/ server \in {"off", "listening", "serving"} /\ server' # "return"
      /\ server' = "error" /\ client = "return" => server \in {"error", "serving", "listening", "off"}
  BY DEF S!Listen, S!Accept, S!Connect, S!SendNothing, S!KillClient, S!ReceiveEnd, S!ReceiveFails,
     S!KillServer, S!vars, S!dataVars, S!Here
<1>2. buf' \in Seq(Units) /\ (Len(buf') = BufRoom => Len(buf) = BufRoom)
  <2>1. CASE buf' = buf
    BY <2>1 DEF SockTypes
  <2>2. CASE buf' = <<>>
    BY <2>2, InputAssumption
  <2> QED  BY <1>1, <2>1, <2>2
<1>3. SockTypes' /\ GapInv'
  BY <1>1, <1>2 DEF SockTypes, GapInv
<1>4. PieceInv'
  BY <1>1 DEF PieceInv
<1>5. TakenInv'
  BY <1>1 DEF TakenInv
<1>6. S!ExitUnderstood'
  <2>1. Len(S!ExitLine) = 2
    BY DEF S!ExitLine
  <2> QED  BY <1>1, <1>2, <2>1 DEF S!ExitUnderstood, TakenInv, SockTypes
<1> QED  BY <1>3, <1>4, <1>5, <1>6

(* server.c of 30_socket, where its last recv began with a piece, takes    *)
(* its leave only when client.c has, does not miss the exit line it began  *)
(* with, and fills its buf only with units of several pieces: whatever was *)
(* torn before, for every size of the buffer and every number of pieces.   *)
THEOREM LeaveIsTaken == S!Spec => []ExitUnderstood
<1>1. SockInv /\ [S!Next]_(S!vars) => SockInv'
  BY SendStep, ReceiveStep, QuietStep DEF S!Next, S!Server, S!Client, S!Over
<1>2. SockInv => ExitUnderstood
  BY DEF SockInv, ExitUnderstood
<1> QED  BY <1>1, <1>2, SockInit, PTL DEF S!Spec
=============================================================================

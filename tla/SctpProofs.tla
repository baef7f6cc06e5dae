----------------------------- MODULE SctpProofs -----------------------------
(***************************************************************************)
(* What Sctp.cfg checks of the two servers for two clients and two streams, *)
(* proved for any number of each and for any lines.                         *)
(***************************************************************************)
EXTENDS Sctp, FiniteSetTheorems, TLAPS

(* What travels: the length of an echo, or the date or the time of a moment. *)
EchoMessages == [len : Nat]
ClockMessages == [type : {"TIME", "DATE"}, at : Nat]
WireTypeOK ==
  /\ Echo => wire \in [Clients -> [Streams -> Seq(EchoMessages)]]
  /\ Clock => wire \in [Clients -> [Streams -> Seq(ClockMessages)]]

-----------------------------------------------------------------------------
(* server3: the text a client has sent last is in one place, in the queue of  *)
(* the socket, in the server's hands, or on the way back on the stream due.   *)
Out(where) == where \in {"waits", "killed", "error"}
Due(which, on) == IF which = "echo1" THEN (on + 1) % MaxStreams ELSE 0
From(q, c) == \E k \in 1..Len(q) : q[k].from = c

InQueue ==
  /\ \A k \in 1..Len(queue) : /\ Out(pc[queue[k].from])
                              /\ queue[k].len = sent[queue[k].from]
                              /\ queue[k].on = stream[queue[k].from]
  /\ \A j, k \in 1..Len(queue) : queue[j].from = queue[k].from => j = k

InHand ==
  spc = "send" => /\ peer \in Clients /\ Out(pc[peer]) /\ ~From(queue, peer)
                  /\ text = sent[peer] /\ next_stream = Due(service, stream[peer])

OnTheWay ==
  \A c \in Clients : \A s \in Streams : wire[c][s] # <<>> =>
    /\ Len(wire[c][s]) = 1 /\ wire[c][s][1].len = sent[c]
    /\ s = Due(service, stream[c])
    /\ Out(pc[c]) /\ ~From(queue, c) /\ (spc = "send" => peer # c)

Counted ==
  /\ \A c \in Clients : stream[c] = IF service = "echo1" THEN rounds[c] % MaxStreams ELSE 0
  /\ service # "echo1" => next_stream = 0

Echoed == \A c \in Clients : pc[c] = "ready" /\ rounds[c] > 0 => echo[c] = sent[c]

EchoInv ==
  /\ spc \in {"receive", "send", "dead"}
  /\ InQueue /\ InHand /\ OnTheWay /\ Counted /\ Echoed

-----------------------------------------------------------------------------
(* server2: all a client has been told is of one moment, that of the reading  *)
(* in hand while the client is served; before, it has been told nothing.      *)
AllAt(seen, way, t) ==
  /\ \A m \in seen : m.at = t
  /\ \A s \in Streams : \A k \in 1..Len(way[s]) : way[s][k].at = t

Untold(seen, way) == seen = {} /\ \A s \in Streams : way[s] = <<>>

Waiting ==
  /\ \A k \in 1..Len(queue) : pc[queue[k]] # "ready" /\ Untold(shown[queue[k]], wire[queue[k]])
  /\ \A j, k \in 1..Len(queue) : queue[j] = queue[k] => j = k

Served ==
  spc \in {"time", "date", "close"} =>
    /\ peer \in Clients /\ pc[peer] # "ready"
    /\ \A k \in 1..Len(queue) : queue[k] # peer
    /\ AllAt(shown[peer], wire[peer], text)

OfOneMoment == \A c \in Clients : \E t \in Nat : AllAt(shown[c], wire[c], t)

ToldNothing == \A c \in Clients : pc[c] = "ready" => Untold(shown[c], wire[c])

ClockInv ==
  /\ spc \in {"receive", "time", "date", "close"}
  /\ queue \in Seq(Clients)
  /\ shown \in [Clients -> SUBSET ClockMessages]
  /\ Waiting /\ Served /\ OfOneMoment /\ ToldNothing

IInv == TypeOK /\ WireTypeOK /\ (Echo => EchoInv) /\ (Clock => ClockInv)

-----------------------------------------------------------------------------
(* Counting on from a remainder. *)
LEMMA Multiple ==
  ASSUME NEW M \in Nat \ {0}, NEW p \in Nat, NEW n \in Nat, n = M * p
  PROVE  n % M = 0
<1>1. n = M * p + 0 /\ 0 \in 0..(M - 1)
    OBVIOUS
<1> QED
    BY <1>1

LEMMA NextRemainder ==
  ASSUME NEW M \in Nat \ {0}, NEW n \in Nat
  PROVE  ((n % M) + 1) % M = (n + 1) % M
<1> DEFINE q == n \div M
           s == n % M
<1>1. n = M * q + s /\ s \in 0..(M - 1) /\ q \in Nat
    OBVIOUS
<1>2. s = n % M
    OBVIOUS
<1> HIDE DEF q, s
<1>3. CASE s + 1 < M
    <2>1. s + 1 \in 0..(M - 1) /\ n + 1 = M * q + (s + 1)
        BY <1>1, <1>3
    <2>2. (n + 1) % M = s + 1
        BY <1>1, <2>1
    <2>3. (s + 1) % M = s + 1
        BY <2>1
    <2> QED
        BY <1>2, <2>2, <2>3
<1>4. CASE s + 1 = M
    <2>1. PICK p \in Nat : p = q + 1
        BY <1>1
    <2>2. n + 1 = M * p
        BY <1>1, <1>4, <2>1
    <2>3. PICK k \in Nat : k = n + 1
        OBVIOUS
    <2>4. k % M = 0
        BY <2>2, <2>3, Multiple
    <2>5. (s + 1) % M = 0
        BY <1>4
    <2> QED
        BY <1>2, <2>3, <2>4, <2>5
<1> QED
    BY <1>1, <1>3, <1>4

LEMMA StreamsNonempty == 0 \in Streams /\ 1 \in Streams /\ MaxStreams \in Nat \ {0}
BY SctpAssumption DEF Streams

LEMMA InitInv == Init => IInv
<1> SUFFICES ASSUME Init PROVE IInv
    OBVIOUS
<1>1. TypeOK
    BY SctpAssumption, StreamsNonempty DEF Init, TypeOK, Echo
<1>2. WireTypeOK
    BY DEF Init, WireTypeOK
<1>3. EchoInv
    <2>1. InQueue /\ InHand /\ OnTheWay /\ Echoed
        BY DEF Init, InQueue, InHand, OnTheWay, Echoed
    <2>2. Counted
        BY StreamsNonempty DEF Init, Counted
    <2> QED
        BY <2>1, <2>2 DEF EchoInv, Init
<1>4. Clock => ClockInv
    <2>1. Waiting /\ Served
        BY DEF Init, Waiting, Served
    <2>2. \A c \in Clients : Untold(shown[c], wire[c]) /\ AllAt(shown[c], wire[c], 0)
        BY DEF Init, Untold, AllAt
    <2>3. OfOneMoment /\ ToldNothing
        BY <2>2 DEF OfOneMoment, ToldNothing
    <2> QED
        BY <2>1, <2>3 DEF ClockInv, Init
<1> QED
    BY <1>1, <1>2, <1>3, <1>4 DEF IInv

-----------------------------------------------------------------------------
(* server3 and client3 *)
(* The echo's part of the invariant, with what it says of the types used. *)
EchoTypes ==
  /\ Echo /\ ~Clock
  /\ peer \in Clients \cup {NoClient}
  /\ text \in Nat /\ next_stream \in Streams
  /\ stream \in [Clients -> Streams]
  /\ line \in [Clients -> Nat] /\ typed \in [Clients -> Nat] /\ sent \in [Clients -> Nat]
  /\ echo \in [Clients -> Nat] /\ rounds \in [Clients -> Nat]
  /\ pc \in [Clients -> {"ready", "waits", "done", "error", "killed", "crashed"}]
  /\ queue \in Seq([from : Clients, on : Streams, len : 0 .. BuffSize - 2])
  /\ wire \in [Clients -> [Streams -> Seq(EchoMessages)]]

LEMMA EchoHas ==
  ASSUME IInv, Echo
  PROVE  TypeOK /\ EchoTypes /\ EchoInv
BY DEF IInv, TypeOK, WireTypeOK, EchoTypes, Echo, Clock

LEMMA QueuedType ==
  ASSUME EchoTypes, NEW k \in 1..Len(queue)
  PROVE  queue[k].from \in Clients /\ queue[k].on \in Streams /\ queue[k].len \in 0 .. BuffSize - 2
<1> DEFINE R == [from : Clients, on : Streams, len : 0 .. BuffSize - 2]
<1>1. queue \in Seq(R)
    BY DEF EchoTypes
<1> HIDE DEF R
<1>2. queue[k] \in R
    BY <1>1
<1> QED
    BY <1>2 DEF R

LEMMA EchoGives ==
  ASSUME TypeOK', EchoTypes', EchoInv'
  PROVE  IInv'
BY DEF IInv, WireTypeOK, EchoTypes, Clock, Echo

(* What only a client's own user sees has changed. *)
LEMMA Unseen ==
  ASSUME EchoInv, UNCHANGED <<service, spc, peer, text, next_stream, queue, pc, stream, sent, echo, rounds, wire>>
  PROVE  EchoInv'
BY DEF EchoInv, InQueue, InHand, OnTheWay, Counted, Echoed

LEMMA TypeLine ==
  ASSUME IInv, NEW c \in Clients, Type(c)
  PROVE  IInv'
<1>1. Echo /\ TypeOK /\ EchoTypes /\ EchoInv
    BY EchoHas DEF Type
<1>2. line' \in [Clients -> Nat] /\ typed' \in [Clients -> Nat] /\ left' \in {left, left \cup {c}}
    <2>1. PICK n \in Lines : /\ typed' = [typed EXCEPT ![c] = n]
                             /\ \/ line' = [line EXCEPT ![c] = n + 1] /\ UNCHANGED left
                                \/ line' = [line EXCEPT ![c] = n] /\ left' = left \cup {c}
        BY DEF Type
    <2>2. n \in Nat /\ n + 1 \in Nat
        BY SctpAssumption
    <2> QED
        BY <1>1, <2>1, <2>2 DEF EchoTypes
<1>3. TypeOK' /\ EchoTypes'
    BY <1>1, <1>2 DEF Type, TypeOK, EchoTypes, serverVars, Echo, Clock
<1>4. EchoInv'
    BY <1>1, Unseen DEF Type, serverVars
<1> QED
    BY <1>3, <1>4, EchoGives

(* Nothing of a client that is not out is on its way. *)
LEMMA Ready ==
  ASSUME EchoTypes, EchoInv, NEW c \in Clients, ~Out(pc[c])
  PROVE  ~From(queue, c) /\ (spc = "send" => peer # c) /\ \A s \in Streams : wire[c][s] = <<>>
<1>1. ~From(queue, c)
    BY DEF EchoInv, InQueue, From
<1>2. spc = "send" => peer # c
    BY DEF EchoInv, InHand
<1>3. \A s \in Streams : wire[c][s] = <<>>
    BY DEF EchoInv, OnTheWay
<1> QED
    BY <1>1, <1>2, <1>3

(* A client leaves, of its own accord, while it has nothing out. *)
LEMMA Quits ==
  ASSUME EchoTypes, EchoInv, NEW c \in Clients, pc[c] = "ready", NEW v \in {"done", "error", "crashed"},
         pc' = [pc EXCEPT ![c] = v],
         UNCHANGED <<service, spc, peer, text, next_stream, queue, stream, sent, echo, rounds, wire>>
  PROVE  EchoInv' /\ pc' \in [Clients -> {"ready", "waits", "done", "error", "killed", "crashed"}]
<1>1. pc'[c] = v /\ \A d \in Clients : d # c => pc'[d] = pc[d]
    BY DEF EchoTypes
<1>2. ~Out(pc[c])
    BY DEF Out
<1>3. ~From(queue, c) /\ (spc = "send" => peer # c) /\ \A s \in Streams : wire[c][s] = <<>>
    BY <1>2, Ready
<1>4. \A k \in 1..Len(queue) : queue[k].from \in Clients \ {c}
    BY <1>3, QueuedType DEF From
<1>5. InQueue'
    BY <1>1, <1>4 DEF EchoInv, InQueue
<1>6. InHand'
    BY <1>1, <1>3 DEF EchoInv, InHand
<1>7. OnTheWay'
    BY <1>1, <1>3 DEF EchoInv, OnTheWay
<1>8. Counted' /\ Echoed'
    BY <1>1 DEF EchoInv, Counted, Echoed
<1> QED
    BY <1>5, <1>6, <1>7, <1>8 DEF EchoInv, EchoTypes

(* A client sends to a server that has ended, and waits. *)
LEMMA Unanswered ==
  ASSUME EchoTypes, EchoInv, NEW c \in Clients, pc[c] = "ready", NEW n \in Nat,
         pc' = [pc EXCEPT ![c] = "waits"], sent' = [sent EXCEPT ![c] = n],
         UNCHANGED <<service, spc, peer, text, next_stream, queue, stream, echo, rounds, wire>>
  PROVE  /\ EchoInv' /\ sent' \in [Clients -> Nat]
         /\ pc' \in [Clients -> {"ready", "waits", "done", "error", "killed", "crashed"}]
<1>1. /\ pc'[c] = "waits"
      /\ \A d \in Clients : d # c => pc'[d] = pc[d] /\ sent'[d] = sent[d]
    BY DEF EchoTypes
<1>2. ~From(queue, c) /\ (spc = "send" => peer # c) /\ \A s \in Streams : wire[c][s] = <<>>
    BY Ready DEF Out
<1>3. \A k \in 1..Len(queue) : queue[k].from \in Clients \ {c}
    BY <1>2, QueuedType DEF From
<1>4. InQueue'
    BY <1>1, <1>3 DEF EchoInv, InQueue
<1>5. InHand'
    BY <1>1, <1>2 DEF EchoInv, InHand
<1>6. OnTheWay'
    BY <1>1, <1>2 DEF EchoInv, OnTheWay
<1>7. Counted' /\ Echoed'
    BY <1>1 DEF EchoInv, Counted, Echoed
<1> QED
    BY <1>4, <1>5, <1>6, <1>7 DEF EchoInv, EchoTypes

(* What ReadLine and EndOfInput do to the queue. *)
LEMMA SendInv ==
  ASSUME EchoTypes, EchoInv, NEW c \in Clients, pc[c] = "ready", NEW n \in 0 .. BuffSize - 2, Send(c, n),
         UNCHANGED <<service, spc, peer, text, next_stream, stream, echo, rounds, wire>>
  PROVE  /\ EchoInv'
         /\ pc' \in [Clients -> {"ready", "waits", "done", "error", "killed", "crashed"}]
         /\ sent' \in [Clients -> Nat]
         /\ queue' \in Seq([from : Clients, on : Streams, len : 0 .. BuffSize - 2])
<1>1. CASE spc = "dead"
    <2>1. CASE pc' = [pc EXCEPT ![c] = "error"] /\ UNCHANGED <<sent, queue>>
        BY <2>1, Quits DEF EchoTypes
    <2>2. CASE pc' = [pc EXCEPT ![c] = "waits"] /\ sent' = [sent EXCEPT ![c] = n] /\ UNCHANGED queue
        <3>1. n \in Nat
            BY SctpAssumption
        <3> QED
            BY <2>2, <3>1, Unanswered DEF EchoTypes
    <2> QED
        BY <1>1, <2>1, <2>2 DEF Send
<1>2. CASE spc # "dead"
    <2> DEFINE m == [from |-> c, on |-> stream[c], len |-> n]
    <2>1. m \in [from : Clients, on : Streams, len : 0 .. BuffSize - 2]
        BY DEF EchoTypes
    <2>2. pc' = [pc EXCEPT ![c] = "waits"] /\ sent' = [sent EXCEPT ![c] = n] /\ queue' = Append(queue, m)
        BY <1>2 DEF Send
    <2>3. m.from = c /\ m.on = stream[c] /\ m.len = n
        OBVIOUS
    <2>4. queue \in Seq([from : Clients, on : Streams, len : 0 .. BuffSize - 2])
        BY DEF EchoTypes
    <2> HIDE DEF m
    <2>5. /\ Len(queue) \in Nat /\ Len(queue') = Len(queue) + 1
          /\ queue' \in Seq([from : Clients, on : Streams, len : 0 .. BuffSize - 2])
          /\ queue'[Len(queue) + 1] = m
          /\ \A k \in 1..Len(queue) : queue'[k] = queue[k]
        BY <2>1, <2>2, <2>4
    <2>6. /\ pc'[c] = "waits" /\ sent'[c] = n
          /\ \A d \in Clients : d # c => pc'[d] = pc[d] /\ sent'[d] = sent[d]
        BY <2>2 DEF EchoTypes
    <2>7. ~From(queue, c) /\ (spc = "send" => peer # c) /\ \A s \in Streams : wire[c][s] = <<>>
        BY Ready DEF Out
    <2>8. \A k \in 1..Len(queue) : queue[k].from \in Clients \ {c}
        BY <2>7, QueuedType DEF From
    <2>9. InQueue'
        <3>1. \A k \in 1..Len(queue) : /\ pc'[queue[k].from] = pc[queue[k].from]
                                        /\ sent'[queue[k].from] = sent[queue[k].from]
            BY <2>6, <2>8
        <3>2. ASSUME NEW k \in 1..Len(queue')
              PROVE  /\ Out(pc'[queue'[k].from])
                     /\ queue'[k].len = sent'[queue'[k].from]
                     /\ queue'[k].on = stream[queue'[k].from]
            <4>1. CASE k \in 1..Len(queue)
                BY <2>5, <3>1, <4>1 DEF EchoInv, InQueue
            <4>2. CASE k = Len(queue) + 1
                BY <2>3, <2>5, <2>6, <4>2 DEF Out
            <4> QED
                BY <2>5, <4>1, <4>2
        <3>3. ASSUME NEW j \in 1..Len(queue'), NEW k \in 1..Len(queue'), queue'[j].from = queue'[k].from
              PROVE  j = k
            <4>1. CASE j \in 1..Len(queue) /\ k \in 1..Len(queue)
                BY <2>5, <3>3, <4>1 DEF EchoInv, InQueue
            <4>2. CASE j = Len(queue) + 1 \/ k = Len(queue) + 1
                BY <2>3, <2>5, <2>8, <3>3, <4>2
            <4> QED
                BY <2>5, <4>1, <4>2
        <3> QED
            BY <3>2, <3>3 DEF InQueue
    <2>10. \A d \in Clients : d # c => (From(queue', d) <=> From(queue, d))
        <3> SUFFICES ASSUME NEW d \in Clients, d # c PROVE From(queue', d) <=> From(queue, d)
            OBVIOUS
        <3>1. ASSUME NEW k \in 1..Len(queue'), queue'[k].from = d PROVE From(queue, d)
            <4>1. k \in 1..Len(queue)
                BY <2>3, <2>5, <3>1
            <4> QED
                BY <2>5, <3>1, <4>1 DEF From
        <3>2. ASSUME NEW k \in 1..Len(queue), queue[k].from = d PROVE From(queue', d)
            <4>1. k \in 1..Len(queue') /\ queue'[k].from = d
                BY <2>5, <3>2
            <4> QED
                BY <4>1 DEF From
        <3> QED
            BY <3>1, <3>2 DEF From
    <2>11. InHand'
        BY <2>6, <2>7, <2>10 DEF EchoInv, InHand
    <2>12. OnTheWay'
        BY <2>6, <2>7, <2>10 DEF EchoInv, OnTheWay
    <2>13. Counted' /\ Echoed'
        BY <2>6 DEF EchoInv, Counted, Echoed
    <2>14. sent' \in [Clients -> Nat] /\ pc' \in [Clients -> {"ready", "waits", "done", "error", "killed", "crashed"}]
        BY <2>2 DEF EchoTypes
    <2> QED
        BY <2>5, <2>9, <2>11, <2>12, <2>13, <2>14 DEF EchoInv
<1> QED
    BY <1>1, <1>2

LEMMA ReadLineInv ==
  ASSUME IInv, NEW c \in Clients, ReadLine(c)
  PROVE  IInv'
<1> DEFINE piece == IF line[c] < BuffSize THEN line[c] ELSE BuffSize - 1
<1>1. Echo /\ TypeOK /\ EchoTypes /\ EchoInv
    BY EchoHas DEF ReadLine
<1>2. /\ pc[c] = "ready" /\ line[c] > 0
      /\ line' = [line EXCEPT ![c] = @ - piece]
      /\ IF BareNewline(c) THEN pc' = [pc EXCEPT ![c] = "done"] /\ UNCHANGED <<sent, queue>>
                           ELSE Send(c, Text(piece))
      /\ UNCHANGED <<service, spc, peer, text, next_stream, clock, stream, typed, echo, rounds, wire, closed, shown, left>>
    BY DEF ReadLine, serverVars
<1>3. line[c] \in Nat /\ BuffSize \in Nat \ {0, 1, 2}
    BY <1>1, SctpAssumption DEF EchoTypes
<1>4. /\ piece \in 1 .. BuffSize - 1 /\ line[c] - piece \in Nat
      /\ Text(piece) \in 0 .. BuffSize - 2
    BY <1>2, <1>3 DEF Text
<1> HIDE DEF piece
<1>5. line' \in [Clients -> Nat]
    BY <1>1, <1>2, <1>4 DEF EchoTypes
<1>6. /\ EchoInv'
      /\ pc' \in [Clients -> {"ready", "waits", "done", "error", "killed", "crashed"}]
      /\ sent' \in [Clients -> Nat]
      /\ queue' \in Seq([from : Clients, on : Streams, len : 0 .. BuffSize - 2])
    <2>1. CASE BareNewline(c)
        BY <1>1, <1>2, <2>1, Quits DEF EchoTypes
    <2>2. CASE ~BareNewline(c)
        BY <1>1, <1>2, <1>4, <2>2, SendInv
    <2> QED
        BY <2>1, <2>2
<1>7. TypeOK' /\ EchoTypes'
    BY <1>1, <1>2, <1>5, <1>6 DEF TypeOK, EchoTypes, Echo, Clock
<1> QED
    BY <1>6, <1>7, EchoGives

LEMMA EndOfInputInv ==
  ASSUME IInv, NEW c \in Clients, EndOfInput(c)
  PROVE  IInv'
<1>1. Echo /\ TypeOK /\ EchoTypes /\ EchoInv
    BY EchoHas DEF EndOfInput
<1>2. /\ pc[c] = "ready" /\ left' = left \cup {c}
      /\ \/ pc' = [pc EXCEPT ![c] = "crashed"] /\ UNCHANGED <<sent, queue>>
         \/ Send(c, 0)
      /\ UNCHANGED <<service, spc, peer, text, next_stream, clock, stream, line, typed, echo, rounds, wire, closed, shown>>
    BY DEF EndOfInput, serverVars
<1>3. 0 \in 0 .. BuffSize - 2
    BY SctpAssumption
<1>4. /\ EchoInv'
      /\ pc' \in [Clients -> {"ready", "waits", "done", "error", "killed", "crashed"}]
      /\ sent' \in [Clients -> Nat]
      /\ queue' \in Seq([from : Clients, on : Streams, len : 0 .. BuffSize - 2])
    <2>1. CASE Send(c, 0)
        BY <1>1, <1>2, <1>3, <2>1, SendInv
    <2>2. CASE pc' = [pc EXCEPT ![c] = "crashed"] /\ UNCHANGED <<sent, queue>>
        BY <1>1, <1>2, <2>2, Quits DEF EchoTypes
    <2> QED
        BY <1>2, <2>1, <2>2
<1>5. TypeOK' /\ EchoTypes'
    BY <1>1, <1>2, <1>4 DEF TypeOK, EchoTypes, Echo, Clock
<1> QED
    BY <1>4, <1>5, EchoGives

(* A client stops waiting without an answer. *)
LEMMA GivesUpInv ==
  ASSUME IInv, NEW c \in Clients, Interrupt(c) \/ Aborted(c)
  PROVE  IInv'
<1>1. Echo /\ TypeOK /\ EchoTypes /\ EchoInv
    BY EchoHas DEF Interrupt, Aborted
<1>2. /\ pc[c] = "waits" /\ left' \in {left, left \cup {c}}
      /\ pc' \in {[pc EXCEPT ![c] = "killed"], [pc EXCEPT ![c] = "error"]}
      /\ UNCHANGED <<service, spc, peer, text, next_stream, queue, clock, stream, line, typed, sent, echo, rounds,
                     wire, closed, shown>>
    BY DEF Interrupt, Aborted, serverVars
<1>3. pc'[c] \in {"killed", "error"} /\ \A d \in Clients : d # c => pc'[d] = pc[d]
    BY <1>1, <1>2 DEF EchoTypes
<1>4. \A d \in Clients : Out(pc'[d]) <=> Out(pc[d])
    BY <1>2, <1>3 DEF Out
<1>5. \A k \in 1..Len(queue) : queue[k].from \in Clients
    BY <1>1, QueuedType
<1>6. InQueue'
    BY <1>1, <1>2, <1>4, <1>5 DEF EchoInv, InQueue
<1>7. InHand' /\ OnTheWay'
    BY <1>1, <1>2, <1>4 DEF EchoInv, InHand, OnTheWay
<1>8. Counted' /\ Echoed'
    BY <1>1, <1>2, <1>3 DEF EchoInv, Counted, Echoed
<1>9. TypeOK' /\ EchoTypes'
    BY <1>1, <1>2 DEF TypeOK, EchoTypes, Echo, Clock
<1> QED
    BY <1>1, <1>2, <1>6, <1>7, <1>8, <1>9, EchoGives DEF EchoInv

LEMMA ServerReceiveInv ==
  ASSUME IInv, ServerReceive
  PROVE  IInv'
<1>1. Echo /\ TypeOK /\ EchoTypes /\ EchoInv
    BY EchoHas DEF ServerReceive
<1> DEFINE R == [from : Clients, on : Streams, len : 0 .. BuffSize - 2]
           m == queue[1]
<1>2. queue # <<>> /\ queue \in Seq(R)
    BY <1>1 DEF ServerReceive, EchoTypes
<1> HIDE DEF R
<1>3. Head(queue) = m /\ 1 \in 1..Len(queue)
    BY <1>2
<1>4. /\ spc = "receive" /\ queue # <<>> /\ queue \in Seq(R)
      /\ peer' = m.from /\ text' = m.len /\ next_stream' = NextStream(m)
      /\ queue' = Tail(queue) /\ spc' = "send"
      /\ UNCHANGED <<service, clock, pc, stream, line, typed, sent, echo, rounds, shown, wire, closed, left>>
    BY <1>2, <1>3 DEF ServerReceive, clientVars
<1>5. 1 \in 1..Len(queue)
    BY <1>3
<1>6. m.from \in Clients /\ m.on \in Streams /\ m.len \in 0 .. BuffSize - 2
    BY <1>1, <1>5, QueuedType
<1>7. /\ queue' \in Seq(R) /\ Len(queue) \in Nat \ {0} /\ Len(queue') = Len(queue) - 1
      /\ \A k \in 1..Len(queue') : queue'[k] = queue[k + 1] /\ k + 1 \in 1..Len(queue) /\ k + 1 # 1
    BY <1>4
<1> HIDE DEF m
<1>8. Out(pc[m.from]) /\ m.len = sent[m.from] /\ m.on = stream[m.from]
    BY <1>1, <1>5 DEF EchoInv, InQueue, m
<1>9. next_stream' = Due(service, stream[m.from])
    BY <1>1, <1>4, <1>8 DEF NextStream, Due, EchoInv, Counted
<1>10. ~From(queue', m.from)
    BY <1>1, <1>5, <1>7 DEF EchoInv, InQueue, From, m
<1>11. \A d \in Clients : From(queue', d) => From(queue, d)
    BY <1>7 DEF From
<1>12. From(queue, m.from)
    BY <1>5 DEF From, m
<1>13. InQueue'
    BY <1>1, <1>4, <1>7 DEF EchoInv, InQueue
<1>14. InHand'
    BY <1>4, <1>6, <1>8, <1>9, <1>10 DEF InHand
<1>15. OnTheWay'
    BY <1>1, <1>4, <1>6, <1>11, <1>12 DEF EchoInv, OnTheWay
<1>16. Counted' /\ Echoed'
    BY <1>1, <1>4 DEF EchoInv, Counted, Echoed, NextStream
<1>17. next_stream' \in Streams
    <2>1. next_stream \in Streams
        BY <1>1 DEF EchoTypes
    <2>2. m.on + 1 \in Nat /\ (m.on + 1) % MaxStreams \in Streams
        BY <1>6, StreamsNonempty DEF Streams
    <2> QED
        BY <1>4, <2>1, <2>2 DEF NextStream
<1>18. peer' \in Clients /\ text' \in Nat
    BY <1>4, <1>6, SctpAssumption
<1>19. TypeOK' /\ EchoTypes'
    BY <1>1, <1>4, <1>7, <1>17, <1>18 DEF TypeOK, EchoTypes, Echo, Clock, R
<1> QED
    BY <1>4, <1>13, <1>14, <1>15, <1>16, <1>19, EchoGives DEF EchoInv

LEMMA ServerSendInv ==
  ASSUME IInv, ServerSend
  PROVE  IInv'
<1>1. Echo /\ TypeOK /\ EchoTypes /\ EchoInv
    BY EchoHas DEF ServerSend
<1>2. /\ spc = "send" /\ spc' \in {"receive", "dead"}
      /\ UNCHANGED <<service, peer, text, next_stream, queue, clock, pc, stream, line, typed, sent, echo, rounds,
                     shown, closed, left>>
    BY DEF ServerSend, clientVars
<1>3. /\ peer \in Clients /\ Out(pc[peer]) /\ ~From(queue, peer)
      /\ text = sent[peer] /\ next_stream = Due(service, stream[peer])
    BY <1>1, <1>2 DEF EchoInv, InHand
<1>4. InQueue' /\ InHand' /\ Counted' /\ Echoed'
    BY <1>1, <1>2 DEF EchoInv, InQueue, InHand, Counted, Echoed
<1>5. CASE wire' = wire
    <2>1. OnTheWay'
        BY <1>1, <1>2, <1>5 DEF EchoInv, OnTheWay
    <2>2. TypeOK' /\ EchoTypes'
        BY <1>1, <1>2, <1>5 DEF TypeOK, EchoTypes, Echo, Clock
    <2> QED
        BY <1>2, <1>4, <2>1, <2>2, EchoGives DEF EchoInv
<1>6. CASE Queue(peer, next_stream, [len |-> text])
    <2> DEFINE e == [len |-> text]
    <2>1. e \in EchoMessages /\ e.len = text /\ next_stream \in Streams
          /\ wire \in [Clients -> [Streams -> Seq(EchoMessages)]]
        BY <1>1 DEF EchoTypes, EchoMessages
    <2>2. Queue(peer, next_stream, e)
        BY <1>6
    <2> HIDE DEF e
    <2>3. /\ wire' \in [Clients -> [Streams -> Seq(EchoMessages)]]
          /\ wire'[peer][next_stream] = Append(wire[peer][next_stream], e)
          /\ \A d \in Clients, z \in Streams : d # peer \/ z # next_stream => wire'[d][z] = wire[d][z]
        BY <1>3, <2>1, <2>2 DEF Queue
    <2>4. \A z \in Streams : wire[peer][z] = <<>>
        BY <1>1, <1>2, <1>3 DEF EchoInv, OnTheWay
    <2>5. Len(wire'[peer][next_stream]) = 1 /\ wire'[peer][next_stream][1] = e
        BY <2>1, <2>3, <2>4
    <2>6. OnTheWay'
        <3> SUFFICES ASSUME NEW c \in Clients, NEW s \in Streams, wire'[c][s] # <<>>
                     PROVE  /\ Len(wire'[c][s]) = 1 /\ wire'[c][s][1].len = sent[c]
                            /\ s = Due(service, stream[c])
                            /\ Out(pc[c]) /\ ~From(queue, c) /\ (spc' = "send" => peer # c)
            BY <1>2 DEF OnTheWay
        <3>1. CASE c = peer /\ s = next_stream
            BY <1>2, <1>3, <2>1, <2>5, <3>1
        <3>2. CASE c # peer \/ s # next_stream
            <4>1. wire[c][s] # <<>> /\ wire'[c][s] = wire[c][s]
                BY <2>3, <3>2
            <4> QED
                BY <1>1, <1>2, <4>1 DEF EchoInv, OnTheWay
        <3> QED
            BY <3>1, <3>2
    <2>7. TypeOK' /\ EchoTypes'
        BY <1>1, <1>2, <2>3 DEF TypeOK, EchoTypes, Echo, Clock
    <2> QED
        BY <1>2, <1>4, <2>6, <2>7, EchoGives DEF EchoInv
<1> QED
    BY <1>5, <1>6 DEF ServerSend

LEMMA ClientReceiveInv ==
  ASSUME IInv, NEW c \in Clients, NEW s \in Streams, ClientReceive(c, s)
  PROVE  IInv'
<1>1. Echo /\ TypeOK /\ EchoTypes /\ EchoInv
    BY EchoHas DEF ClientReceive
<1>2. /\ pc[c] = "waits" /\ wire[c][s] # <<>>
      /\ echo' = [echo EXCEPT ![c] = Head(wire[c][s]).len]
      /\ stream' = [stream EXCEPT ![c] = s]
      /\ rounds' = [rounds EXCEPT ![c] = @ + 1]
      /\ wire' = [wire EXCEPT ![c][s] = Tail(@)]
      /\ pc' = [pc EXCEPT ![c] = "ready"]
      /\ UNCHANGED <<service, spc, peer, text, next_stream, queue, clock, line, typed, sent, closed, shown, left>>
    BY DEF ClientReceive, serverVars
<1>3. wire \in [Clients -> [Streams -> Seq(EchoMessages)]] /\ wire[c][s] \in Seq(EchoMessages)
    BY <1>1 DEF EchoTypes
<1>4. /\ Len(wire[c][s]) = 1 /\ wire[c][s][1].len = sent[c] /\ s = Due(service, stream[c])
      /\ ~From(queue, c) /\ (spc = "send" => peer # c)
      /\ \A z \in Streams : z # s => wire[c][z] = <<>>
    BY <1>1, <1>2 DEF EchoInv, OnTheWay
<1>5. /\ wire' \in [Clients -> [Streams -> Seq(EchoMessages)]]
      /\ wire'[c][s] = Tail(wire[c][s])
      /\ \A d \in Clients, z \in Streams : d # c \/ z # s => wire'[d][z] = wire[d][z]
    <2>1. Tail(wire[c][s]) \in Seq(EchoMessages)
        BY <1>2, <1>3
    <2> QED
        BY <1>2, <1>3, <2>1
<1>6. Tail(wire[c][s]) = <<>> /\ Head(wire[c][s]) = wire[c][s][1]
    <2>1. Tail(wire[c][s]) \in Seq(EchoMessages) /\ Len(Tail(wire[c][s])) = 0
        BY <1>2, <1>3, <1>4
    <2>2. PICK rest \in Seq(EchoMessages) : rest = Tail(wire[c][s])
        BY <2>1
    <2>3. rest = <<>>
        BY <2>1, <2>2
    <2>4. Tail(wire[c][s]) = <<>>
        BY <2>2, <2>3
    <2> QED
        BY <1>2, <1>3, <2>4
<1>7. \A z \in Streams : wire'[c][z] = <<>>
    BY <1>4, <1>5, <1>6
<1>8. /\ pc'[c] = "ready" /\ stream'[c] = s /\ rounds'[c] = rounds[c] + 1 /\ echo'[c] = sent[c]
      /\ \A d \in Clients : d # c => /\ pc'[d] = pc[d] /\ stream'[d] = stream[d]
                                     /\ rounds'[d] = rounds[d] /\ echo'[d] = echo[d]
    BY <1>1, <1>2, <1>4, <1>6 DEF EchoTypes
<1>9. \A k \in 1..Len(queue) : queue[k].from \in Clients \ {c}
    BY <1>1, <1>4, QueuedType DEF From
<1>10. InQueue'
    BY <1>1, <1>2, <1>8, <1>9 DEF EchoInv, InQueue
<1>11. InHand'
    BY <1>1, <1>2, <1>4, <1>8 DEF EchoInv, InHand
<1>12. OnTheWay'
    <2> SUFFICES ASSUME NEW d \in Clients, NEW z \in Streams, wire'[d][z] # <<>>
                 PROVE  /\ Len(wire'[d][z]) = 1 /\ wire'[d][z][1].len = sent[d]
                        /\ z = Due(service, stream'[d])
                        /\ Out(pc'[d]) /\ ~From(queue, d) /\ (spc = "send" => peer # d)
        BY <1>2 DEF OnTheWay
    <2>1. d # c /\ wire'[d][z] = wire[d][z]
        BY <1>5, <1>7
    <2> QED
        BY <1>1, <1>8, <2>1 DEF EchoInv, OnTheWay
<1>13. stream'[c] = IF service = "echo1" THEN rounds'[c] % MaxStreams ELSE 0
    <2>1. CASE service = "echo1"
        <3>1. rounds[c] \in Nat /\ stream[c] = rounds[c] % MaxStreams
            BY <1>1, <2>1 DEF EchoTypes, EchoInv, Counted
        <3>2. stream'[c] = ((rounds[c] % MaxStreams) + 1) % MaxStreams
            BY <1>4, <1>8, <2>1, <3>1 DEF Due
        <3> QED
            BY <1>8, <2>1, <3>1, <3>2, NextRemainder, StreamsNonempty
    <2>2. CASE service # "echo1"
        BY <1>4, <1>8, <2>2 DEF Due
    <2> QED
        BY <2>1, <2>2
<1>14. Counted'
    BY <1>1, <1>2, <1>8, <1>13 DEF EchoInv, Counted
<1>15. Echoed'
    BY <1>1, <1>2, <1>8 DEF EchoInv, Echoed
<1>16. /\ echo' \in [Clients -> Nat] /\ rounds' \in [Clients -> Nat] /\ stream' \in [Clients -> Streams]
       /\ pc' \in [Clients -> {"ready", "waits", "done", "error", "killed", "crashed"}]
    <2>1. Head(wire[c][s]).len \in Nat
        BY <1>1, <1>4, <1>6 DEF EchoTypes
    <2>2. rounds[c] + 1 \in Nat
        BY <1>1 DEF EchoTypes
    <2>3. rounds' \in [Clients -> Nat]
        BY <1>1, <1>2, <2>2 DEF EchoTypes
    <2> QED
        BY <1>1, <1>2, <2>1, <2>3 DEF EchoTypes
<1>17. TypeOK' /\ EchoTypes'
    BY <1>1, <1>2, <1>5, <1>16 DEF TypeOK, EchoTypes, Echo, Clock
<1> QED
    BY <1>1, <1>2, <1>10, <1>11, <1>12, <1>14, <1>15, <1>17, EchoGives DEF EchoInv

-----------------------------------------------------------------------------
(* server2 and client2 *)
ClockTypes ==
  /\ Clock /\ ~Echo
  /\ peer \in Clients \cup {NoClient}
  /\ text \in Nat /\ clock \in 0 .. MaxClock
  /\ closed \in [Clients -> BOOLEAN]
  /\ pc \in [Clients -> {"ready", "waits", "done", "error", "killed", "crashed"}]
  /\ wire \in [Clients -> [Streams -> Seq(ClockMessages)]]

LEMMA ClockHas ==
  ASSUME IInv, Clock
  PROVE  TypeOK /\ ClockTypes /\ ClockInv
BY DEF IInv, TypeOK, WireTypeOK, ClockTypes, Echo, Clock

LEMMA ClockGives ==
  ASSUME TypeOK', ClockTypes', ClockInv'
  PROVE  IInv'
BY DEF IInv, WireTypeOK, ClockTypes, Clock, Echo

LEMMA UntoldAllAt ==
  ASSUME NEW seen, NEW way, NEW t, Untold(seen, way)
  PROVE  AllAt(seen, way, t)
BY DEF Untold, AllAt

LEMMA TickInv == ASSUME IInv, Tick PROVE IInv'
<1>1. Clock /\ TypeOK /\ ClockTypes /\ ClockInv
    BY ClockHas DEF Tick
<1>2. clock' \in 0 .. MaxClock
    BY <1>1, SctpAssumption DEF Tick, ClockTypes
<1>3. TypeOK' /\ ClockTypes'
    BY <1>1, <1>2 DEF Tick, serverVars, clientVars, TypeOK, ClockTypes, Clock, Echo
<1>4. ClockInv'
    BY <1>1 DEF Tick, serverVars, clientVars, ClockInv, Waiting, Served, OfOneMoment, ToldNothing
<1> QED
    BY <1>3, <1>4, ClockGives

LEMMA ConnectInv ==
  ASSUME IInv, NEW c \in Clients, Connect(c)
  PROVE  IInv'
<1>1. Clock /\ TypeOK /\ ClockTypes /\ ClockInv
    BY ClockHas DEF Connect
<1>2. /\ pc[c] = "ready" /\ pc' = [pc EXCEPT ![c] = "waits"] /\ queue' = Append(queue, c)
      /\ UNCHANGED <<service, spc, peer, text, next_stream, clock, stream, line, typed, sent, echo, rounds, wire,
                     closed, shown, left>>
    BY DEF Connect, serverVars
<1>3. pc'[c] = "waits" /\ \A d \in Clients : d # c => pc'[d] = pc[d]
    BY <1>1, <1>2 DEF ClockTypes
<1>4. queue \in Seq(Clients)
    BY <1>1 DEF ClockInv
<1>5. /\ queue' \in Seq(Clients) /\ Len(queue) \in Nat /\ Len(queue') = Len(queue) + 1
      /\ queue'[Len(queue) + 1] = c /\ \A k \in 1..Len(queue) : queue'[k] = queue[k]
    BY <1>2, <1>4
<1>6. /\ \A k \in 1..Len(queue) : queue[k] \in Clients /\ queue[k] # c
      /\ spc \in {"time", "date", "close"} => peer # c
      /\ Untold(shown[c], wire[c])
    BY <1>1, <1>2, <1>4 DEF ClockInv, Waiting, Served, ToldNothing
<1>7. Waiting'
    <2>1. ASSUME NEW k \in 1..Len(queue')
          PROVE  pc'[queue'[k]] # "ready" /\ Untold(shown[queue'[k]], wire[queue'[k]])
        <3>1. CASE k \in 1..Len(queue)
            BY <1>1, <1>3, <1>5, <1>6, <3>1 DEF ClockInv, Waiting
        <3>2. CASE k = Len(queue) + 1
            BY <1>3, <1>5, <1>6, <3>2
        <3> QED
            BY <1>5, <3>1, <3>2
    <2>2. ASSUME NEW j \in 1..Len(queue'), NEW k \in 1..Len(queue'), queue'[j] = queue'[k]
          PROVE  j = k
        <3>1. CASE j \in 1..Len(queue) /\ k \in 1..Len(queue)
            BY <1>1, <1>5, <2>2, <3>1 DEF ClockInv, Waiting
        <3>2. CASE j = Len(queue) + 1 \/ k = Len(queue) + 1
            BY <1>5, <1>6, <2>2, <3>2
        <3> QED
            BY <1>5, <3>1, <3>2
    <2> QED
        BY <1>2, <2>1, <2>2 DEF Waiting
<1>8. Served'
    <2> SUFFICES ASSUME spc \in {"time", "date", "close"}
                 PROVE  /\ peer \in Clients /\ pc'[peer] # "ready"
                        /\ \A k \in 1..Len(queue') : queue'[k] # peer
                        /\ AllAt(shown[peer], wire[peer], text)
        BY <1>2 DEF Served
    <2>1. /\ peer \in Clients /\ pc[peer] # "ready" /\ peer # c
          /\ \A k \in 1..Len(queue) : queue[k] # peer
          /\ AllAt(shown[peer], wire[peer], text)
        BY <1>1, <1>6 DEF ClockInv, Served
    <2>2. ASSUME NEW k \in 1..Len(queue') PROVE queue'[k] # peer
        BY <1>5, <2>1
    <2> QED
        BY <1>3, <2>1, <2>2
<1>9. OfOneMoment' /\ ToldNothing'
    BY <1>1, <1>2, <1>3 DEF ClockInv, OfOneMoment, ToldNothing
<1>10. TypeOK' /\ ClockTypes'
    BY <1>1, <1>2 DEF TypeOK, ClockTypes, Clock, Echo
<1>11. spc' \in {"receive", "time", "date", "close"} /\ shown' \in [Clients -> SUBSET ClockMessages]
    BY <1>1, <1>2 DEF ClockInv
<1> QED
    BY <1>5, <1>7, <1>8, <1>9, <1>10, <1>11, ClockGives DEF ClockInv

LEMMA AcceptInv == ASSUME IInv, Accept PROVE IInv'
<1>1. Clock /\ TypeOK /\ ClockTypes /\ ClockInv
    BY ClockHas DEF Accept
<1>2. queue \in Seq(Clients) /\ queue # <<>>
    BY <1>1 DEF Accept, ClockInv
<1>3. /\ 1 \in 1..Len(queue) /\ Head(queue) = queue[1] /\ queue[1] \in Clients
      /\ Tail(queue) \in Seq(Clients) /\ Len(queue) \in Nat /\ Len(Tail(queue)) = Len(queue) - 1
      /\ \A k \in 1..Len(Tail(queue)) : Tail(queue)[k] = queue[k + 1] /\ k + 1 \in 1..Len(queue) /\ k + 1 # 1
    BY <1>2
<1>4. /\ spc = "receive" /\ spc' = "time" /\ peer' = queue[1] /\ queue' = Tail(queue) /\ text' = clock
      /\ UNCHANGED <<service, next_stream, clock, pc, stream, line, typed, sent, echo, rounds, shown, wire,
                     closed, left>>
    BY <1>3 DEF Accept, clientVars
<1>5. Waiting'
    BY <1>1, <1>3, <1>4 DEF ClockInv, Waiting
<1>6. pc[queue[1]] # "ready" /\ AllAt(shown[queue[1]], wire[queue[1]], clock)
    BY <1>1, <1>3, UntoldAllAt DEF ClockInv, Waiting
<1>7. Served'
    BY <1>1, <1>3, <1>4, <1>6 DEF ClockInv, Waiting, Served
<1>8. OfOneMoment' /\ ToldNothing'
    BY <1>1, <1>4 DEF ClockInv, OfOneMoment, ToldNothing
<1>9. text' \in Nat
    BY <1>1, <1>4, SctpAssumption DEF ClockTypes
<1>10. TypeOK' /\ ClockTypes'
    BY <1>1, <1>3, <1>4, <1>9 DEF TypeOK, ClockTypes, Clock, Echo
<1> QED
    BY <1>1, <1>3, <1>4, <1>5, <1>7, <1>8, <1>10, ClockGives DEF ClockInv

(* A message with the reading in hand goes to the client served, or is left out. *)
LEMMA TellInv ==
  ASSUME IInv, Clock, spc \in {"time", "date"}, spc' \in {"date", "close"},
         NEW s \in Streams, NEW m \in ClockMessages, m.at = text,
         Queue(peer, s, m) \/ UNCHANGED wire,
         UNCHANGED <<service, peer, text, next_stream, queue, clock, pc, stream, line, typed, sent, echo, rounds,
                     shown, closed, left>>
  PROVE  IInv'
<1>1. TypeOK /\ ClockTypes /\ ClockInv
    BY ClockHas
<1>2. /\ peer \in Clients /\ pc[peer] # "ready" /\ \A k \in 1..Len(queue) : queue[k] # peer
      /\ AllAt(shown[peer], wire[peer], text)
    BY <1>1 DEF ClockInv, Served
<1>3. wire \in [Clients -> [Streams -> Seq(ClockMessages)]]
    BY <1>1 DEF ClockTypes
<1>4. /\ wire' \in [Clients -> [Streams -> Seq(ClockMessages)]]
      /\ \A d \in Clients : d # peer => wire'[d] = wire[d]
      /\ AllAt(shown[peer], wire'[peer], text)
    <2>1. CASE UNCHANGED wire
        BY <1>2, <1>3, <2>1
    <2>2. CASE Queue(peer, s, m)
        <3>1. wire[peer][s] \in Seq(ClockMessages) /\ Append(wire[peer][s], m) \in Seq(ClockMessages)
            BY <1>2, <1>3
        <3>2. /\ wire' \in [Clients -> [Streams -> Seq(ClockMessages)]]
              /\ wire'[peer][s] = Append(wire[peer][s], m)
              /\ \A z \in Streams : z # s => wire'[peer][z] = wire[peer][z]
              /\ \A d \in Clients : d # peer => wire'[d] = wire[d]
            BY <1>2, <1>3, <2>2, <3>1 DEF Queue
        <3>3. ASSUME NEW z \in Streams, NEW k \in 1..Len(wire'[peer][z])
              PROVE  wire'[peer][z][k].at = text
            <4>1. CASE z # s
                BY <1>2, <3>2, <4>1 DEF AllAt
            <4>2. CASE z = s
                <5>1. CASE k \in 1..Len(wire[peer][s])
                    BY <1>2, <3>1, <3>2, <4>2, <5>1 DEF AllAt
                <5>2. CASE k = Len(wire[peer][s]) + 1
                    BY <3>1, <3>2, <4>2, <5>2
                <5>3. Len(wire'[peer][s]) = Len(wire[peer][s]) + 1 /\ Len(wire[peer][s]) \in Nat
                    BY <3>1, <3>2
                <5> QED
                    BY <4>2, <5>1, <5>2, <5>3
            <4> QED
                BY <4>1, <4>2
        <3> QED
            BY <1>2, <3>2, <3>3 DEF AllAt
    <2> QED
        BY <2>1, <2>2
<1>5. \A k \in 1..Len(queue) : queue[k] \in Clients
    BY <1>1 DEF ClockInv
<1>6. Waiting'
    BY <1>1, <1>2, <1>4, <1>5 DEF ClockInv, Waiting
<1>7. Served'
    BY <1>2, <1>4 DEF Served
<1>8. OfOneMoment'
    <2> SUFFICES ASSUME NEW c \in Clients PROVE \E t \in Nat : AllAt(shown[c], wire'[c], t)
        BY DEF OfOneMoment
    <2>1. CASE c = peer
        BY <1>1, <1>4, <2>1 DEF ClockTypes
    <2>2. CASE c # peer
        BY <1>1, <1>4, <2>2 DEF ClockInv, OfOneMoment
    <2> QED
        BY <2>1, <2>2
<1>9. ToldNothing'
    BY <1>1, <1>2, <1>4 DEF ClockInv, ToldNothing
<1>10. TypeOK' /\ ClockTypes'
    BY <1>1, <1>4 DEF TypeOK, ClockTypes, Clock, Echo
<1> QED
    BY <1>1, <1>6, <1>7, <1>8, <1>9, <1>10, ClockGives DEF ClockInv

LEMMA TellTimeInv == ASSUME IInv, TellTime PROVE IInv'
<1>1. Clock /\ TypeOK /\ ClockTypes /\ ClockInv
    BY ClockHas DEF TellTime
<1> DEFINE m == [type |-> "TIME", at |-> text]
<1>2. m \in ClockMessages /\ m.at = text
    BY <1>1 DEF ClockMessages, ClockTypes
<1>3. /\ spc = "time" /\ spc' = "date" /\ (Queue(peer, 0, m) \/ UNCHANGED wire)
      /\ UNCHANGED <<service, peer, text, next_stream, queue, clock, pc, stream, line, typed, sent, echo, rounds,
                     shown, closed, left>>
    BY DEF TellTime, Moment, clientVars
<1> HIDE DEF m
<1> QED
    BY <1>1, <1>2, <1>3, TellInv, StreamsNonempty

LEMMA TellDateInv == ASSUME IInv, TellDate PROVE IInv'
<1>1. Clock /\ TypeOK /\ ClockTypes /\ ClockInv
    BY ClockHas DEF TellDate
<1> DEFINE m == [type |-> "DATE", at |-> text]
<1>2. m \in ClockMessages /\ m.at = text
    BY <1>1 DEF ClockMessages, ClockTypes
<1>3. /\ spc = "date" /\ spc' = "close" /\ (Queue(peer, 1, m) \/ UNCHANGED wire)
      /\ UNCHANGED <<service, peer, text, next_stream, queue, clock, pc, stream, line, typed, sent, echo, rounds,
                     shown, closed, left>>
    BY DEF TellDate, Moment, clientVars
<1> HIDE DEF m
<1> QED
    BY <1>1, <1>2, <1>3, TellInv, StreamsNonempty

LEMMA CloseInv == ASSUME IInv, Close PROVE IInv'
<1>1. Clock /\ TypeOK /\ ClockTypes /\ ClockInv
    BY ClockHas DEF Close
<1>2. closed' \in [Clients -> BOOLEAN]
    BY <1>1 DEF Close, Shut, ClockTypes
<1>3. TypeOK' /\ ClockTypes'
    BY <1>1, <1>2 DEF Close, clientVars, TypeOK, ClockTypes, Clock, Echo
<1>4. ClockInv'
    BY <1>1 DEF Close, clientVars, ClockInv, Waiting, Served, OfOneMoment, ToldNothing
<1> QED
    BY <1>3, <1>4, ClockGives

(* What is shown has the time that what was on its way had. *)
LEMMA ShowInv ==
  ASSUME IInv, NEW c \in Clients, NEW s \in Streams, Show(c, s)
  PROVE  IInv'
<1>1. Clock /\ TypeOK /\ ClockTypes /\ ClockInv
    BY ClockHas DEF Show
<1>2. /\ pc[c] = "waits" /\ wire[c][s] # <<>>
      /\ shown' = [shown EXCEPT ![c] = @ \cup {Head(wire[c][s])}]
      /\ wire' = [wire EXCEPT ![c][s] = Tail(@)]
      /\ UNCHANGED <<service, spc, peer, text, next_stream, queue, clock, pc, stream, line, typed, sent, echo, rounds,
                     closed, left>>
    BY DEF Show, serverVars
<1>3. wire \in [Clients -> [Streams -> Seq(ClockMessages)]] /\ shown \in [Clients -> SUBSET ClockMessages]
    BY <1>1 DEF ClockTypes, ClockInv
<1>4. /\ wire[c][s] \in Seq(ClockMessages) /\ Tail(wire[c][s]) \in Seq(ClockMessages)
      /\ 1 \in 1..Len(wire[c][s]) /\ Head(wire[c][s]) = wire[c][s][1] /\ wire[c][s][1] \in ClockMessages
      /\ \A k \in 1..Len(Tail(wire[c][s])) : Tail(wire[c][s])[k] = wire[c][s][k + 1] /\ k + 1 \in 1..Len(wire[c][s])
    <2>1. wire[c][s] \in Seq(ClockMessages)
        BY <1>3
    <2> QED
        BY <1>2, <2>1
<1>5. /\ wire' \in [Clients -> [Streams -> Seq(ClockMessages)]]
      /\ wire'[c][s] = Tail(wire[c][s])
      /\ \A z \in Streams : z # s => wire'[c][z] = wire[c][z]
      /\ \A d \in Clients : d # c => wire'[d] = wire[d]
    BY <1>2, <1>3, <1>4
<1>6. /\ shown' \in [Clients -> SUBSET ClockMessages]
      /\ shown'[c] = shown[c] \cup {wire[c][s][1]}
      /\ \A d \in Clients : d # c => shown'[d] = shown[d]
    BY <1>2, <1>3, <1>4
<1>7. ~Untold(shown[c], wire[c])
    BY <1>2 DEF Untold
<1>8. ASSUME NEW t, AllAt(shown[c], wire[c], t)
      PROVE  AllAt(shown'[c], wire'[c], t)
    <2>1. \A z \in Streams : \A k \in 1..Len(wire[c][z]) : wire[c][z][k].at = t
        BY <1>8 DEF AllAt
    <2>2. \A m \in shown'[c] : m.at = t
        BY <1>4, <1>6, <1>8 DEF AllAt
    <2>3. ASSUME NEW z \in Streams, NEW k \in 1..Len(wire'[c][z])
          PROVE  wire'[c][z][k].at = t
        <3>1. CASE z = s
            <4>1. wire'[c][z] = Tail(wire[c][s])
                BY <1>5, <3>1
            <4>2. k \in 1..Len(Tail(wire[c][s])) /\ wire'[c][z][k] = Tail(wire[c][s])[k]
                BY <4>1
            <4>3. wire'[c][z][k] = wire[c][s][k + 1] /\ k + 1 \in 1..Len(wire[c][s])
                BY <1>4, <4>2
            <4> QED
                BY <2>1, <4>3
        <3>2. CASE z # s
            BY <1>5, <2>1, <3>2
        <3> QED
            BY <3>1, <3>2
    <2> QED
        BY <2>2, <2>3 DEF AllAt
<1>9. \A k \in 1..Len(queue) : queue[k] \in Clients /\ queue[k] # c
    BY <1>1, <1>7 DEF ClockInv, Waiting
<1>10. Waiting'
    BY <1>1, <1>2, <1>5, <1>6, <1>9 DEF ClockInv, Waiting
<1>11. Served'
    <2> SUFFICES ASSUME spc \in {"time", "date", "close"}
                 PROVE  /\ peer \in Clients /\ pc[peer] # "ready"
                        /\ \A k \in 1..Len(queue) : queue[k] # peer
                        /\ AllAt(shown'[peer], wire'[peer], text)
        BY <1>2 DEF Served
    <2>1. /\ peer \in Clients /\ pc[peer] # "ready"
          /\ \A k \in 1..Len(queue) : queue[k] # peer
          /\ AllAt(shown[peer], wire[peer], text)
        BY <1>1 DEF ClockInv, Served
    <2>2. AllAt(shown'[peer], wire'[peer], text)
        BY <1>5, <1>6, <1>8, <2>1
    <2> QED
        BY <2>1, <2>2
<1>12. OfOneMoment'
    <2> SUFFICES ASSUME NEW d \in Clients PROVE \E t \in Nat : AllAt(shown'[d], wire'[d], t)
        BY DEF OfOneMoment
    <2>1. PICK t \in Nat : AllAt(shown[d], wire[d], t)
        BY <1>1 DEF ClockInv, OfOneMoment
    <2>2. AllAt(shown'[d], wire'[d], t)
        BY <1>5, <1>6, <1>8, <2>1
    <2> QED
        BY <2>2
<1>13. ToldNothing'
    BY <1>1, <1>2, <1>5, <1>6 DEF ClockInv, ToldNothing
<1>14. TypeOK' /\ ClockTypes'
    BY <1>1, <1>2, <1>5 DEF TypeOK, ClockTypes, Clock, Echo
<1> QED
    BY <1>1, <1>2, <1>6, <1>10, <1>11, <1>12, <1>13, <1>14, ClockGives DEF ClockInv

LEMMA LeaveInv ==
  ASSUME IInv, NEW c \in Clients, Leave(c)
  PROVE  IInv'
<1>1. Clock /\ TypeOK /\ ClockTypes /\ ClockInv
    BY ClockHas DEF Leave
<1>2. /\ pc' = [pc EXCEPT ![c] = "done"]
      /\ UNCHANGED <<service, spc, peer, text, next_stream, queue, clock, stream, line, typed, sent, echo, rounds, wire,
                     closed, shown, left>>
    BY DEF Leave, serverVars
<1>3. \A d \in Clients : pc'[d] = "ready" => pc[d] = "ready"
    BY <1>1, <1>2 DEF ClockTypes
<1>4. \A k \in 1..Len(queue) : queue[k] \in Clients
    BY <1>1 DEF ClockInv
<1>5. Waiting' /\ Served'
    BY <1>1, <1>2, <1>3, <1>4 DEF ClockInv, Waiting, Served
<1>6. OfOneMoment' /\ ToldNothing'
    BY <1>1, <1>2, <1>3 DEF ClockInv, OfOneMoment, ToldNothing
<1>7. TypeOK' /\ ClockTypes'
    BY <1>1, <1>2 DEF TypeOK, ClockTypes, Clock, Echo
<1> QED
    BY <1>1, <1>2, <1>5, <1>6, <1>7, ClockGives DEF ClockInv

-----------------------------------------------------------------------------
LEMMA StutterInv == ASSUME IInv, UNCHANGED vars PROVE IInv'
<1>1. CASE Echo
    <2>1. TypeOK /\ EchoTypes /\ EchoInv
        BY <1>1, EchoHas
    <2>2. EchoInv'
        BY <2>1, Unseen DEF vars, serverVars, clientVars
    <2>3. TypeOK' /\ EchoTypes'
        BY <2>1 DEF vars, serverVars, clientVars, TypeOK, EchoTypes, Echo, Clock
    <2> QED
        BY <2>2, <2>3, EchoGives
<1>2. CASE Clock
    <2>1. TypeOK /\ ClockTypes /\ ClockInv
        BY <1>2, ClockHas
    <2>2. ClockInv'
        BY <2>1 DEF vars, serverVars, clientVars, ClockInv, Waiting, Served, OfOneMoment, ToldNothing
    <2>3. TypeOK' /\ ClockTypes'
        BY <2>1 DEF vars, serverVars, clientVars, TypeOK, ClockTypes, Echo, Clock
    <2> QED
        BY <2>2, <2>3, ClockGives
<1> QED
    BY <1>1, <1>2 DEF Echo, Clock

LEMMA NextInv == IInv /\ [Next]_vars => IInv'
<1> SUFFICES ASSUME IInv, [Next]_vars PROVE IInv'
    OBVIOUS
<1>1. ASSUME EchoServer PROVE IInv'
    BY <1>1, ServerReceiveInv, ServerSendInv DEF EchoServer
<1>2. ASSUME ClockServer PROVE IInv'
    BY <1>2, AcceptInv, TellTimeInv, TellDateInv, CloseInv DEF ClockServer
<1>3. ASSUME NEW c \in Clients,
             Type(c) \/ ReadLine(c) \/ EndOfInput(c) \/ Interrupt(c) \/ Aborted(c) \/ Connect(c)
      PROVE  IInv'
    BY <1>3, TypeLine, ReadLineInv, EndOfInputInv, GivesUpInv, ConnectInv
<1>4. ASSUME NEW c \in Clients, Receive(c) PROVE IInv'
    BY <1>4, ClientReceiveInv, ShowInv, LeaveInv DEF Receive
<1> QED
    BY <1>1, <1>2, <1>3, <1>4, TickInv, StutterInv DEF Next

LEMMA Invariant == Spec => []IInv
BY InitInv, NextInv, PTL DEF Spec

(* Everything is of its type, for any clients, streams, buffer and lines.     *)
THEOREM TypeCorrect == Spec => []TypeOK
<1>1. IInv => TypeOK
    BY DEF IInv
<1> QED
    BY <1>1, Invariant, PTL

(* However many clients share the one socket of server3, each gets its own    *)
(* text back, on the stream that its own exchanges are due to.                *)
THEOREM OwnEchoes == Spec => []OwnEcho
<1>1. IInv => OwnEcho
    BY DEF IInv, EchoInv, Counted, Echoed, OwnEcho
<1> QED
    BY <1>1, Invariant, PTL

(* In whichever order the streams deliver and whatever the clock does, the    *)
(* date and the time a client of server2 has are of one moment (server2.c     *)
(* 75-100).                                                                   *)
THEOREM OneMoment == Spec => []OneReading
<1>1. IInv => OneReading
    <2> SUFFICES ASSUME IInv, Clock, NEW c \in Clients
                 PROVE  Cardinality({m.at : m \in shown[c]}) <= 1
        BY DEF OneReading
    <2>1. ClockInv
        BY DEF IInv
    <2>2. PICK t \in Nat : \A m \in shown[c] : m.at = t
        BY <2>1 DEF ClockInv, OfOneMoment, AllAt
    <2> DEFINE times == {m.at : m \in shown[c]}
    <2>3. times = {} \/ times = {t}
        BY <2>2
    <2> HIDE DEF times
    <2>4. Cardinality({}) = 0 /\ Cardinality({t}) = 1
        BY FS_EmptySet, FS_Singleton
    <2>5. Cardinality(times) <= 1
        BY <2>3, <2>4
    <2> QED
        BY <2>5 DEF times
<1> QED
    BY <1>1, Invariant, PTL
-----------------------------------------------------------------------------
(* Why server3 and its clients end.  An empty text, and one nobody waits for   *)
(* any more, come from a client that left; the pieces fgets() has taken of a   *)
(* line are BuffSize - 1 long, until the last.  Nothing can be said of a line  *)
(* without its newline, but that it is the last of a client that left.         *)
Pieces(n) == \E q \in Nat : n = (BuffSize - 1) * q

EndsInv ==
  /\ spc = "dead" => left # {}
  /\ \A c \in Clients : pc[c] = "killed" \/ (pc[c] = "waits" /\ sent[c] = 0) => c \in left
  /\ \A c \in Clients : pc[c] = "error" => spc = "dead"
  /\ \A c \in Clients : line[c] > 0 => Pieces(typed[c] + 1 - line[c]) \/ c \in left
  /\ \A c \in Clients : pc[c] = "done" => Pieces(typed[c])

LEMMA EchoNumbers ==
  ASSUME TypeOK
  PROVE  /\ line \in [Clients -> Nat] /\ typed \in [Clients -> Nat] /\ sent \in [Clients -> Nat]
         /\ pc \in [Clients -> {"ready", "waits", "done", "error", "killed", "crashed"}]
BY DEF TypeOK

LEMMA NoPieces == Pieces(0)
<1>1. 0 = (BuffSize - 1) * 0 /\ 0 \in Nat
    BY SctpAssumption
<1> QED
    BY <1>1 DEF Pieces

LEMMA OnePieceMore ==
  ASSUME NEW n \in Int, Pieces(n)
  PROVE  Pieces(n + (BuffSize - 1))
<1>1. PICK q \in Nat : n = (BuffSize - 1) * q
    BY DEF Pieces
<1>2. BuffSize - 1 \in Nat
    BY SctpAssumption
<1>3. n + (BuffSize - 1) = (BuffSize - 1) * (q + 1) /\ q + 1 \in Nat
    BY <1>1, <1>2
<1> QED
    BY <1>3 DEF Pieces

LEMMA EndsInit == Init => (Echo => EndsInv)
BY SctpAssumption DEF Init, EndsInv

LEMMA ReadLineEnds ==
  ASSUME IInv, Echo, EndsInv, NEW c \in Clients, ReadLine(c)
  PROVE  EndsInv'
<1> DEFINE piece == IF line[c] < BuffSize THEN line[c] ELSE BuffSize - 1
<1>0. /\ line \in [Clients -> Nat] /\ typed \in [Clients -> Nat] /\ sent \in [Clients -> Nat]
      /\ pc \in [Clients -> {"ready", "waits", "done", "error", "killed", "crashed"}]
    BY EchoNumbers DEF IInv
<1>1. /\ line' = [line EXCEPT ![c] = line[c] - piece] /\ line[c] > 0 /\ pc[c] = "ready"
      /\ UNCHANGED <<typed, spc, left>>
    BY DEF ReadLine, serverVars
<1>2. piece \in Nat \ {0} /\ piece <= line[c] /\ (piece = 1 => line[c] = 1)
    BY <1>0, <1>1, SctpAssumption
<1>3. piece = BuffSize - 1 \/ piece = line[c]
    OBVIOUS
<1>4. CASE line[c] = 1 /\ c \notin left
    <2>1. pc' = [pc EXCEPT ![c] = "done"] /\ UNCHANGED sent
        BY <1>4 DEF ReadLine, BareNewline
    <2>2. Pieces(typed[c])
        <3>1. typed[c] + 1 - line[c] = typed[c]
            BY <1>0, <1>4
        <3> QED
            BY <1>1, <1>4, <3>1 DEF EndsInv
    <2>3. \A d \in Clients : line'[d] > 0 => d # c /\ line'[d] = line[d]
        BY <1>0, <1>1, <1>4, SctpAssumption
    <2> QED
        BY <1>0, <1>1, <2>1, <2>2, <2>3 DEF EndsInv
<1>5. CASE ~(line[c] = 1 /\ c \notin left)
    <2>1. Send(c, piece - 1)
        BY <1>5 DEF ReadLine, BareNewline, Text
    <2>2. piece - 1 \in Nat /\ (c \in left \/ piece - 1 # 0)
        <3> HIDE DEF piece
        <3>1. (c \in left \/ piece # 1) /\ piece \in Nat \ {0}
            BY <1>2, <1>5
        <3> QED
            BY <3>1
    <2> HIDE DEF piece
    <2>3. \A d \in Clients : pc'[d] = "killed" \/ (pc'[d] = "waits" /\ sent'[d] = 0) => d \in left'
        <3>1. CASE spc = "dead"
            BY <1>0, <1>1, <2>1, <2>2, <3>1 DEF EndsInv, Send
        <3>2. CASE spc # "dead"
            BY <1>0, <1>1, <2>1, <2>2, <3>2 DEF EndsInv, Send
        <3> QED
            BY <3>1, <3>2
    <2>4. \A d \in Clients : pc'[d] = "done" => pc[d] = "done"
        BY <1>0, <2>1 DEF Send
    <2>5. line'[c] > 0 => Pieces(typed'[c] + 1 - line'[c]) \/ c \in left
        <3> SUFFICES ASSUME line'[c] > 0, c \notin left PROVE Pieces(typed[c] + 1 - line'[c])
            BY <1>1
        <3>1. piece = BuffSize - 1 /\ line'[c] = line[c] - (BuffSize - 1)
            BY <1>0, <1>1, <1>2, <1>3
        <3>2. Pieces(typed[c] + 1 - line[c]) /\ typed[c] + 1 - line[c] \in Int
            BY <1>0, <1>1 DEF EndsInv
        <3>3. Pieces((typed[c] + 1 - line[c]) + (BuffSize - 1))
            BY <3>2, OnePieceMore
        <3>4. (typed[c] + 1 - line[c]) + (BuffSize - 1) = typed[c] + 1 - line'[c]
            BY <1>0, <3>1, SctpAssumption
        <3> QED
            BY <3>3, <3>4
    <2>6. \A d \in Clients \ {c} : line'[d] = line[d]
        BY <1>0, <1>1
    <2>7. \A d \in Clients : line'[d] > 0 => Pieces(typed'[d] + 1 - line'[d]) \/ d \in left'
        BY <1>1, <2>5, <2>6 DEF EndsInv
    <2>8. \A d \in Clients : pc'[d] = "error" => spc' = "dead"
        BY <1>0, <1>1, <2>1 DEF EndsInv, Send
    <2> QED
        BY <1>1, <2>3, <2>4, <2>7, <2>8 DEF EndsInv
<1> QED
    BY <1>4, <1>5

LEMMA NextEnds ==
  ASSUME IInv, Echo => EndsInv, [Next]_vars
  PROVE  Echo' => EndsInv'
<1> SUFFICES ASSUME Echo' PROVE EndsInv'
    OBVIOUS
<1>a. Echo
    BY DEF Next, vars, EchoServer, ServerReceive, ServerSend, ClockServer, Accept, TellTime,
       TellDate, Close, Tick, Type, ReadLine, EndOfInput, Interrupt, Aborted, Connect, Receive,
       ClientReceive, Show, Leave, Echo
<1>0. /\ line \in [Clients -> Nat] /\ typed \in [Clients -> Nat] /\ sent \in [Clients -> Nat]
      /\ pc \in [Clients -> {"ready", "waits", "done", "error", "killed", "crashed"}]
      /\ EndsInv /\ EchoInv /\ ~Clock
    BY <1>a, EchoNumbers DEF IInv, Echo, Clock
<1>1. CASE ServerReceive
    BY <1>0, <1>1 DEF ServerReceive, clientVars, EndsInv
<1>2. CASE ServerSend
    <2>1. UNCHANGED <<pc, sent, line, typed, left>> /\ spc = "send"
        BY <1>2 DEF ServerSend, clientVars
    <2>2. peer \in Clients /\ Out(pc[peer]) /\ text = sent[peer]
        BY <1>0, <2>1 DEF EchoInv, InHand
    <2>3. spc' = "dead" => text = 0 \/ pc[peer] # "waits"
        BY <1>2 DEF ServerSend
    <2>4. spc' = "dead" => peer \in left
        BY <1>0, <2>1, <2>2, <2>3 DEF EndsInv, Out
    <2> QED
        BY <1>0, <2>1, <2>4 DEF EndsInv
<1>3. ASSUME NEW c \in Clients, Type(c) PROVE EndsInv'
    <2>1. PICK n \in Lines : /\ typed' = [typed EXCEPT ![c] = n]
                             /\ \/ line' = [line EXCEPT ![c] = n + 1] /\ UNCHANGED left
                                \/ line' = [line EXCEPT ![c] = n] /\ left' = left \cup {c}
        BY <1>3 DEF Type
    <2>2. n \in Nat /\ UNCHANGED <<pc, sent, spc>> /\ pc[c] = "ready" /\ left \subseteq left'
        BY <1>3, <2>1, SctpAssumption DEF Type, serverVars
    <2>3. typed'[c] + 1 - line'[c] = 0 \/ c \in left'
        BY <1>0, <2>1, <2>2
    <2>4. \A d \in Clients \ {c} : typed'[d] = typed[d] /\ line'[d] = line[d]
        BY <1>0, <2>1
    <2> QED
        BY <1>0, <2>2, <2>3, <2>4, NoPieces DEF EndsInv
<1>4. ASSUME NEW c \in Clients, ReadLine(c) PROVE EndsInv'
    BY <1>a, <1>0, <1>4, ReadLineEnds
<1>5. ASSUME NEW c \in Clients, EndOfInput(c) PROVE EndsInv'
    BY <1>0, <1>5 DEF EndOfInput, Send, EndsInv, serverVars
<1>6. ASSUME NEW c \in Clients, Interrupt(c) \/ Aborted(c) PROVE EndsInv'
    BY <1>0, <1>6 DEF Interrupt, Aborted, EndsInv, serverVars
<1>7. ASSUME NEW c \in Clients, NEW s \in Streams, ClientReceive(c, s) PROVE EndsInv'
    BY <1>0, <1>7 DEF ClientReceive, EndsInv, serverVars
<1>8. CASE UNCHANGED vars
    BY <1>0, <1>8 DEF vars, EndsInv, serverVars, clientVars
<1>9. ~ClockServer /\ ~Tick /\ \A c \in Clients : ~Connect(c) /\ ~Leave(c) /\ \A s \in Streams : ~Show(c, s)
    BY <1>0 DEF ClockServer, Accept, TellTime, TellDate, Close, Tick, Connect, Leave, Show
<1> QED
    BY <1>1, <1>2, <1>3, <1>4, <1>5, <1>6, <1>7, <1>8, <1>9 DEF Next, EchoServer, Receive

(* server3 ends only after somebody's input ended or somebody was interrupted, *)
(* and client3 ends well only on a newline read by itself (client3.c 58-69,    *)
(* server3.c 60-80), for any lengths of lines and buffer.                      *)
THEOREM EndsWell == Spec => []EndsAsAsked
<1>1. Init => IInv /\ (Echo => EndsInv)
    BY InitInv, EndsInit
<1>2. IInv /\ (Echo => EndsInv) /\ [Next]_vars => IInv' /\ (Echo' => EndsInv')
    BY NextInv, NextEnds
<1>3. IInv /\ (Echo => EndsInv) => EndsAsAsked
    <2> SUFFICES ASSUME IInv, Echo, EndsInv PROVE EndsAsAsked
        BY DEF EndsAsAsked
    <2>1. ASSUME NEW c \in Clients, pc[c] = "done" PROVE typed[c] % (BuffSize - 1) = 0
        <3>1. PICK q \in Nat : typed[c] = (BuffSize - 1) * q
            BY <2>1 DEF EndsInv, Pieces
        <3>2. BuffSize - 1 \in Nat \ {0} /\ typed[c] \in Nat
            BY SctpAssumption, EchoNumbers DEF IInv
        <3> QED
            BY <3>1, <3>2, Multiple
    <2> QED
        BY <2>1 DEF EndsInv, EndsAsAsked
<1> QED
    BY <1>1, <1>2, <1>3, PTL DEF Spec

-----------------------------------------------------------------------------
(* The wait for an answer.  Both servers serve the first in the queue and then *)
(* the next, so that each of their steps brings everybody who is queued one    *)
(* step nearer, and nobody else can put them back.                             *)
Asker(m) == IF Clock THEN m ELSE m.from
Queued(c) == {k \in 1..Len(queue) : Asker(queue[k]) = c}
InService(c) == spc \in {"send", "time", "date", "close"} /\ peer = c
Pending(c) == Queued(c) # {} \/ InService(c)
Place(c) == CHOOSE k \in Queued(c) : TRUE

(* The steps of the server for one client, and those left for the one it has.  *)
Each == IF Clock THEN 4 ELSE 2
StepsInHand ==
  CASE spc = "time" -> 3 [] spc = "date" -> 2 [] spc \in {"send", "close"} -> 1 [] OTHER -> 0

StepsToAnswer(c) == IF InService(c) THEN StepsInHand ELSE Each * Place(c) + StepsInHand

LEMMA Standing ==
  ASSUME IInv
  PROVE  /\ Len(queue) \in Nat
         /\ \A k \in 1..Len(queue) : Asker(queue[k]) \in Clients
         /\ \A j, k \in 1..Len(queue) : Asker(queue[j]) = Asker(queue[k]) => j = k
         /\ \A c \in Clients : InService(c) => Queued(c) = {}
         /\ \A c \in Clients : Pending(c) => pc[c] # "ready"
         /\ queue # <<>> => /\ Len(queue) # 0 /\ Head(queue) = queue[1]
                            /\ Len(Tail(queue)) = Len(queue) - 1
                            /\ \A k \in 1..Len(queue) - 1 : Tail(queue)[k] = queue[k + 1]
         /\ \A m : Len(Append(queue, m)) = Len(queue) + 1
         /\ \A m : Append(queue, m)[Len(queue) + 1] = m
         /\ \A m : \A k \in 1..Len(queue) : Append(queue, m)[k] = queue[k]
<1>1. \E S : queue \in Seq(S)
    BY EchoHas, ClockHas DEF EchoTypes, ClockInv, Echo, Clock
<1>2. PICK S : queue \in Seq(S)
    BY <1>1
<1>3. CASE Echo
    <2>1. EchoTypes /\ EchoInv /\ ~Clock
        BY <1>3, EchoHas DEF EchoTypes
    <2>2. \A k \in 1..Len(queue) : Asker(queue[k]) = queue[k].from /\ queue[k].from \in Clients
        BY <2>1, QueuedType DEF Asker
    <2>3. \A j, k \in 1..Len(queue) : Asker(queue[j]) = Asker(queue[k]) => j = k
        BY <2>1, <2>2 DEF EchoInv, InQueue
    <2>4. ASSUME NEW c \in Clients, InService(c) PROVE Queued(c) = {} /\ pc[c] # "ready"
        BY <2>1, <2>2, <2>4 DEF EchoInv, InHand, InService, Queued, From, Out
    <2>5. ASSUME NEW c \in Clients, Queued(c) # {} PROVE pc[c] # "ready"
        BY <2>1, <2>2, <2>5 DEF EchoInv, InQueue, Queued, Out
    <2> QED
        BY <1>2, <2>2, <2>3, <2>4, <2>5 DEF Pending
<1>4. CASE Clock
    <2>1. ClockInv
        BY <1>4, ClockHas
    <2>2. \A k \in 1..Len(queue) : Asker(queue[k]) = queue[k] /\ queue[k] \in Clients
        BY <1>4, <2>1 DEF Asker, ClockInv
    <2>3. \A j, k \in 1..Len(queue) : Asker(queue[j]) = Asker(queue[k]) => j = k
        BY <2>1, <2>2 DEF ClockInv, Waiting
    <2>4. ASSUME NEW c \in Clients, InService(c) PROVE Queued(c) = {} /\ pc[c] # "ready"
        BY <2>1, <2>2, <2>4 DEF ClockInv, Served, InService, Queued
    <2>5. ASSUME NEW c \in Clients, Queued(c) # {} PROVE pc[c] # "ready"
        BY <2>1, <2>2, <2>5 DEF ClockInv, Waiting, Queued
    <2> QED
        BY <1>2, <2>2, <2>3, <2>4, <2>5 DEF Pending
<1> QED
    BY <1>3, <1>4 DEF Echo, Clock

LEMMA PlaceIs ==
  ASSUME IInv, NEW c \in Clients, Queued(c) # {}
  PROVE  /\ Place(c) \in 1..Len(queue) /\ Place(c) \in Queued(c)
         /\ \A k \in Queued(c) : k = Place(c)
         /\ ~InService(c)
<1>1. Place(c) \in Queued(c)
    BY DEF Place
<1> QED
    BY <1>1, Standing DEF Queued

(* The server takes the first of the queue. *)
LEMMA TakeAdvances ==
  ASSUME IInv, NEW c \in Clients, Pending(c),
         ServerReceive \/ Accept
  PROVE  Pending(c)' /\ StepsToAnswer(c)' = StepsToAnswer(c) - 1
<1>1. /\ spc = "receive" /\ queue # <<>> /\ queue' = Tail(queue) /\ peer' = Asker(queue[1])
      /\ spc' = (IF Clock THEN "time" ELSE "send") /\ Clock' = Clock
      /\ \A m : Asker(m)' = Asker(m)
    BY Standing DEF ServerReceive, Accept, Asker, Clock, Echo
<1>2. ~InService(c) /\ Queued(c) # {} /\ StepsInHand = 0 /\ Each' = Each
      /\ StepsInHand' = Each - 1 /\ Each \in {2, 4}
    BY <1>1 DEF InService, Pending, StepsInHand, Each
<1> DEFINE k == Place(c)
<1>3. k \in 1..Len(queue) /\ Asker(queue[k]) = c /\ \A j \in Queued(c) : j = k
    BY <1>2, PlaceIs DEF Queued
<1>4. StepsToAnswer(c) = Each * k + 0
    BY <1>2 DEF StepsToAnswer
<1>5. /\ Len(queue) \in Nat \ {0} /\ Len(queue') = Len(queue) - 1
      /\ \A j \in 1..Len(queue) - 1 : queue'[j] = queue[j + 1]
    BY <1>1, Standing
<1> HIDE DEF k
<1>6. CASE k = 1
    <2>1. InService(c)'
        BY <1>1, <1>3, <1>6 DEF InService
    <2> QED
        BY <1>2, <1>4, <1>6, <2>1 DEF Pending, StepsToAnswer
<1>7. CASE k # 1
    <2>1. k - 1 \in 1..Len(queue') /\ queue'[k - 1] = queue[k]
        BY <1>3, <1>5, <1>7
    <2>2. k - 1 \in Queued(c)'
        BY <1>1, <1>3, <2>1 DEF Queued
    <2>3. ASSUME NEW j \in Queued(c)' PROVE j = k - 1
        <3>1. j \in 1..Len(queue) - 1 /\ Asker(queue[j + 1]) = c
            BY <1>1, <1>5 DEF Queued
        <3>2. j + 1 \in Queued(c)
            BY <1>5, <3>1 DEF Queued
        <3>3. j + 1 = k
            BY <1>3, <3>2
        <3> QED
            BY <1>3, <3>1, <3>3
    <2>4. Place(c)' = k - 1
        BY <2>2, <2>3 DEF Place
    <2>5. ~InService(c)'
        <3>1. 1 \notin Queued(c)
            BY <1>3, <1>7
        <3> QED
            BY <1>1, <1>5, <3>1 DEF InService, Queued
    <2>6. StepsToAnswer(c)' = Each * (k - 1) + (Each - 1)
        BY <1>2, <2>4, <2>5 DEF StepsToAnswer
    <2>7. PICK n \in Nat : n = Each * k
        BY <1>2, <1>3
    <2>8. Each * (k - 1) + (Each - 1) = n - 1
        BY <1>2, <1>3, <2>7
    <2>9. StepsToAnswer(c)' = n - 1 /\ StepsToAnswer(c) = n
        BY <1>4, <2>6, <2>7, <2>8
    <2> QED
        BY <2>2, <2>9 DEF Pending
<1> QED
    BY <1>6, <1>7

(* What a client waited for has come: its echo, or the end of what it is told. *)
Told(c) == IF Clock THEN closed[c] ELSE \E s \in Streams : wire[c][s] # <<>>

(* One step for the client in hand. *)
LEMMA ServeAdvances ==
  ASSUME IInv, NEW c \in Clients, Pending(c), spc' # "dead",
         ServerSend \/ TellTime \/ TellDate \/ Close
  PROVE  \/ Pending(c)' /\ StepsToAnswer(c)' = StepsToAnswer(c) - 1
         \/ ~Pending(c)' /\ (Told(c)' \/ pc[c] # "waits")
<1>1. /\ UNCHANGED <<service, peer, queue, pc>> /\ Clock' = Clock
      /\ Queued(c)' = Queued(c) /\ Place(c)' = Place(c) /\ Each' = Each /\ Each \in {2, 4}
    BY DEF ServerSend, TellTime, TellDate, Close, clientVars, Clock, Queued, Place, Asker, Each
<1>2. /\ StepsInHand' = StepsInHand - 1 /\ StepsInHand \in 1..3
      /\ spc \in {"send", "time", "date", "close"}
      /\ spc' = "receive" <=> spc \in {"send", "close"}
      /\ spc \in {"time", "date"} => spc' \in {"date", "close"}
    BY DEF ServerSend, TellTime, TellDate, Close, StepsInHand
<1>3. CASE ~InService(c)
    <2>1. Queued(c) # {} /\ ~InService(c)'
        BY <1>1, <1>2, <1>3 DEF Pending, InService
    <2> DEFINE k == Place(c)
    <2>2. k \in Nat
        BY <2>1, PlaceIs, Standing
    <2>3. StepsToAnswer(c) = Each * k + StepsInHand /\ StepsToAnswer(c)' = Each * k + StepsInHand'
        BY <1>1, <1>3, <2>1 DEF StepsToAnswer
    <2> HIDE DEF k
    <2>4. PICK n \in Nat : n = Each * k
        BY <1>1, <2>2
    <2>5. n + StepsInHand' = n + StepsInHand - 1
        BY <1>2
    <2>6. StepsToAnswer(c) = n + StepsInHand /\ StepsToAnswer(c)' = n + StepsInHand'
        BY <2>3, <2>4
    <2>7. PICK h \in 1..3 : h = StepsInHand
        BY <1>2
    <2>8. StepsToAnswer(c)' = StepsToAnswer(c) - 1
        BY <2>5, <2>6, <2>7
    <2> QED
        BY <1>1, <2>1, <2>8 DEF Pending
<1>4. CASE InService(c) /\ spc \in {"time", "date"}
    <2>1. InService(c)'
        BY <1>1, <1>2, <1>4 DEF InService
    <2> QED
        BY <1>2, <1>4, <2>1 DEF Pending, StepsToAnswer
<1>5. CASE InService(c) /\ spc \in {"send", "close"}
    <2>1. Queued(c) = {} /\ peer = c
        BY <1>5, Standing DEF InService
    <2>2. ~Pending(c)'
        BY <1>1, <1>2, <1>5, <2>1 DEF Pending, InService
    <2>3. Told(c)' \/ pc[c] # "waits"
        <3>1. CASE Close
            <4>1. closed'[c] /\ Clock
                BY <2>1, <3>1, ClockHas DEF Close, Shut, ClockTypes
            <4> QED
                BY <1>1, <4>1 DEF Told
        <3>2. CASE ServerSend /\ pc[c] = "waits"
            <4>1. Echo /\ EchoTypes /\ Queue(c, next_stream, [len |-> text])
                BY <2>1, <3>2, EchoHas DEF ServerSend
            <4> DEFINE e == [len |-> text]
                       w == wire[c][next_stream]
            <4>2. w \in Seq(EchoMessages) /\ e \in EchoMessages /\ next_stream \in Streams
                BY <4>1 DEF EchoTypes, EchoMessages
            <4> HIDE DEF e
            <4>3. wire'[c][next_stream] = Append(w, e)
                BY <4>1, <4>2 DEF Queue, EchoTypes, e
            <4> HIDE DEF w
            <4>4. Append(w, e) # <<>>
                BY <4>2
            <4> QED
                BY <1>1, <4>1, <4>2, <4>3, <4>4 DEF Told, Echo, Clock
        <3>3. ~TellTime /\ ~TellDate
            BY <1>5 DEF TellTime, TellDate
        <3> QED
            BY <1>1, <3>1, <3>2, <3>3
    <2> QED
        BY <2>2, <2>3
<1> QED
    BY <1>2, <1>3, <1>4, <1>5

(* A client that asks goes behind those that are queued. *)
LEMMA OthersKeep ==
  ASSUME IInv, NEW c \in Clients, Pending(c), UNCHANGED <<service, spc, peer>>,
         \/ UNCHANGED queue
         \/ \E m : Asker(m) # c /\ queue' = Append(queue, m)
  PROVE  Pending(c)' /\ StepsToAnswer(c)' = StepsToAnswer(c)
<1>1. Clock' = Clock /\ \A m : Asker(m)' = Asker(m)
    BY DEF Clock, Asker
<1>2. Queued(c)' = Queued(c)
    <2>1. CASE UNCHANGED queue
        BY <1>1, <2>1 DEF Queued
    <2>2. CASE \E m : Asker(m) # c /\ queue' = Append(queue, m)
        <3>1. PICK m : Asker(m) # c /\ queue' = Append(queue, m)
            BY <2>2
        <3>2. /\ Len(queue) \in Nat /\ Len(queue') = Len(queue) + 1
              /\ queue'[Len(queue) + 1] = m
              /\ \A k \in 1..Len(queue) : queue'[k] = queue[k]
            BY <3>1, Standing
        <3> QED
            BY <1>1, <3>1, <3>2 DEF Queued
    <2> QED
        BY <2>1, <2>2
<1>3. InService(c)' = InService(c) /\ StepsInHand' = StepsInHand /\ Each' = Each /\ Place(c)' = Place(c)
    BY <1>1, <1>2 DEF InService, StepsInHand, Each, Place
<1> QED
    BY <1>2, <1>3 DEF Pending, StepsToAnswer

(* How the wait of c goes on in one step. *)
Advances(c) ==
  /\ EchoServer \/ ClockServer =>
        \/ Pending(c)' /\ StepsToAnswer(c)' = StepsToAnswer(c) - 1
        \/ ~Pending(c)' /\ (Told(c)' \/ pc[c] # "waits")
        \/ spc' = "dead"
  /\ ~(EchoServer \/ ClockServer) => Pending(c)' /\ StepsToAnswer(c)' = StepsToAnswer(c)

LEMMA ClientsKeep ==
  ASSUME IInv, NEW c \in Clients, Pending(c), NEW d \in Clients,
         Type(d) \/ ReadLine(d) \/ EndOfInput(d) \/ Interrupt(d) \/ Aborted(d) \/ Connect(d) \/ Receive(d)
  PROVE  Pending(c)' /\ StepsToAnswer(c)' = StepsToAnswer(c)
<1>1. UNCHANGED <<service, spc, peer>>
    BY DEF Type, ReadLine, EndOfInput, Interrupt, Aborted, Connect, Receive, ClientReceive, Show, Leave, serverVars
<1>2. CASE UNCHANGED queue
    BY <1>1, <1>2, OthersKeep
<1>3. CASE pc[d] = "ready"
    <2>1. c # d
        BY <1>3, Standing
    <2>2. ASSUME Echo, NEW n, Send(d, n) PROVE UNCHANGED queue \/ \E m : Asker(m) # c /\ queue' = Append(queue, m)
        BY <2>1, <2>2 DEF Send, Asker, Echo, Clock
    <2>3. Connect(d) => \E m : Asker(m) # c /\ queue' = Append(queue, m)
        BY <2>1 DEF Connect, Asker
    <2>4. ReadLine(d) => UNCHANGED queue \/ \E m : Asker(m) # c /\ queue' = Append(queue, m)
        BY <2>2 DEF ReadLine
    <2>5. EndOfInput(d) => UNCHANGED queue \/ \E m : Asker(m) # c /\ queue' = Append(queue, m)
        BY <2>2 DEF EndOfInput
    <2>6. Type(d) \/ Interrupt(d) \/ Aborted(d) \/ Receive(d) => UNCHANGED queue
        BY DEF Type, Interrupt, Aborted, Receive, ClientReceive, Show, Leave
    <2>7. UNCHANGED queue \/ \E m : Asker(m) # c /\ queue' = Append(queue, m)
        BY <2>3, <2>4, <2>5, <2>6
    <2> QED
        BY <1>1, <2>7, OthersKeep
<1>4. pc[d] = "ready" \/ UNCHANGED queue
    BY DEF Type, ReadLine, EndOfInput, Interrupt, Aborted, Connect, Receive, ClientReceive, Show, Leave
<1> QED
    BY <1>2, <1>3, <1>4

(* Who is queued is on its way to its answer: each step of either server       *)
(* takes one from the steps that are left, until the echo is under way or the  *)
(* association closed, unless an empty text or a client that was interrupted   *)
(* ends server3; and nothing clients or the clock do adds to them              *)
(* (server2.c 58-93, server3.c 58-83).                                         *)
THEOREM QueuedAdvance ==
  Spec => [][\A c \in Clients : Pending(c) => Advances(c)]_vars
<1>1. ASSUME IInv, [Next]_vars, NEW c \in Clients, Pending(c)
      PROVE  Advances(c)
    <2>1. CASE EchoServer \/ ClockServer
        BY <1>1, <2>1, TakeAdvances, ServeAdvances DEF EchoServer, ClockServer, Advances
    <2>2. CASE ~(EchoServer \/ ClockServer) /\ (UNCHANGED vars \/ Tick)
        <3>1. UNCHANGED <<service, spc, peer, queue>>
            BY <2>2 DEF vars, serverVars, Tick
        <3> QED
            BY <1>1, <2>2, <3>1, OthersKeep DEF Advances
    <2>3. ASSUME ~(EchoServer \/ ClockServer), NEW d \in Clients,
                 Type(d) \/ ReadLine(d) \/ EndOfInput(d) \/ Interrupt(d) \/ Aborted(d) \/ Connect(d) \/ Receive(d)
          PROVE  Advances(c)
        BY <1>1, <2>3, ClientsKeep DEF Advances
    <2> QED
        BY <1>1, <2>1, <2>2, <2>3 DEF Next
<1>2. ASSUME IInv, [Next]_vars
      PROVE  [\A c \in Clients : Pending(c) => Advances(c)]_vars
    BY <1>1, <1>2
<1> QED
    BY <1>2, Invariant, PTL DEF Spec

(* No client waits in vain: while server3 runs, the request of each that waits *)
(* is queued or in hand, or its answer is under way, or what ends its wait has *)
(* come (server2.c 58-93, server3.c 58-83, client3.c 44-84).                   *)
NobodyInVain == \A c \in Clients : pc[c] = "waits" /\ spc # "dead" => Pending(c) \/ Told(c)

LEMMA ServersTell ==
  ASSUME IInv, NobodyInVain, EchoServer \/ ClockServer
  PROVE  NobodyInVain'
<1>1. UNCHANGED <<service, pc>> /\ spc # "dead" /\ Clock' = Clock
    BY DEF EchoServer, ClockServer, ServerReceive, ServerSend, Accept, TellTime, TellDate, Close, clientVars, Clock
<1> SUFFICES ASSUME NEW c \in Clients, pc[c] = "waits", spc' # "dead"
             PROVE  Pending(c)' \/ Told(c)'
    BY <1>1 DEF NobodyInVain
<1>2. CASE Pending(c)
    BY <1>2, TakeAdvances, ServeAdvances DEF EchoServer, ClockServer
<1>3. CASE Told(c) /\ Clock
    <2>1. closed[c] /\ closed \in [Clients -> BOOLEAN]
        BY <1>3 DEF Told, IInv, TypeOK
    <2>2. closed'[c]
        BY <1>3, <2>1 DEF EchoServer, ServerReceive, ServerSend, ClockServer, Accept, TellTime, TellDate, Close, Shut, Echo, Clock
    <2> QED
        BY <1>1, <1>3, <2>2 DEF Told
<1>4. CASE Told(c) /\ ~Clock
    <2>1. Echo /\ EchoTypes
        BY <1>4, EchoHas DEF Echo, Clock
    <2>2. PICK s \in Streams : wire[c][s] # <<>>
        BY <1>4 DEF Told
    <2>3. wire'[c][s] # <<>>
        <3>1. CASE UNCHANGED wire
            BY <2>2, <3>1
        <3>2. CASE Queue(peer, next_stream, [len |-> text])
            <4> DEFINE e == [len |-> text]
                       w == wire[c][s]
            <4>1. w \in Seq(EchoMessages) /\ e \in EchoMessages
                BY <2>1 DEF EchoTypes, EchoMessages
            <4> HIDE DEF e
            <4>2. wire'[c][s] \in {w, Append(w, e)}
                BY <2>1, <3>2 DEF Queue, EchoTypes, e
            <4>3. w # <<>>
                BY <2>2
            <4> HIDE DEF w
            <4>4. Append(w, e) # <<>>
                BY <4>1
            <4> QED
                BY <4>2, <4>3, <4>4
        <3> QED
            BY <2>1, <3>1, <3>2 DEF EchoServer, ServerReceive, ServerSend, ClockServer, Accept, TellTime, TellDate, Close, EchoTypes
    <2> QED
        BY <1>1, <1>4, <2>3 DEF Told
<1> QED
    BY <1>1, <1>2, <1>3, <1>4 DEF NobodyInVain

LEMMA ClientsLearn ==
  ASSUME IInv, NobodyInVain, NEW d \in Clients,
         Type(d) \/ ReadLine(d) \/ EndOfInput(d) \/ Interrupt(d) \/ Aborted(d) \/ Connect(d) \/ Receive(d)
  PROVE  NobodyInVain'
<1>1. UNCHANGED <<service, spc, peer, closed>> /\ Clock' = Clock /\ \A m : Asker(m)' = Asker(m)
    BY DEF Type, ReadLine, EndOfInput, Interrupt, Aborted, Connect, Receive, ClientReceive, Show, Leave, serverVars, Clock, Asker
<1>2. pc \in [Clients -> {"ready", "waits", "done", "error", "killed", "crashed"}]
    BY DEF IInv, TypeOK
<1> SUFFICES ASSUME NEW c \in Clients, pc'[c] = "waits", spc # "dead"
             PROVE  Pending(c)' \/ Told(c)'
    BY <1>1 DEF NobodyInVain
<1>3. CASE pc[c] = "waits" /\ Pending(c)
    BY <1>3, ClientsKeep
<1>4. CASE pc[c] = "waits" /\ Told(c) /\ Clock
    BY <1>1, <1>4 DEF Told
<1>5. CASE pc[c] = "waits" /\ Told(c) /\ ~Clock
    <2>1. Echo /\ EchoTypes
        BY <1>5, EchoHas DEF Echo, Clock
    <2>2. ~(\E s \in Streams : ClientReceive(c, s))
        BY <1>2 DEF ClientReceive
    <2>3. \A s \in Streams : wire'[c][s] = wire[c][s]
        BY <2>1, <2>2
        DEF Type, ReadLine, EndOfInput, Interrupt, Aborted, Connect, Receive, ClientReceive, Show, Leave, EchoTypes
    <2> QED
        BY <1>1, <1>5, <2>3 DEF Told
<1>6. CASE pc[c] # "waits"
    <2>1. ASSUME NEW n, Send(d, n) PROVE \E m : m.from = d /\ queue' = Append(queue, m)
        BY <1>1, <2>1 DEF Send
    <2>2. ReadLine(d) \/ EndOfInput(d) => Echo /\ (pc'[c] # "waits" \/ \E n : Send(d, n))
        BY <1>2, <1>6 DEF ReadLine, EndOfInput
    <2>3. ReadLine(d) \/ EndOfInput(d) => d = c
        BY <1>2, <1>6 DEF ReadLine, EndOfInput, Send
    <2>4. Connect(d) => d = c /\ Clock /\ queue' = Append(queue, c)
        BY <1>2, <1>6 DEF Connect
    <2>5. ~Type(d) /\ ~Interrupt(d) /\ ~Aborted(d) /\ ~Receive(d)
        BY <1>2, <1>6 DEF Type, Interrupt, Aborted, Receive, ClientReceive, Show, Leave
    <2>6. PICK m : Asker(m) = c /\ queue' = Append(queue, m)
        BY <2>1, <2>2, <2>3, <2>4, <2>5 DEF Asker, Echo, Clock
    <2>7. Len(queue) \in Nat /\ Len(queue') = Len(queue) + 1 /\ queue'[Len(queue) + 1] = m
        BY <2>6, Standing
    <2>8. Len(queue) + 1 \in Queued(c)'
        BY <1>1, <2>6, <2>7 DEF Queued
    <2> QED
        BY <2>8 DEF Pending
<1> QED
    BY <1>3, <1>4, <1>5, <1>6 DEF NobodyInVain

(* NobodyInVain, of every behaviour: the server knows of whoever waits for it, *)
(* or has answered (server2.c 58-93, server3.c 58-83).                         *)
THEOREM NobodyWaitsInVain == Spec => []NobodyInVain
<1>1. Init => IInv /\ NobodyInVain
    BY InitInv DEF Init, NobodyInVain
<1>2. IInv /\ NobodyInVain /\ [Next]_vars => IInv' /\ NobodyInVain'
    <2>1. IInv /\ NobodyInVain /\ (Tick \/ UNCHANGED vars) => NobodyInVain'
        BY DEF Tick, vars, serverVars, clientVars, NobodyInVain, Pending, InService, Queued, Asker, Told, Clock
    <2> QED
        BY <2>1, NextInv, ServersTell, ClientsLearn DEF Next
<1> QED
    BY <1>1, <1>2, PTL DEF Spec

(* And not for long: with the other clients before it, each once, a client is  *)
(* answered after at most two steps of server3, or four of server2, for each   *)
(* client there is.                                                            *)
LEMMA QueueLength ==
  ASSUME IInv, IsFiniteSet(Clients)
  PROVE  /\ Len(queue) <= Cardinality(Clients)
         /\ spc \in {"send", "time", "date", "close"} => Len(queue) + 1 <= Cardinality(Clients)
<1>1. /\ Len(queue) \in Nat
      /\ \A k \in 1..Len(queue) : Asker(queue[k]) \in Clients
      /\ \A j, k \in 1..Len(queue) : Asker(queue[j]) = Asker(queue[k]) => j = k
    BY Standing
<1> DEFINE n == Len(queue)
           f == [k \in 1..n |-> Asker(queue[k])]
           g == [k \in 0..n |-> IF k = 0 THEN peer ELSE Asker(queue[k])]
<1>2. f \in Injection(1..n, Clients)
    BY <1>1 DEF Injection, IsInjective
<1>3. Cardinality(1..n) = n
    <2>1. Cardinality(1..n) = IF 1 > n THEN 0 ELSE n - 1 + 1
        BY <1>1, FS_Interval
    <2> HIDE DEF n
    <2>2. n \in Nat
        BY <1>1 DEF n
    <2> QED
        BY <2>1, <2>2
<1>4. Cardinality(1..n) <= Cardinality(Clients)
    BY <1>2, FS_Injection
<1>5. ASSUME spc \in {"send", "time", "date", "close"} PROVE n + 1 <= Cardinality(Clients)
    <2>1. peer \in Clients /\ \A k \in 1..n : Asker(queue[k]) # peer
        <3>1. peer \in Clients
            BY <1>5, EchoHas, ClockHas DEF EchoInv, InHand, ClockInv, Served, Echo, Clock
        <3>2. InService(peer)
            BY <1>5 DEF InService
        <3> QED
            BY <3>1, <3>2, Standing DEF Queued
    <2>2. g \in Injection(0..n, Clients)
        BY <1>1, <2>1 DEF Injection, IsInjective
    <2>3. Cardinality(0..n) = n + 1
        BY <1>1, FS_Interval
    <2>4. Cardinality(0..n) <= Cardinality(Clients)
        BY <2>2, FS_Injection
    <2> QED
        BY <2>3, <2>4
<1> QED
    BY <1>3, <1>4, <1>5

(* With finitely many clients nobody waits longer than the steps the server    *)
(* takes for all of them (server2.c 58-93, server3.c 58-83).                   *)
THEOREM WaitIsBounded ==
  ASSUME IsFiniteSet(Clients)
  PROVE  Spec => [](\A c \in Clients : Pending(c) => StepsToAnswer(c) \in 1 .. Each * Cardinality(Clients))
<1>1. ASSUME IInv, NEW c \in Clients, Pending(c)
      PROVE  StepsToAnswer(c) \in 1 .. Each * Cardinality(Clients)
    <2> DEFINE N == Cardinality(Clients)
               busy == spc \in {"send", "time", "date", "close"}
               l == Len(queue)
    <2>1. N \in Nat /\ l \in Nat /\ l <= N /\ (busy => l + 1 <= N) /\ Each \in {2, 4}
        BY <1>1, FS_CardinalityType, QueueLength, Standing DEF Each
    <2>2. StepsInHand \in 0 .. Each - 1 /\ (~busy => StepsInHand = 0) /\ (busy => StepsInHand # 0)
        <3>1. spc = "send" => Each = 2
            BY <1>1, ClockHas DEF ClockInv, Each
        <3>2. spc \in {"time", "date", "close"} => Each = 4
            BY <1>1, EchoHas DEF EchoInv, Each, Echo, Clock
        <3> QED
            BY <2>1, <3>1, <3>2 DEF StepsInHand
    <2>3. PICK h \in Nat : h = StepsInHand
        BY <2>1, <2>2
    <2> HIDE DEF N, busy, l
    <2>4. CASE InService(c)
        <3>1. busy /\ StepsToAnswer(c) = h
            BY <2>3, <2>4 DEF InService, StepsToAnswer, busy
        <3>2. N >= 1
            BY <2>1, <3>1
        <3> QED
            BY <2>1, <2>2, <2>3, <3>1, <3>2 DEF N
    <2>5. CASE ~InService(c)
        <3> DEFINE k == Place(c)
        <3>1. k \in 1 .. l
            BY <1>1, <2>5, PlaceIs DEF Pending, l
        <3>2. StepsToAnswer(c) = Each * k + h
            BY <2>3, <2>5 DEF StepsToAnswer
        <3> HIDE DEF k
        <3>3. CASE Each = 2
            BY <2>1, <2>2, <2>3, <3>1, <3>2, <3>3 DEF N
        <3>4. CASE Each = 4
            BY <2>1, <2>2, <2>3, <3>1, <3>2, <3>4 DEF N
        <3> QED
            BY <2>1, <3>3, <3>4
    <2> QED
        BY <2>4, <2>5
<1>2. IInv => \A c \in Clients : Pending(c) => StepsToAnswer(c) \in 1 .. Each * Cardinality(Clients)
    BY <1>1
<1> QED
    BY <1>2, Invariant, PTL

=============================================================================

-------------------------------- MODULE Sctp --------------------------------
(***************************************************************************)
(* The SCTP services of pus-04.  server2 tells each client the date and    *)
(* the time, on two streams of one association; server3 sends each message *)
(* back, on stream 0 ("echo0") or on the stream after the one it came on   *)
(* ("echo1"), and the client goes on with the stream the answer came on.   *)
(*                                                                         *)
(* Messages of one stream arrive in the order they were sent, messages of  *)
(* two streams in any order.  server3 has one socket for all associations: *)
(* its queue is inbox.  Of a text only the length is kept.                 *)
(***************************************************************************)
EXTENDS Integers, Sequences, FiniteSets

CONSTANTS Clients, NoClient,
          MaxStreams,   \* MAX_STREAMS: streams in each direction
          BuffSize,     \* BUFF_SIZE
          Lines,        \* lengths of the lines the users type
          MaxRounds,    \* bound: texts a client sends
          MaxClock      \* bound: readings of the clock

ASSUME SctpAssumption ==
  /\ NoClient \notin Clients
  /\ MaxStreams \in Nat \ {0, 1}
  /\ BuffSize \in Nat \ {0, 1, 2}
  /\ Lines \subseteq Nat
  /\ MaxRounds \in Nat
  /\ MaxClock \in Nat

Streams == 0 .. MaxStreams - 1

VARIABLES
  service,      \* which of the servers runs
  spc,          \* where it stands
  peer,         \* client_addr, or the client connected to
  text,         \* message of server3; what time() returned in server2
  next_stream,  \* the global variable of server3
  queue,        \* connections to be accepted; the inbox of server3
  clock,        \* the time of day
  pc,           \* where each client stands
  stream,       \* next_stream of each client
  line,         \* what its user typed and it has not yet read, the newline included
  typed,        \* length of the line typed last
  sent, echo,   \* the text it sent last, the text it got last
  rounds,       \* answers it got
  wire,         \* wire[c][s]: on the way to c on stream s
  closed,       \* the server closed the association
  shown,        \* what the client of server2 has printed
  left          \* clients whose input ended, or that were interrupted

serverVars == <<spc, peer, text, next_stream>>
clientVars == <<pc, stream, line, typed, sent, echo, rounds, shown>>
vars == <<service, serverVars, queue, clock, clientVars, wire, closed, left>>

Init ==
  /\ service \in {"clock", "echo0", "echo1"}
  /\ spc = "receive"
  /\ peer = NoClient
  /\ text = 0
  /\ next_stream = 0
  /\ queue = <<>>
  /\ clock = 0
  /\ pc = [c \in Clients |-> "ready"]
  /\ stream = [c \in Clients |-> 0]
  /\ line = [c \in Clients |-> 0]
  /\ typed = [c \in Clients |-> 1]
  /\ sent = [c \in Clients |-> 0]
  /\ echo = [c \in Clients |-> 0]
  /\ rounds = [c \in Clients |-> 0]
  /\ wire = [c \in Clients |-> [s \in Streams |-> <<>>]]
  /\ closed = [c \in Clients |-> FALSE]
  /\ shown = [c \in Clients |-> {}]
  /\ left = {}

Queue(c, s, m) == wire' = [wire EXCEPT ![c][s] = Append(@, m)]

-----------------------------------------------------------------------------
(* server3 and client3 *)

Echo == service # "clock"

(* The user types a line, or the last one, whose newline may be missing. *)
Type(c) ==
  /\ Echo /\ pc[c] = "ready" /\ line[c] = 0 /\ rounds[c] < MaxRounds /\ c \notin left
  /\ \E n \in Lines :
       /\ typed' = [typed EXCEPT ![c] = n]
       /\ \/ line' = [line EXCEPT ![c] = n + 1] /\ UNCHANGED left
          \/ n > 0 /\ line' = [line EXCEPT ![c] = n] /\ left' = left \cup {c}
  /\ UNCHANGED <<service, serverVars, queue, clock, pc, stream, sent, echo, rounds, wire, closed, shown>>

(* sctp_sendmsg() of n characters.  Without a server it fails, and test()    *)
(* exits, or begins an association that nobody answers.                      *)
Send(c, n) ==
  \/ /\ spc = "dead"
     /\ pc' = [pc EXCEPT ![c] = "error"]
     /\ UNCHANGED <<sent, queue>>
  \/ /\ pc' = [pc EXCEPT ![c] = "waits"]
     /\ sent' = [sent EXCEPT ![c] = n]
     /\ queue' = IF spc = "dead" THEN queue
                 ELSE Append(queue, [from |-> c, on |-> stream[c], len |-> n])

(* fgets() takes as much of the line as fits; a bare newline ends the client, *)
(* otherwise the last character goes, be it the newline or not.               *)
BareNewline_untested(c) == FALSE
BareNewline(c) == line[c] = 1 /\ c \notin left
Text_whole(piece) == piece
Text(piece) == piece - 1

ReadLine(c) ==
  LET piece == IF line[c] < BuffSize THEN line[c] ELSE BuffSize - 1
  IN  /\ Echo /\ pc[c] = "ready" /\ line[c] > 0 /\ rounds[c] < MaxRounds
      /\ line' = [line EXCEPT ![c] = @ - piece]
      /\ IF BareNewline(c)
         THEN pc' = [pc EXCEPT ![c] = "done"] /\ UNCHANGED <<sent, queue>>
         ELSE Send(c, Text(piece))
      /\ UNCHANGED <<service, serverVars, clock, stream, typed, echo, rounds, wire, closed, shown, left>>

(* Nothing was read: message[strlen(message) - 1] lies before the array, and *)
(* what is sent if that does no harm is the empty text.                      *)
EndOfInput(c) ==
  /\ Echo /\ pc[c] = "ready" /\ line[c] = 0 /\ rounds[c] < MaxRounds
  /\ left' = left \cup {c}
  /\ \/ pc' = [pc EXCEPT ![c] = "crashed"] /\ UNCHANGED <<sent, queue>>
     \/ Send(c, 0)
  /\ UNCHANGED <<service, serverVars, clock, stream, line, typed, echo, rounds, wire, closed, shown>>

(* The user interrupts a client that waits for its answer. *)
Interrupt(c) ==
  /\ Echo /\ pc[c] = "waits"
  /\ pc' = [pc EXCEPT ![c] = "killed"]
  /\ left' = left \cup {c}
  /\ UNCHANGED <<service, serverVars, queue, clock, stream, line, typed, sent, echo, rounds, wire, closed, shown>>

(* With the server its association is gone, and sctp_recvmsg() fails. *)
Aborted(c) ==
  /\ Echo /\ spc = "dead" /\ pc[c] = "waits"
  /\ pc' = [pc EXCEPT ![c] = "error"]
  /\ UNCHANGED <<service, serverVars, queue, clock, stream, line, typed, sent, echo, rounds, wire, closed, shown, left>>

(* The next stream is counted from the one the message came on. *)
NextStream_counted(m) == IF service = "echo1" THEN (next_stream + 1) % MaxStreams ELSE next_stream
NextStream(m) == IF service = "echo1" THEN (m.on + 1) % MaxStreams ELSE next_stream

ServerReceive ==
  /\ Echo /\ spc = "receive" /\ queue # <<>>
  /\ peer' = Head(queue).from
  /\ text' = Head(queue).len
  /\ next_stream' = NextStream(Head(queue))
  /\ queue' = Tail(queue)
  /\ spc' = "send"
  /\ UNCHANGED <<service, clock, clientVars, wire, closed, left>>

(* strlen(message) characters go back; none at all is an error of            *)
(* sctp_sendmsg(), as is a client that is gone, and test() ends the server.  *)
ServerSend ==
  /\ Echo /\ spc = "send"
  /\ \/ /\ text > 0 /\ pc[peer] = "waits"
        /\ Queue(peer, next_stream, [len |-> text])
        /\ spc' = "receive"
     \/ /\ text = 0 \/ pc[peer] # "waits"
        /\ spc' = "dead"
        /\ UNCHANGED wire
     \/ /\ text > 0 /\ pc[peer] # "waits"
        /\ spc' = "receive"
        /\ UNCHANGED wire
  /\ UNCHANGED <<service, peer, text, next_stream, queue, clock, clientVars, closed, left>>

ClientReceive(c, s) ==
  /\ Echo /\ pc[c] = "waits" /\ wire[c][s] # <<>>
  /\ echo' = [echo EXCEPT ![c] = Head(wire[c][s]).len]
  /\ stream' = [stream EXCEPT ![c] = s]
  /\ rounds' = [rounds EXCEPT ![c] = @ + 1]
  /\ wire' = [wire EXCEPT ![c][s] = Tail(@)]
  /\ pc' = [pc EXCEPT ![c] = "ready"]
  /\ UNCHANGED <<service, serverVars, queue, clock, line, typed, sent, closed, shown, left>>

-----------------------------------------------------------------------------
(* server2 and client2 *)

Clock == service = "clock"

Tick ==
  /\ Clock /\ clock < MaxClock
  /\ clock' = clock + 1
  /\ UNCHANGED <<service, serverVars, queue, clientVars, wire, closed, left>>

Connect(c) ==
  /\ Clock /\ pc[c] = "ready"
  /\ queue' = Append(queue, c)
  /\ pc' = [pc EXCEPT ![c] = "waits"]
  /\ UNCHANGED <<service, serverVars, clock, stream, line, typed, sent, echo, rounds, wire, closed, shown, left>>

(* accept_w(), then time() is asked once for both messages. *)
Accept ==
  /\ Clock /\ spc = "receive" /\ queue # <<>>
  /\ peer' = Head(queue)
  /\ queue' = Tail(queue)
  /\ text' = clock
  /\ spc' = "time"
  /\ UNCHANGED <<service, next_stream, clock, clientVars, wire, closed, left>>

(* Both messages are made from the one reading. *)
Moment_read_again == clock
Moment == text

(* A message that cannot be sent is reported and left out. *)
TellTime ==
  /\ Clock /\ spc = "time"
  /\ spc' = "date"
  /\ \/ Queue(peer, 0, [type |-> "TIME", at |-> Moment])
     \/ UNCHANGED wire
  /\ UNCHANGED <<service, peer, text, next_stream, queue, clock, clientVars, closed, left>>

TellDate ==
  /\ Clock /\ spc = "date"
  /\ spc' = "close"
  /\ \/ Queue(peer, 1, [type |-> "DATE", at |-> Moment])
     \/ UNCHANGED wire
  /\ UNCHANGED <<service, peer, text, next_stream, queue, clock, clientVars, closed, left>>

Shut_not(c) == closed
Shut(c) == [closed EXCEPT ![c] = TRUE]

Close ==
  /\ Clock /\ spc = "close"
  /\ closed' = Shut(peer)
  /\ spc' = "receive"
  /\ UNCHANGED <<service, peer, text, next_stream, queue, clock, clientVars, wire, left>>

(* handle_connection(): what is printed depends on the type of the message. *)
Show(c, s) ==
  /\ Clock /\ pc[c] = "waits" /\ wire[c][s] # <<>>
  /\ shown' = [shown EXCEPT ![c] = @ \cup {Head(wire[c][s])}]
  /\ wire' = [wire EXCEPT ![c][s] = Tail(@)]
  /\ UNCHANGED <<service, serverVars, queue, clock, pc, stream, line, typed, sent, echo, rounds, closed, left>>

(* sctp_recvmsg() returns 0 when everything was received before. *)
Leave(c) ==
  /\ Clock /\ pc[c] = "waits" /\ closed[c] /\ \A s \in Streams : wire[c][s] = <<>>
  /\ pc' = [pc EXCEPT ![c] = "done"]
  /\ UNCHANGED <<service, serverVars, queue, clock, stream, line, typed, sent, echo, rounds, wire, closed, shown, left>>

-----------------------------------------------------------------------------
EchoServer == ServerReceive \/ ServerSend
ClockServer == Accept \/ TellTime \/ TellDate \/ Close
Receive(c) == (\E s \in Streams : ClientReceive(c, s) \/ Show(c, s)) \/ Leave(c)

Next ==
  \/ EchoServer \/ ClockServer \/ Tick
  \/ \E c \in Clients :
       Type(c) \/ ReadLine(c) \/ EndOfInput(c) \/ Interrupt(c) \/ Aborted(c) \/ Connect(c) \/ Receive(c)

Spec == Init /\ [][Next]_vars

(* The servers run, the network delivers, and a client reads what arrives; *)
(* nothing is asked of the users.                                          *)
FairSpec ==
  /\ Spec
  /\ WF_vars(EchoServer) /\ WF_vars(ClockServer)
  /\ \A c \in Clients : WF_vars(Receive(c))

-----------------------------------------------------------------------------
(* Everything is of its type; what server3 has queued are texts that fit.   *)
TypeOK ==
  /\ service \in {"clock", "echo0", "echo1"}
  /\ spc \in {"receive", "send", "dead", "time", "date", "close"}
  /\ peer \in Clients \cup {NoClient}
  /\ text \in Nat /\ clock \in 0 .. MaxClock
  /\ next_stream \in Streams
  /\ pc \in [Clients -> {"ready", "waits", "done", "error", "killed", "crashed"}]
  /\ stream \in [Clients -> Streams]
  /\ {line, typed, sent, echo, rounds} \subseteq [Clients -> Nat]
  /\ closed \in [Clients -> BOOLEAN]
  /\ left \subseteq Clients
  /\ Echo => queue \in Seq([from : Clients, on : Streams, len : 0 .. BuffSize - 2])

(* However the exchanges of the clients interleave at the one socket of     *)
(* server3, a client gets its own text back, and the stream it goes on with *)
(* counts its own exchanges only.                                           *)
OwnEcho ==
  Echo => \A c \in Clients : pc[c] = "ready" /\ rounds[c] > 0 =>
    /\ echo[c] = sent[c]
    /\ stream[c] = IF service = "echo1" THEN rounds[c] % MaxStreams ELSE 0

(* server3 ends only after a client's input ended or a client was           *)
(* interrupted while it waited; client3 ends well only on an empty line, or *)
(* on one that leaves the bare newline for the next fgets().                *)
EndsAsAsked ==
  Echo => /\ spc = "dead" => left # {}
          /\ \A c \in Clients : pc[c] = "done" => typed[c] % (BuffSize - 1) = 0

(* Whatever the clock does between the two messages, and in whichever order  *)
(* their streams deliver them, the date and the time that a client of        *)
(* server2 prints are of one moment: midnight does not come in between.      *)
OneReading ==
  Clock => \A c \in Clients : Cardinality({m.at : m \in shown[c]}) <= 1

(* Who waits for an answer or for the date stops waiting, as long as the    *)
(* server runs.                                                             *)
Answered == \A c \in Clients : pc[c] = "waits" ~> pc[c] # "waits" \/ spc = "dead"
=============================================================================

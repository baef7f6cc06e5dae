----------------------------- MODULE PalindromeUdp -----------------------------
(***************************************************************************)
(* The UDP palindrome service of pus-01: server3.c answers one datagram    *)
(* after another, client3.c sends a line, waits for the answer and sends   *)
(* the next.  Neither has a timeout.                                       *)
(*                                                                         *)
(* The client never fills in sin_addr, so it always talks to its own host: *)
(* datagrams stay in order and are not duplicated, one that finds the      *)
(* receive queue full is dropped, and one sent to a closed port is         *)
(* reported by the next recv() of the sender (ECONNREFUSED).               *)
(***************************************************************************)
EXTENDS Naturals, Sequences, FiniteSets

CONSTANTS
    Clients,    \* the client processes
    RcvBuf,     \* how many datagrams the server's socket queues
    MaxLines    \* how many lines are typed at one client (bound)

ASSUME UdpAssumption == RcvBuf \in Nat \ {0} /\ MaxLines \in Nat

(* What one fgets() finds on stdin, in a buffer of 256 bytes.  mirror, plain: *)
(* digits that are a palindrome, that are none.  zeros: nothing but zeros.    *)
(* text: anything else.  enter: the newline alone.  full: 255 digits of a     *)
(* longer line, whose rest the next fgets() finds.  last: digits that stdin   *)
(* ends behind, without a newline.  eof: stdin has ended, and buff keeps the  *)
(* null bytes it was filled with.                                             *)
Lines == {"mirror", "plain", "zeros", "text", "enter", "full", "last", "eof"}

(* What the server makes of the 256 bytes that are sent.  "empty" begins with *)
(* a null byte; a "chunk" is digits without a newline.                        *)
Frames == {"mirror", "plain", "zeros", "text", "chunk", "empty"}

Answers == {"palindrome", "not palindrome", "not digits"}

VARIABLES
    (* the clients *)
    cpc,        \* cpc[c]: "fgets", "recv", "done" (exit 0) or "failed"
    lines,      \* lines[c]: what each fgets() has found so far
    last,       \* last[c]: the frame sent last
    heard,      \* heard[c]: the answers printed, each with the frame it follows
    (* the sockets *)
    queue,      \* the datagrams in the server's receive queue
    reply,      \* reply[c]: the answers in the receive queue of c
    refused,    \* refused[c]: an error is pending on the socket of c
    (* the server *)
    spc,        \* "recvfrom", "sendto" or "stopped"
    peer,       \* client_addr
    mess,       \* mess
    flag        \* flag_not_number

client == <<cpc, lines, last, heard>>
serviceVars == <<cpc, lines, last, heard, queue, reply, refused, spc, peer, mess, flag>>

ServiceInit ==
    /\ cpc = [c \in Clients |-> "fgets"]
    /\ lines = [c \in Clients |-> <<>>]
    /\ last = [c \in Clients |-> "empty"]
    /\ heard = [c \in Clients |-> <<>>]
    /\ queue = <<>>
    /\ reply = [c \in Clients |-> <<>>]
    /\ refused = [c \in Clients |-> FALSE]
    /\ spc = "recvfrom"
    /\ peer \in Clients
    /\ mess = "not digits"
    /\ flag = 0
-------------------------------------------------------------------------------
(* send() on the connected socket *)
Send(c, frame) ==
    /\ last' = [last EXCEPT ![c] = frame]
    /\ IF spc = "stopped"
       THEN refused' = [refused EXCEPT ![c] = TRUE] /\ UNCHANGED queue
       ELSE /\ queue' = IF Len(queue) < RcvBuf
                        THEN Append(queue, [from |-> c, frame |-> frame]) ELSE queue
            /\ UNCHANGED refused

(* The newline alone: buff[0] is overwritten, the frame is sent, the client    *)
(* ends.                                                                       *)
SendEmpty(c) ==
    /\ Send(c, "empty")
    /\ cpc' = [cpc EXCEPT ![c] = "done"]

Ask(c, frame) ==
    /\ Send(c, frame)
    /\ cpc' = [cpc EXCEPT ![c] = "recv"]

FrameOf(line) ==
    CASE line \in {"full", "last"} -> "chunk" [] line = "eof" -> "empty" [] OTHER -> line

(* Mutant of ReadLine: after a line that is no number the next one is read at *)
(* once, without waiting for the answer.                                       *)
ReadLineNoWait(c) ==
    /\ cpc[c] = "fgets"
    /\ Len(lines[c]) < MaxLines
    /\ \E line \in {"mirror", "text"} :
          /\ lines' = [lines EXCEPT ![c] = Append(@, line)]
          /\ Send(c, line)
          /\ cpc' = [cpc EXCEPT ![c] = IF line = "text" THEN "fgets" ELSE "recv"]
    /\ UNCHANGED <<heard, reply, spc, peer, mess, flag>>

(* stdin has ended: fgets() finds the end, and finds it again. *)
Ended(c) == \E k \in DOMAIN lines[c] : lines[c][k] \in {"last", "eof"}

(* fgets() with the next piece of the input *)
ReadLine(c) ==
    /\ cpc[c] = "fgets"
    /\ \E line \in Lines :
          /\ Len(lines[c]) < MaxLines
          /\ Ended(c) => line = "eof"
          /\ lines' = [lines EXCEPT ![c] = Append(@, line)]
          /\ IF line = "enter" THEN SendEmpty(c) ELSE Ask(c, FrameOf(line))
    /\ UNCHANGED <<heard, reply, spc, peer, mess, flag>>

(* recv() *)
PrintAnswer(c) ==
    /\ cpc[c] = "recv"
    /\ ~refused[c]
    /\ reply[c] # <<>>
    /\ heard' = [heard EXCEPT ![c] = Append(@, [to |-> last[c], answer |-> Head(reply[c])])]
    /\ reply' = [reply EXCEPT ![c] = Tail(@)]
    /\ cpc' = [cpc EXCEPT ![c] = "fgets"]
    /\ UNCHANGED <<lines, last, queue, refused, spc, peer, mess, flag>>

Refused(c) ==
    /\ cpc[c] = "recv"
    /\ refused[c]
    /\ refused' = [refused EXCEPT ![c] = FALSE]
    /\ cpc' = [cpc EXCEPT ![c] = "failed"]
    /\ UNCHANGED <<lines, last, heard, queue, reply, spc, peer, mess, flag>>
-------------------------------------------------------------------------------
(* Mutant of CheckDigits: a character that is no digit sets the flag, nothing  *)
(* clears it.                                                                  *)
CheckDigitsSticky(frame) == IF frame \in {"text", "chunk"} THEN 1 ELSE flag

(* The loop over the bytes up to '\n' leaves 1 at the first that is no digit, *)
(* which in a chunk is the null byte behind the last digit.                   *)
CheckDigits(frame) == IF frame \in {"text", "chunk"} THEN 1 ELSE 0

(* is_palindrome(); for zeros it compares with a byte that was never written. *)
is_palindrome(frame) ==
    CASE frame = "mirror" -> {1} [] frame = "plain" -> {0} [] OTHER -> {0, 1}

(* Mutant of Recvfrom: a line that is no number is passed over with continue. *)
RecvfromSkipsText ==
    /\ spc = "recvfrom"
    /\ queue # <<>>
    /\ queue' = Tail(queue)
    /\ peer' = Head(queue).from
    /\ Head(queue).frame # "empty"
    /\ flag' = CheckDigits(Head(queue).frame)
    /\ IF flag' = 1 THEN spc' = "recvfrom" /\ UNCHANGED mess
                    ELSE spc' = "sendto" /\ mess' = "palindrome"
    /\ UNCHANGED <<client, reply, refused>>

Recvfrom ==
    /\ spc = "recvfrom"
    /\ queue # <<>>
    /\ queue' = Tail(queue)
    /\ peer' = Head(queue).from
    /\ LET frame == Head(queue).frame
       IN  /\ frame # "empty"
           /\ flag' = CheckDigits(frame)
           /\ IF flag' = 0
              THEN \E r \in is_palindrome(frame) :
                      mess' = IF r # 0 THEN "palindrome" ELSE "not palindrome"
              ELSE mess' = "not digits"
    /\ spc' = "sendto"
    /\ UNCHANGED <<client, reply, refused>>

(* The empty frame ends the loop; close() discards what is queued. *)
Stop ==
    /\ spc = "recvfrom"
    /\ queue # <<>>
    /\ Head(queue).frame = "empty"
    /\ peer' = Head(queue).from
    /\ queue' = <<>>
    /\ spc' = "stopped"
    /\ UNCHANGED <<client, reply, refused, mess, flag>>

Sendto ==
    /\ spc = "sendto"
    /\ reply' = [reply EXCEPT ![peer] = Append(@, mess)]
    /\ spc' = "recvfrom"
    /\ UNCHANGED <<client, queue, refused, peer, mess, flag>>
-------------------------------------------------------------------------------
Client(c) == ReadLine(c) \/ PrintAnswer(c) \/ Refused(c)

Server == Recvfrom \/ Stop \/ Sendto

ServiceNext == Server \/ \E c \in Clients : Client(c)

(* The server is scheduled, and so is a client whose recv() can return. *)
ServiceSpec ==
    /\ ServiceInit /\ [][ServiceNext]_serviceVars
    /\ WF_serviceVars(Server)
    /\ \A c \in Clients : WF_serviceVars(PrintAnswer(c) \/ Refused(c))
-------------------------------------------------------------------------------
(* The frames of c that are under way: queued, being answered, or answered. *)
UnderWay(c) ==
    Cardinality({k \in DOMAIN queue : queue[k].from = c}) + Len(reply[c])
    + (IF spc = "sendto" /\ peer = c THEN 1 ELSE 0)

(* A client that reads its next line has nothing under way, and one that waits *)
(* at most one datagram: so it cannot take the answer to an earlier line for   *)
(* the answer to this one, though nothing in a datagram says which it is       *)
(* (client3.c 69-82, server3.c 74-130).                                        *)
LockStep ==
    \A c \in Clients : UnderWay(c) <= (IF cpc[c] \in {"recv", "done"} THEN 1 ELSE 0)

(* Each answer a client prints is the answer to the line it sent last: the     *)
(* flag, the address and the message of one datagram do not leak into the next *)
(* (server3.c 67-68, 98-130).                                                  *)
Fits(frame, answer) ==
    CASE frame \in {"text", "chunk"} -> answer = "not digits"
      [] frame = "mirror"            -> answer = "palindrome"
      [] frame = "plain"             -> answer = "not palindrome"
      [] frame = "zeros"             -> answer # "not digits"
      [] OTHER                       -> FALSE

AnswersFit ==
    \A c \in Clients : \A k \in DOMAIN heard[c] : Fits(heard[c][k].to, heard[c][k].answer)

(* A line that reached the server's queue is answered, unless an empty frame   *)
(* of some client stops the server first (server3.c 71-131).                   *)
Queued(c) == \E k \in DOMAIN queue : queue[k].from = c

QueuedIsAnswered ==
    \A c \in Clients : cpc[c] = "recv" /\ Queued(c) ~> cpc[c] = "fgets" \/ spc = "stopped"
===============================================================================

------------------------------ MODULE IcmpPath ------------------------------
(***************************************************************************)
(* ping (pus-03) and the programs that let packets pass (pus-07).  The     *)
(* parent sends echo requests, the child opens a raw socket for each reply *)
(* it waits for; what the parent sends goes through a netfilter queue,     *)
(* where queue passes it on and queuemod turns its text around, and over a *)
(* network that loses and reorders to a host that answers what has a good  *)
(* checksum.                                                               *)
(*                                                                         *)
(* A packet is its bytes, of a smaller alphabet than 256; the lengths are  *)
(* those of the headers in proportion.                                     *)
(***************************************************************************)
EXTENDS Integers, Sequences, FiniteSets

CONSTANTS Base,         \* values of a byte
          Messages,     \* what the message array of ping may hold
          TimeStamp,    \* timestamp_s: bytes queuemod leaves alone
          Count,        \* 4: echo requests, and replies waited for
          QueueMax      \* packets the kernel queues for the program

ASSUME IcmpAssumption ==
  /\ Base \in Nat \ {0, 1}
  /\ \A m \in Messages : m \in Seq(0 .. Base - 1)
  /\ TimeStamp \in Nat /\ Count \in Nat \ {0} /\ QueueMax \in Nat \ {0}

-----------------------------------------------------------------------------
(* internet_checksum(): the 16-bit words are added, with a last odd byte as  *)
(* it is; the carries are added until there are none; the complement.        *)
Word == Base * Base

Words(bytes) ==
  [k \in 1 .. (Len(bytes) + 1) \div 2 |->
     bytes[2 * k - 1] + IF 2 * k <= Len(bytes) THEN Base * bytes[2 * k] ELSE 0]

sum[s \in Seq(Nat)] == IF s = <<>> THEN 0 ELSE Head(s) + sum[Tail(s)]

fold_once[n \in Nat] == (n % Word) + (n \div Word)
fold[n \in Nat] == IF n < Word THEN n ELSE fold[(n % Word) + (n \div Word)]

internet_checksum_one_fold(bytes) == (Word - 1 - fold_once[sum[Words(bytes)]]) % Word
internet_checksum(bytes) == Word - 1 - fold[sum[Words(bytes)]]

(* A datagram: type, code, checksum and sequence number, then the message.   *)
Bytes(d) == <<d.type, 0, d.checksum % Base, d.checksum \div Base, d.seq, 0>> \o d.message

WithChecksum(d) ==
  [d EXCEPT !.checksum = internet_checksum(Bytes([d EXCEPT !.checksum = 0]))]

(* What any receiver does before it looks at the rest. *)
Good(d) == internet_checksum(Bytes(d)) = 0

(* The requests and replies among what is in s: an echo is numbered from 1. *)
Numbers(s) == {s[k].seq : k \in DOMAIN s} \ {0}

(* swap_bytes(): the two ends move towards each other. *)
swap_bytes(m) == [k \in 1 .. Len(m) |-> m[Len(m) + 1 - k]]

-----------------------------------------------------------------------------
VARIABLES
  message,     \* the message array of the parent, of which 22 bytes are set
  program,     \* queue, queuemod, or none: then nothing is queued
  ppc, i,      \* the parent, and the requests it has sent
  cpc, got,    \* the child, and the messages it has received
  inbox,       \* what its socket holds
  queue,       \* waiting for the program
  rpc,         \* the program
  net,         \* on the way, in either direction
  lost,        \* sequence numbers of what was dropped, by whom ever
  missed       \* of replies no socket, or one of the earlier ones, received

parent == <<ppc, i>>
child == <<cpc, got, inbox, missed>>
path == <<queue, rpc, net, lost>>
vars == <<message, program, parent, child, path>>

ICMP_ECHO == 1
ICMP_ECHOREPLY == 0
ICMP_DEST_UNREACH == 3

Datagram(n) ==
  WithChecksum([type |-> ICMP_ECHO, seq |-> n, checksum |-> 0, message |-> message])

Init ==
  /\ message \in Messages
  /\ program \in {"none", "queue", "queuemod"}
  /\ ppc = "fork" /\ i = 0
  /\ cpc = "none" /\ got = 0
  /\ inbox = <<>> /\ queue = <<>> /\ net = {}
  /\ rpc = "recv"
  /\ lost = {} /\ missed = {}

-----------------------------------------------------------------------------
(* The parent: main() and ping() *)

Fork ==
  /\ ppc = "fork"
  /\ ppc' = "resolve"
  /\ cpc' \in {"sleep", "none"}
  /\ UNCHANGED <<message, program, i, got, inbox, missed, path>>

(* getaddrinfo(), the socket, its option; the child is killed if one fails. *)
(* Without a child, as fork() has failed, that is kill(-1): everything ends. *)
Resolve ==
  /\ ppc = "resolve"
  /\ ppc' = "send"
  /\ UNCHANGED <<message, program, i, child, path>>

ResolveFails_child_left ==
  /\ ppc = "resolve"
  /\ ppc' = "error"
  /\ UNCHANGED <<message, program, i, child, path>>

ResolveFails ==
  /\ ppc = "resolve"
  /\ ppc' = "error"
  /\ cpc' = IF cpc \in {"none", "exit"} THEN cpc ELSE "killed"
  /\ rpc' = IF cpc = "none" THEN "ended" ELSE rpc
  /\ UNCHANGED <<message, program, i, got, inbox, missed, queue, net, lost>>

(* Into the queue; one that is full, or without its program, drops. *)
Enqueue(d) ==
  CASE program = "none" -> net' = net \cup {d} /\ UNCHANGED <<queue, lost, rpc>>
    [] program # "none" /\ rpc = "recv" /\ Len(queue) < QueueMax ->
         queue' = Append(queue, d) /\ UNCHANGED <<net, lost, rpc>>
    [] OTHER -> lost' = lost \cup {d.seq} /\ UNCHANGED <<queue, net, rpc>>

(* One request; sendto() may fail, which is only reported. *)
SendRequest ==
  /\ ppc = "send"
  /\ i' = i + 1
  /\ ppc' = IF i' = Count THEN "wait" ELSE "send"
  /\ \/ Enqueue(Datagram(i'))
     \/ lost' = lost \cup {i'} /\ UNCHANGED <<queue, net, rpc>>
  /\ UNCHANGED <<message, program, child>>

(* wait() returns when the child has ended, or when there is none. *)
Wait ==
  /\ ppc = "wait" /\ cpc \in {"none", "exit"}
  /\ ppc' = "exit"
  /\ UNCHANGED <<message, program, i, child, path>>

-----------------------------------------------------------------------------
(* The child: pong() *)

(* What an earlier socket has received is not read any more. *)
Socket ==
  /\ cpc \in {"sleep", "open"}
  /\ cpc' = "recvfrom"
  /\ inbox' = <<>>
  /\ missed' = missed \cup Numbers(inbox)
  /\ UNCHANGED <<message, program, parent, got, path>>

Received_reading_on == cpc' = IF got' = Count + 1 THEN "exit" ELSE "open"
Received == cpc' = IF got' = Count THEN "exit" ELSE "open"

Recvfrom ==
  /\ cpc = "recvfrom" /\ inbox # <<>>
  /\ got' = got + 1
  /\ inbox' = Tail(inbox)
  /\ Received
  /\ UNCHANGED <<message, program, parent, missed, path>>

(* socket() has failed, so recvfrom() does at once: neither is tested. *)
RecvfromFails ==
  /\ cpc \in {"sleep", "open"}
  /\ got' = got + 1
  /\ Received
  /\ inbox' = <<>>
  /\ missed' = missed \cup Numbers(inbox)
  /\ UNCHANGED <<message, program, parent, path>>

-----------------------------------------------------------------------------
(* queue and queuemod *)

(* change_packet(): what is behind the time stamp is turned around.  Before  *)
(* its end the length wraps around; right at it, the place of the last byte. *)
Short(d) == Len(d.message) <= TimeStamp

change_packet(d) ==
  WithChecksum([d EXCEPT !.message =
    SubSeq(@, 1, TimeStamp) \o swap_bytes(SubSeq(@, TimeStamp + 1, Len(@)))])

Handle ==
  /\ program # "none" /\ rpc = "recv" /\ queue # <<>>
  /\ LET d == Head(queue)
     IN  IF program = "queuemod" /\ Short(d)
         THEN /\ rpc' = "crashed"
              /\ queue' = <<>>
              /\ lost' = lost \cup Numbers(queue)
              /\ UNCHANGED net
         ELSE /\ net' = net \cup {IF program = "queuemod" THEN change_packet(d) ELSE d}
              /\ queue' = Tail(queue)
              /\ UNCHANGED <<rpc, lost>>
  /\ UNCHANGED <<message, program, parent, child>>

(* recv() fails, by ENOBUFS for one, or if_indextoname() does: the program   *)
(* ends, and the kernel drops what was queued for it.                        *)
ProgramEnds ==
  /\ program # "none" /\ rpc = "recv"
  /\ rpc' = "ended"
  /\ queue' = <<>>
  /\ lost' = lost \cup Numbers(queue)
  /\ UNCHANGED <<message, program, parent, child, net>>

-----------------------------------------------------------------------------
(* The network and the other host *)

Lose(d) ==
  /\ net' = net \ {d}
  /\ lost' = lost \cup {d.seq}
  /\ UNCHANGED <<message, program, parent, child, queue, rpc>>

Answer(d) ==
  /\ d.type = ICMP_ECHO /\ Good(d)
  /\ net' = (net \ {d}) \cup {WithChecksum([d EXCEPT !.type = ICMP_ECHOREPLY])}
  /\ UNCHANGED <<message, program, parent, child, queue, rpc, lost>>

Arrive(d) ==
  /\ d.type = ICMP_ECHOREPLY
  /\ net' = net \ {d}
  /\ IF cpc \in {"recvfrom", "open"}
     THEN inbox' = Append(inbox, d) /\ UNCHANGED missed
     ELSE missed' = missed \cup {d.seq} /\ UNCHANGED inbox
  /\ UNCHANGED <<message, program, parent, cpc, got, queue, rpc, lost>>

(* Any other ICMP message the host gets: a raw socket receives them all, and *)
(* pong() takes the first ones for replies.  One at a time waits in a socket. *)
Unrelated ==
  WithChecksum([type |-> ICMP_DEST_UNREACH, seq |-> 0, checksum |-> 0, message |-> <<>>])

Stray ==
  /\ cpc \in {"recvfrom", "open"}
  /\ \A k \in DOMAIN inbox : inbox[k].seq # 0
  /\ inbox' = Append(inbox, Unrelated)
  /\ UNCHANGED <<message, program, parent, cpc, got, missed, path>>

Network == \E d \in net : Lose(d) \/ Answer(d) \/ Arrive(d)

Parent == Fork \/ Resolve \/ ResolveFails \/ SendRequest \/ Wait
Child == Socket \/ Recvfrom \/ RecvfromFails
Program == Handle \/ ProgramEnds

Next == Parent \/ Child \/ Program \/ Network \/ Stray

(* The processes run, and the network loses or delivers; nothing else need come. *)
Spec ==
  /\ Init /\ [][Next]_vars
  /\ WF_vars(Parent) /\ WF_vars(Child) /\ WF_vars(Handle) /\ WF_vars(Network)

-----------------------------------------------------------------------------
(* What queuemod has turned around and what the other host has answered     *)
(* still has the checksum of its bytes, whatever they are and however many   *)
(* carries their sum has.                                                    *)
ChecksumsHold == \A d \in net : Good(d)

(* The parent leaves no child behind, whichever of its calls fails; that     *)
(* somebody else kills it is left out (ping.c 83-117, 149-157).              *)
ChildEndsFirst == ppc \in {"exit", "error"} => cpc \in {"none", "exit", "killed"}

(* ping ends, unless one of the datagrams was dropped on the way, or a reply *)
(* came while the child was not listening; then it waits for ever.           *)
PingEnds == ppc = "wait" ~> ppc = "exit" \/ lost \cup missed # {}
=============================================================================

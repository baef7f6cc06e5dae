------------------------------ MODULE ChatServer ------------------------------
(***************************************************************************)
(* The TCP chat server of pus-01 (server4.c): one thread, one select()     *)
(* loop, a table of MAX_CLIENTS descriptors, blocking send() and recv().   *)
(* The sockets, the descriptor table and the telnet clients at the other   *)
(* end are modelled from the calls the server makes (external actions).    *)
(*                                                                         *)
(* Every system call of the server that can block, fail or be overtaken by *)
(* a peer is one action; the code between two calls belongs to the action  *)
(* of the call before it.                                                  *)
(***************************************************************************)
EXTENDS Integers, Sequences, FiniteSets

CONSTANTS
    Conns,       \* the connections that telnet clients open, each one session
    MaxClients,  \* MAX_CLIENTS
    MaxFd,       \* the largest descriptor the process may hold
    SndBuf,      \* how many messages a socket buffers before send() blocks
    RecvMax,     \* how many typed lines fit in one recv() (MAX_BUF_SIZE)
    MaxTyped,    \* how many lines one client types (bound)
    Residues,    \* what buf may hold behind the received bytes, Clean if nothing
    NoConn       \* the entry of a descriptor that is not open

(* 0, 1 and 2 are the standard streams, socket() gave 3 to the listener. *)
ListenFd == 3
Fds      == 4..MaxFd
Slots    == 1..MaxClients
Clean    == "clean"

ASSUME ChatAssumption ==
    /\ MaxClients \in Nat \ {0}
    /\ MaxFd \in Nat
    /\ SndBuf \in Nat \ {0}
    /\ RecvMax \in Nat \ {0}
    /\ MaxTyped \in Nat
    /\ Clean \in Residues
    /\ NoConn \notin Conns

VARIABLES
    (* the kernel and the peers *)
    tcp,         \* tcp[c]: the state of the connection, see States
    typed,       \* typed[c]: how many lines the client of c has sent
    unread,      \* unread[c]: how many of our messages the client has not read
    backlog,     \* connections established but not yet accepted
    file,        \* the descriptor table: file[fd] is a connection or NoConn
    (* the server *)
    slots,       \* clients_connfd[]; 0 is a free entry
    readset,     \* readset
    maxfd,       \* maxfd
    pc,          \* where the server is
    slot,        \* i of handle_client_action: the next entry to look at
    dest,        \* i of send_message_to_other: the next entry to look at
    cfd,         \* the descriptor being served (new_clientfd, cfd, excludedfd)
    taken,       \* taken[c]: how many lines of c were received
    (* history *)
    feed,        \* every event the server has announced, with its addressees
    got          \* got[c]: the indices of feed whose send() to c succeeded

kernel  == <<tcp, typed, unread, backlog, file>>
server  == <<slots, readset, maxfd, pc, slot, dest, cfd, taken>>
history == <<feed, got>>
vars    == <<kernel, server, history>>

(* idle: no session yet.  up: both ends open.  fin: the client closed with    *)
(* nothing unread.  finsent: as fin, and we have sent since, so the client's  *)
(* host will answer RST.  rst: the client closed with something unread, its   *)
(* host sent RST and no call has reported it yet.  dead: RST was received and *)
(* reported, or followed the FIN.  over: we closed it.                        *)
States == {"idle", "up", "fin", "finsent", "rst", "dead", "over"}

PCs == {"update", "select", "accept", "hello", "join", "announce", "refuse",
        "close", "scan", "relay", "exited", "killed"}

Running == pc \notin {"exited", "killed"}

Connected == {s \in Slots : slots[s] > 0}

Conn(s) == file[slots[s]]

Room == {Conn(s) : s \in Connected}

Gone(c) == tcp[c] \notin {"idle", "up"}

Lines(c) == typed[c] - taken[c]

Readable(fd) ==
    IF fd = ListenFd THEN backlog # <<>>
    ELSE /\ file[fd] \in Conns
         /\ \/ Lines(file[fd]) > 0
            \/ Gone(file[fd])

(* The entries each loop has still to visit.  Mutant of Others: its loop starts *)
(* at the second entry.                                                         *)
ReadySlots == {s \in Connected : s >= slot /\ slots[s] \in readset}
OthersFromSecond == {s \in Connected : s > dest /\ slots[s] # cfd}
Others     == {s \in Connected : s >= dest /\ slots[s] # cfd}

First(s, S) == s \in S /\ \A t \in S : s <= t

Init ==
    /\ tcp = [c \in Conns |-> "idle"]
    /\ typed = [c \in Conns |-> 0]
    /\ unread = [c \in Conns |-> 0]
    /\ backlog = <<>>
    /\ file = [fd \in Fds |-> NoConn]
    /\ slots = [s \in Slots |-> 0]
    /\ readset = {}
    /\ maxfd = 0
    /\ pc = "update"
    /\ slot = 1
    /\ dest = 1
    /\ cfd = 0
    /\ taken = [c \in Conns |-> 0]
    /\ feed = <<>>
    /\ got = [c \in Conns |-> <<>>]
-------------------------------------------------------------------------------
(***************************************************************************)
(* The clients and the kernel.  They stop with the server.                 *)
(***************************************************************************)
Connect(c) ==
    /\ tcp[c] = "idle"
    /\ tcp' = [tcp EXCEPT ![c] = "up"]
    /\ backlog' = Append(backlog, c)
    /\ UNCHANGED <<typed, unread, file, server, history>>

Type(c) ==
    /\ tcp[c] = "up"
    /\ typed[c] < MaxTyped
    /\ typed' = [typed EXCEPT ![c] = @ + 1]
    /\ UNCHANGED <<tcp, unread, backlog, file, server, history>>

Read(c) ==
    /\ tcp[c] = "up"
    /\ unread[c] > 0
    /\ unread' = [unread EXCEPT ![c] = 0]
    /\ UNCHANGED <<tcp, typed, backlog, file, server, history>>

(* A close with unread data makes the client's host send RST, not FIN. *)
HangUp(c) ==
    /\ tcp[c] = "up"
    /\ tcp' = [tcp EXCEPT ![c] = IF unread[c] = 0 THEN "fin" ELSE "rst"]
    /\ unread' = [unread EXCEPT ![c] = 0]
    /\ UNCHANGED <<typed, backlog, file, server, history>>

(* The answer to data sent to a closed socket. *)
RstArrives(c) ==
    /\ tcp[c] = "finsent"
    /\ tcp' = [tcp EXCEPT ![c] = "dead"]
    /\ UNCHANGED <<typed, unread, backlog, file, server, history>>
-------------------------------------------------------------------------------
(***************************************************************************)
(* The server.                                                             *)
(***************************************************************************)
Post(what, c, n, r, to) ==
    feed' = Append(feed, [what |-> what, from |-> c, text |-> n, tail |-> r, to |-> to])

(* send() on a connection: the event goes to the client, or is lost, or the   *)
(* call fails and handle_error only prints, or the process gets SIGPIPE.  It  *)
(* blocks while the client is there and the buffer is full.                   *)
Sent(c) ==
    /\ tcp[c] = "up"
    /\ unread[c] < SndBuf
    /\ unread' = [unread EXCEPT ![c] = @ + 1]
    /\ got' = [got EXCEPT ![c] = Append(@, Len(feed))]
    /\ UNCHANGED tcp

LostOrFailed(c) ==
    /\ \/ /\ tcp[c] \in {"fin", "finsent"}
          /\ tcp' = [tcp EXCEPT ![c] = "finsent"]
       \/ /\ tcp[c] = "rst"
          /\ tcp' = [tcp EXCEPT ![c] = "dead"]
    /\ UNCHANGED <<unread, got>>

send_message(c, next) ==
    /\ \/ /\ Sent(c) \/ LostOrFailed(c)
          /\ pc' = next
       \/ /\ tcp[c] = "dead"
          /\ pc' = "killed"
          /\ UNCHANGED <<tcp, unread, got>>
    /\ UNCHANGED <<typed, backlog, file, slots, readset, maxfd, slot, cfd, taken, feed>>

(* Mutant of UpdateReadset: maxfd stays listenfd. *)
UpdateReadsetWithoutMax ==
    /\ pc = "update"
    /\ readset' = {ListenFd} \cup {slots[s] : s \in Connected}
    /\ maxfd' = ListenFd
    /\ pc' = "select"
    /\ UNCHANGED <<kernel, slots, slot, dest, cfd, taken, history>>

(* update_readset() *)
UpdateReadset ==
    /\ pc = "update"
    /\ readset' = {ListenFd} \cup {slots[s] : s \in Connected}
    /\ maxfd' \in readset'
    /\ \A fd \in readset' : fd <= maxfd'
    /\ pc' = "select"
    /\ UNCHANGED <<kernel, slots, slot, dest, cfd, taken, history>>

(* select() looks at the descriptors below maxfd + 1 and leaves the ready ones. *)
Select ==
    /\ pc = "select"
    /\ readset' = {fd \in readset : fd < maxfd + 1 /\ Readable(fd)}
    /\ readset' # {}
    /\ pc' = IF ListenFd \in readset' THEN "accept" ELSE "scan"
    /\ slot' = 1
    /\ UNCHANGED <<kernel, slots, maxfd, dest, cfd, taken, history>>

(* handle_server_action(): accept() takes the lowest free descriptor. *)
TakeDescriptor(fd, c) ==
    /\ backlog # <<>>
    /\ c = Head(backlog)
    /\ backlog' = Tail(backlog)
    /\ First(fd, {g \in Fds : file[g] = NoConn})
    /\ file' = [file EXCEPT ![fd] = c]
    /\ cfd' = fd
    /\ UNCHANGED <<tcp, typed, unread, readset, maxfd, slot, dest, taken, got>>

(* Mutants of Admit: the listener is stored; the loop that looks for a free   *)
(* entry has no break; the newcomer is not greeted.                           *)
AdmitListener ==
    /\ pc = "accept"
    /\ Cardinality(Connected) < MaxClients
    /\ \E fd \in Fds, c \in Conns, s \in Slots :
          /\ TakeDescriptor(fd, c)
          /\ First(s, Slots \ Connected)
          /\ slots' = [slots EXCEPT ![s] = ListenFd]
          /\ Post("hello", c, 0, Clean, {c})
    /\ pc' = "hello"

AdmitEverywhere ==
    /\ pc = "accept"
    /\ Cardinality(Connected) < MaxClients
    /\ \E fd \in Fds, c \in Conns :
          /\ TakeDescriptor(fd, c)
          /\ slots' = [s \in Slots |-> IF slots[s] <= 0 THEN fd ELSE slots[s]]
          /\ Post("hello", c, 0, Clean, {c})
    /\ pc' = "hello"

(* add_client_connection() with a free entry in the table *)
Admit ==
    /\ pc = "accept"
    /\ Cardinality(Connected) < MaxClients
    /\ \E fd \in Fds, c \in Conns, s \in Slots :
          /\ TakeDescriptor(fd, c)
          /\ First(s, Slots \ Connected)
          /\ slots' = [slots EXCEPT ![s] = fd]
          /\ Post("hello", c, 0, Clean, {c})
    /\ pc' = "hello"

(* add_client_connection() with the table full *)
Refuse ==
    /\ pc = "accept"
    /\ Cardinality(Connected) >= MaxClients
    /\ \E fd \in Fds, c \in Conns :
          /\ TakeDescriptor(fd, c)
          /\ Post("refuse", c, 0, Clean, {c})
    /\ pc' = "refuse"
    /\ UNCHANGED slots

(* For want of a descriptor or of memory, here or in the whole system:        *)
(* handle_error(..., TRUE) exits.                                             *)
SelectOrAcceptFails ==
    /\ pc \in {"select", "accept"}
    /\ pc' = "exited"
    /\ UNCHANGED <<kernel, slots, readset, maxfd, slot, dest, cfd, taken, history>>

SendHello ==
    /\ pc = "hello"
    /\ send_message(file[cfd], "join")
    /\ UNCHANGED dest

SendRefusal ==
    /\ pc = "refuse"
    /\ send_message(file[cfd], "close")
    /\ UNCHANGED dest

(* Mutant of CloseRefused: the descriptor is not closed. *)
ForgetRefused ==
    /\ pc = "close"
    /\ cfd' = 0
    /\ pc' = "update"
    /\ UNCHANGED <<kernel, slots, readset, maxfd, slot, dest, taken, history>>

CloseRefused ==
    /\ pc = "close"
    /\ tcp' = [tcp EXCEPT ![file[cfd]] = "over"]
    /\ unread' = [unread EXCEPT ![file[cfd]] = 0]
    /\ file' = [file EXCEPT ![cfd] = NoConn]
    /\ cfd' = 0
    /\ pc' = "update"
    /\ UNCHANGED <<typed, backlog, slots, readset, maxfd, slot, dest, taken, history>>

(* The second half of add_client_connection() enters send_message_to_other(). *)
Join ==
    /\ pc = "join"
    /\ Post("join", file[cfd], 0, Clean, Room \ {file[cfd]})
    /\ pc' = "announce"
    /\ dest' = 1
    /\ UNCHANGED <<kernel, slots, readset, maxfd, slot, cfd, taken, got>>

(* One send of send_message_to_other() *)
SendToOther ==
    /\ pc \in {"announce", "relay"}
    /\ \E s \in Slots :
          /\ First(s, Others)
          /\ send_message(Conn(s), pc)
          /\ dest' = s + 1

(* Mutant of SentToAll: the same entry is served again, as in a loop that     *)
(* receives until nothing is left.                                            *)
SentToAllSameEntry ==
    /\ pc \in {"announce", "relay"}
    /\ Others = {}
    /\ pc' = IF pc = "announce" THEN "update" ELSE "scan"
    /\ cfd' = 0
    /\ dest' = 1
    /\ UNCHANGED <<kernel, slots, slot, readset, maxfd, taken, history>>

(* send_message_to_other() returns to main() or to the loop of handle_client_action(). *)
SentToAll ==
    /\ pc \in {"announce", "relay"}
    /\ Others = {}
    /\ \/ /\ pc = "announce"
          /\ pc' = "update"
          /\ UNCHANGED slot
       \/ /\ pc = "relay"
          /\ pc' = "scan"
          /\ slot' = slot + 1
    /\ cfd' = 0
    /\ dest' = 1
    /\ UNCHANGED <<kernel, slots, readset, maxfd, taken, history>>
-------------------------------------------------------------------------------
(* handle_client_action(): the next entry that select() reported *)
Serve(s) ==
    /\ pc = "scan"
    /\ First(s, ReadySlots)

(* recv() returns data: as many of the waiting lines as fit in buf.  buf was    *)
(* not cleared (memset up to the strlen of an uninitialised array), so what     *)
(* follows the received bytes in the relayed text is anything.                  *)
RecvText ==
    \E s \in Slots :
        /\ Serve(s)
        /\ Lines(Conn(s)) > 0
        /\ LET n == IF Lines(Conn(s)) < RecvMax THEN Lines(Conn(s)) ELSE RecvMax
           IN  /\ taken' = [taken EXCEPT ![Conn(s)] = @ + n]
               /\ \E r \in Residues :
                     Post("say", Conn(s), taken[Conn(s)] + n, r, Room \ {Conn(s)})
        /\ slot' = s
        /\ cfd' = slots[s]
        /\ dest' = 1
        /\ pc' = "relay"
        /\ UNCHANGED <<kernel, slots, readset, maxfd, got>>

(* Mutants of RecvEof: the end of the stream is taken for an error, and only  *)
(* reported; the entry is not zeroed.                                         *)
RecvEofIgnored ==
    \E s \in Slots :
        /\ Serve(s)
        /\ Lines(Conn(s)) = 0
        /\ tcp[Conn(s)] \in {"fin", "finsent", "dead"}
        /\ slot' = s + 1
        /\ UNCHANGED <<kernel, slots, readset, maxfd, pc, dest, cfd, taken, history>>

RecvEofKeepsEntry ==
    \E s \in Slots :
        /\ Serve(s)
        /\ Lines(Conn(s)) = 0
        /\ tcp[Conn(s)] \in {"fin", "finsent", "dead"}
        /\ Post("leave", Conn(s), 0, Clean, Room \ {Conn(s)})
        /\ slot' = s
        /\ cfd' = slots[s]
        /\ dest' = 1
        /\ pc' = "relay"
        /\ UNCHANGED <<kernel, slots, readset, maxfd, taken, got>>

(* recv() returns 0: disconect_client() frees the entry and tells the others. *)
RecvEof ==
    \E s \in Slots :
        /\ Serve(s)
        /\ Lines(Conn(s)) = 0
        /\ tcp[Conn(s)] \in {"fin", "finsent", "dead"}
        /\ slots' = [slots EXCEPT ![s] = 0]
        /\ Post("leave", Conn(s), 0, Clean, Room \ {Conn(s)})
        /\ slot' = s
        /\ cfd' = slots[s]
        /\ dest' = 1
        /\ pc' = "relay"
        /\ UNCHANGED <<kernel, readset, maxfd, taken, got>>

(* recv() returns -1: handle_error(..., FALSE) prints, nothing else happens. *)
RecvError ==
    \E s \in Slots :
        /\ Serve(s)
        /\ Lines(Conn(s)) = 0
        /\ tcp[Conn(s)] = "rst"
        /\ tcp' = [tcp EXCEPT ![Conn(s)] = "dead"]
        /\ slot' = s + 1
        /\ UNCHANGED <<typed, unread, backlog, file, slots, readset, maxfd, pc,
                       dest, cfd, taken, history>>

(* handle_client_action() returns. *)
ScanDone ==
    /\ pc = "scan"
    /\ ReadySlots = {}
    /\ pc' = "update"
    /\ UNCHANGED <<kernel, slots, readset, maxfd, slot, dest, cfd, taken, history>>
-------------------------------------------------------------------------------
Server ==
    \/ UpdateReadset \/ Select
    \/ Admit \/ Refuse \/ SelectOrAcceptFails
    \/ SendHello \/ SendRefusal \/ CloseRefused \/ Join
    \/ SendToOther \/ SentToAll
    \/ RecvText \/ RecvEof \/ RecvError \/ ScanDone

Peer(c) == Connect(c) \/ Type(c) \/ Read(c) \/ HangUp(c) \/ RstArrives(c)

Next == Server \/ (Running /\ \E c \in Conns : Peer(c))

Spec == Init /\ [][Next]_vars

(* The server process is scheduled: a call that can return does.  That         *)
(* select() can fail does not make it return when nobody has news, and nothing *)
(* makes a user act: a user who stops reading (Ctrl-S, a suspended telnet) is  *)
(* a behaviour of LazySpec.                                                    *)
LazySpec == Spec /\ WF_vars(Server /\ (pc = "select" => pc' # "exited"))

(* Every client that stays connected keeps reading what it is sent. *)
FairSpec == LazySpec /\ \A c \in Conns : WF_vars(Running /\ Read(c))
-------------------------------------------------------------------------------
(***************************************************************************)
(* Properties.                                                             *)
(***************************************************************************)
FeedEvents == [what : {"hello", "join", "say", "leave", "refuse"}, from : Conns,
               text : 0..MaxTyped, tail : Residues, to : SUBSET Conns]

(* Every variable stays in its type; the loop indices stay within one step of *)
(* the table (server4.c 43-47, 82, 147).                                      *)
TypeOK ==
    /\ tcp \in [Conns -> States]
    /\ typed \in [Conns -> 0..MaxTyped]
    /\ unread \in [Conns -> 0..SndBuf]
    /\ backlog \in Seq(Conns)
    /\ file \in [Fds -> Conns \cup {NoConn}]
    /\ slots \in [Slots -> Fds \cup {0}]
    /\ readset \in SUBSET (Fds \cup {ListenFd})
    /\ maxfd \in Fds \cup {ListenFd, 0}
    /\ pc \in PCs
    /\ slot \in 1..(MaxClients + 1)
    /\ dest \in 1..(MaxClients + 1)
    /\ cfd \in Fds \cup {0}
    /\ taken \in [Conns -> 0..MaxTyped]
    /\ feed \in Seq(FeedEvents)
    /\ got \in [Conns -> Seq(Nat)]

(* clients_connfd[] holds each open descriptor at most once and no descriptor *)
(* that is closed, so a message reaches each member once and no descriptor    *)
(* number is given out twice (add_client_connection 89-113, disconect_client  *)
(* 134-143).                                                                  *)
SlotTable ==
    /\ \A s \in Connected : file[slots[s]] \in Conns
    /\ \A s, t \in Connected : slots[s] = slots[t] => s = t
    /\ \A f, g \in Fds : file[f] = file[g] /\ file[f] \in Conns => f = g

(* The thread never enters a recv() or an accept() that would block it: what  *)
(* select() reported stays true until the loop reaches it, whatever the peers *)
(* and the sends in between do (main 214-223, handle_client_action 147-152).  *)
NoBlockingReceive ==
    /\ pc = "accept" => Readable(ListenFd)
    /\ pc = "scan" => \A s \in ReadySlots : Readable(slots[s])

(* Who the table holds is who was let in and not yet reported gone: nobody is *)
(* reported gone twice or without having entered, and nobody vanishes without *)
(* a report (93-99 and 134-142).                                              *)
Of(what) == {k \in DOMAIN feed : feed[k].what = what}

MembersAsAnnounced ==
    /\ Cardinality(Connected) + Cardinality(Of("leave")) = Cardinality(Of("hello"))
    /\ Room = {feed[k].from : k \in Of("hello")} \ {feed[k].from : k \in Of("leave")}

(* Every descriptor that accept() returned is in the table, or is the one     *)
(* being refused, or was left open by disconect_client: nothing else is lost  *)
(* (close() is called at 110 only).                                           *)
DescriptorsAccounted ==
    Cardinality({fd \in Fds : file[fd] # NoConn}) =
        Cardinality(Connected) + Cardinality(Of("leave"))
        + (IF pc \in {"refuse", "close"} THEN 1 ELSE 0)
-------------------------------------------------------------------------------
(* server4.c implements the room of ChatRoom: each step of the select() loop  *)
(* is a step of the room or none.                                             *)
Abs == INSTANCE ChatRoom WITH room <- Room, gone <- {c \in Conns : Gone(c)}, told <- taken

ImplementsRoom == Abs!RoomSpec
-------------------------------------------------------------------------------
(* Item 4 (22-23): a connection that telnet closed is taken out of the table, *)
(* and so out of readset, unless the server dies first.                       *)
GoneIsForgotten ==
    \A c \in Conns : (c \in Room /\ Gone(c)) ~> (c \notin Room \/ ~Running)

(* Item 5 (25-26): what a member typed is received, and relaying it is what   *)
(* the server then does (ImplementsRoom); it cannot be overlooked for ever by *)
(* a loop that serves one readset after the other.                            *)
LinesRelayed ==
    \A c \in Conns : (c \in Room /\ Lines(c) > 0) ~> (Lines(c) = 0 \/ ~Running)
-------------------------------------------------------------------------------
(* What the comments of server4.c say and the code does not do.               *)

(* Line 54: the third parameter of handle_error decides whether an error may  *)
(* stop the server, and send_message passes FALSE (77).                       *)
SendErrorsAreHarmless == pc # "killed"
===============================================================================

--------------------------- MODULE ChatServerProofs ---------------------------
(***************************************************************************)
(* Theorems about ChatServer for any number of connections, entries,       *)
(* descriptors and lines.  The invariant that is inductive is Inv: the     *)
(* type invariant and SlotTable need to know, besides themselves, that a   *)
(* connection is in one place only (not begun, in the backlog, or behind   *)
(* one descriptor) and what the descriptor in hand is at each point of the *)
(* loop.                                                                   *)
(*                                                                         *)
(* The second half proves that the loop implements the room and that the   *)
(* table and the descriptors agree with what was announced.                *)
(***************************************************************************)
EXTENDS ChatServer, FiniteSetTheorems, TLAPS

InFile(c)    == \E fd \in Fds : file[fd] = c
InBacklog(c) == \E k \in DOMAIN backlog : backlog[k] = c

(* A connection that has not begun is nowhere, one that waits to be accepted *)
(* waits once and has no descriptor yet.                                     *)
OnePlace ==
    /\ \A c \in Conns : tcp[c] = "idle" => ~InFile(c) /\ ~InBacklog(c)
    /\ \A c \in Conns : InBacklog(c) => ~InFile(c)
    /\ \A j, k \in DOMAIN backlog : backlog[j] = backlog[k] => j = k

(* The descriptor in hand is open while it is being answered, and not in the *)
(* table while it is being refused.                                          *)
InHand ==
    /\ pc \in {"hello", "join", "refuse", "close"} => cfd \in Fds /\ file[cfd] \in Conns
    /\ pc \in {"refuse", "close"} => \A s \in Slots : slots[s] # cfd
    /\ pc = "relay" => slot \in Slots

Inv == TypeOK /\ SlotTable /\ OnePlace /\ InHand

LEMMA InitInv == Init => Inv
<1> SUFFICES ASSUME Init PROVE Inv
    OBVIOUS
<1> USE ChatAssumption
<1>1. TypeOK
    BY DEF Init, TypeOK, Fds, Slots, States, PCs, ListenFd
<1>2. SlotTable
    BY DEF Init, SlotTable, Connected
<1>3. OnePlace
    BY DEF Init, OnePlace, InFile, InBacklog
<1>4. InHand
    BY DEF Init, InHand
<1> QED
    BY <1>1, <1>2, <1>3, <1>4 DEF Inv

(* What the parts of the invariant depend on. *)
LEMMA SameTable == SlotTable /\ UNCHANGED <<slots, file>> => SlotTable'
    BY DEF SlotTable, Connected

LEMMA SamePlaces ==
    ASSUME OnePlace, UNCHANGED <<file, backlog>>,
           \A c \in Conns : tcp'[c] = "idle" => tcp[c] = "idle"
    PROVE  OnePlace'
    BY DEF OnePlace, InFile, InBacklog

LEMMA ConnectedFds == TypeOK => \A s \in Connected : slots[s] \in Fds
    BY DEF TypeOK, Connected

(* Whatever becomes of a send(), the types stay and no session is unborn. *)
LEMMA SendKeeps ==
    ASSUME TypeOK, NEW c \in Conns, NEW next \in PCs, send_message(c, next)
    PROVE  /\ tcp' \in [Conns -> States]
           /\ \A d \in Conns : tcp'[d] = "idle" => tcp[d] = "idle"
           /\ unread' \in [Conns -> 0..SndBuf]
           /\ got' \in [Conns -> Seq(Nat)]
           /\ pc' \in {next, "killed"}
           /\ UNCHANGED <<typed, backlog, file, slots, readset, maxfd, slot, cfd, taken, feed>>
<1> USE ChatAssumption DEF send_message
<1>1. CASE Sent(c) /\ pc' = next
    <2>1. unread' \in [Conns -> 0..SndBuf]
        BY <1>1 DEF Sent, TypeOK
    <2>2. Len(feed) \in Nat
        BY DEF TypeOK
    <2>3. got' \in [Conns -> Seq(Nat)]
        BY <1>1, <2>2 DEF Sent, TypeOK
    <2> QED
        BY <1>1, <2>1, <2>3 DEF Sent, TypeOK
<1>2. CASE LostOrFailed(c) /\ pc' = next
    BY <1>2 DEF LostOrFailed, TypeOK, States
<1>3. CASE tcp[c] = "dead" /\ pc' = "killed" /\ UNCHANGED <<tcp, unread, got>>
    BY <1>3 DEF TypeOK
<1> QED
    BY <1>1, <1>2, <1>3

LEMMA FeedGrows ==
    ASSUME TypeOK, NEW what \in {"hello", "join", "say", "leave", "refuse"},
           NEW c \in Conns, NEW n \in 0..MaxTyped, NEW r \in Residues, NEW to \in SUBSET Conns,
           Post(what, c, n, r, to)
    PROVE  feed' \in Seq(FeedEvents)
<1>1. [what |-> what, from |-> c, text |-> n, tail |-> r, to |-> to] \in FeedEvents
    BY DEF FeedEvents
<1> QED
    BY <1>1 DEF Post, TypeOK

LEMMA RoomIsConns == TypeOK /\ SlotTable => Room \subseteq Conns
    BY DEF Room, Conn, SlotTable, TypeOK

(* The peers. *)
LEMMA PeerInv ==
    ASSUME Inv, NEW c \in Conns, Peer(c)
    PROVE  Inv'
<1> USE ChatAssumption
<1>0. TypeOK /\ SlotTable /\ OnePlace /\ InHand
    BY DEF Inv
<1>1. CASE Connect(c)
    <2>1. TypeOK'
        BY <1>0, <1>1 DEF Connect, TypeOK, server, history, States
    <2>2. SlotTable'
        BY <1>0, <1>1, SameTable DEF Connect, server
    <2>3. OnePlace'
        <3>1. /\ backlog \in Seq(Conns)
              /\ backlog' = Append(backlog, c)
              /\ Len(backlog') = Len(backlog) + 1
              /\ backlog'[Len(backlog) + 1] = c
              /\ \A k \in 1..Len(backlog) : backlog'[k] = backlog[k]
            BY <1>0, <1>1 DEF Connect, TypeOK
        <3>2. ~InBacklog(c) /\ ~InFile(c)
            BY <1>0, <1>1 DEF Connect, OnePlace
        <3>3. /\ Len(backlog) \in Nat
              /\ DOMAIN backlog = 1..Len(backlog)
              /\ DOMAIN backlog' = 1..(Len(backlog) + 1)
            BY <3>1
        <3>4. \A j, k \in DOMAIN backlog' : backlog'[j] = backlog'[k] => j = k
            BY <1>0, <3>1, <3>2, <3>3 DEF OnePlace, InBacklog
        <3>5. \A d \in Conns : InBacklog(d)' => InBacklog(d) \/ d = c
            BY <3>1, <3>3 DEF InBacklog
        <3>6. \A d \in Conns : InFile(d)' = InFile(d)
            BY <1>1 DEF InFile, Connect
        <3>7. \A d \in Conns : tcp'[d] = "idle" => d # c /\ tcp[d] = "idle"
            BY <1>0, <1>1 DEF Connect, TypeOK
        <3> QED
            BY <1>0, <3>2, <3>4, <3>5, <3>6, <3>7 DEF OnePlace
    <2>4. InHand'
        BY <1>0, <1>1 DEF Connect, InHand, server
    <2> QED
        BY <2>1, <2>2, <2>3, <2>4 DEF Inv
<1>2. CASE Type(c) \/ Read(c) \/ HangUp(c) \/ RstArrives(c)
    <2>1. TypeOK'
        <3>1. CASE Type(c)
            <4>1. typed' \in [Conns -> 0..MaxTyped]
                BY <1>0, <3>1 DEF Type, TypeOK
            <4>2. UNCHANGED <<tcp, unread, backlog, file, server, history>>
                BY <3>1 DEF Type
            <4> QED
                BY <1>0, <4>1, <4>2 DEF TypeOK, server, history
        <3>2. CASE Read(c)
            BY <1>0, <3>2 DEF Read, TypeOK, server, history
        <3>3. CASE HangUp(c)
            BY <1>0, <3>3 DEF HangUp, TypeOK, server, history, States
        <3>4. CASE RstArrives(c)
            BY <1>0, <3>4 DEF RstArrives, TypeOK, server, history, States
        <3> QED
            BY <1>2, <3>1, <3>2, <3>3, <3>4
    <2>2. SlotTable'
        BY <1>0, <1>2, SameTable DEF Type, Read, HangUp, RstArrives, server
    <2>3. OnePlace'
        <3>1. \A d \in Conns : tcp'[d] = "idle" => tcp[d] = "idle"
            BY <1>0, <1>2 DEF Type, Read, HangUp, RstArrives, TypeOK
        <3> QED
            BY <1>0, <1>2, <3>1, SamePlaces DEF Type, Read, HangUp, RstArrives
    <2>4. InHand'
        BY <1>0, <1>2 DEF Type, Read, HangUp, RstArrives, InHand, server
    <2> QED
        BY <2>1, <2>2, <2>3, <2>4 DEF Inv
<1> QED
    BY <1>1, <1>2 DEF Peer

(* The server, action by action. *)
LEMMA UpdateReadsetInv == Inv /\ UpdateReadset => Inv'
<1> SUFFICES ASSUME Inv, UpdateReadset PROVE Inv'
    OBVIOUS
<1>0. TypeOK /\ SlotTable /\ OnePlace /\ InHand
    BY DEF Inv
<1>1. TypeOK'
    <2>1. readset' \in SUBSET (Fds \cup {ListenFd})
        <3>1. \A s \in Connected : slots[s] \in Fds
            BY <1>0, ConnectedFds
        <3> QED
            BY <3>1 DEF UpdateReadset
    <2>2. maxfd' \in Fds \cup {ListenFd}
        BY <2>1 DEF UpdateReadset
    <2> QED
        BY <1>0, <2>1, <2>2 DEF UpdateReadset, TypeOK, kernel, history, PCs
<1>2. SlotTable' /\ OnePlace'
    BY <1>0, SameTable, SamePlaces DEF UpdateReadset, kernel
<1>3. InHand'
    BY <1>0 DEF UpdateReadset, InHand
<1> QED
    BY <1>1, <1>2, <1>3 DEF Inv

LEMMA SelectInv == Inv /\ Select => Inv'
<1> SUFFICES ASSUME Inv, Select PROVE Inv'
    OBVIOUS
<1>0. TypeOK /\ SlotTable /\ OnePlace /\ InHand
    BY DEF Inv
<1>1. TypeOK'
    BY <1>0, ChatAssumption DEF Select, TypeOK, kernel, history, PCs
<1>2. SlotTable' /\ OnePlace'
    BY <1>0, SameTable, SamePlaces DEF Select, kernel
<1>3. InHand'
    BY <1>0 DEF Select, InHand
<1> QED
    BY <1>1, <1>2, <1>3 DEF Inv

(* What accept() does to the backlog and the descriptors. *)
LEMMA AcceptInv ==
    ASSUME Inv, NEW fd \in Fds, NEW c \in Conns, TakeDescriptor(fd, c)
    PROVE  /\ backlog' \in Seq(Conns)
           /\ file' \in [Fds -> Conns \cup {NoConn}]
           /\ file[fd] = NoConn /\ file'[fd] = c /\ \A g \in Fds \ {fd} : file'[g] = file[g]
           /\ \A f, g \in Fds : file'[f] = file'[g] /\ file'[f] \in Conns => f = g
           /\ \A s \in Slots : slots[s] # fd
           /\ OnePlace'
<1>0. TypeOK /\ SlotTable /\ OnePlace /\ InHand
    BY DEF Inv
<1>1. /\ backlog \in Seq(Conns) /\ backlog # <<>>
      /\ c = Head(backlog) /\ backlog' = Tail(backlog)
    BY <1>0 DEF TakeDescriptor, TypeOK
<1>2. /\ backlog' \in Seq(Conns)
      /\ Len(backlog) \in Nat \ {0}
      /\ DOMAIN backlog = 1..Len(backlog)
      /\ DOMAIN backlog' = 1..(Len(backlog) - 1)
      /\ \A k \in DOMAIN backlog' : backlog'[k] = backlog[k + 1]
      /\ c = backlog[1]
    BY <1>1
<1>3. file' \in [Fds -> Conns \cup {NoConn}]
    BY <1>0 DEF TakeDescriptor, TypeOK
<1>4. file[fd] = NoConn /\ file'[fd] = c /\ \A g \in Fds \ {fd} : file'[g] = file[g]
    BY <1>0 DEF TakeDescriptor, TypeOK, First
<1>5. InBacklog(c)
    BY <1>2 DEF InBacklog
<1>6. ~InFile(c)
    BY <1>0, <1>5 DEF OnePlace
<1>7. \A f, g \in Fds : file'[f] = file'[g] /\ file'[f] \in Conns => f = g
    BY <1>0, <1>4, <1>6 DEF SlotTable, InFile
<1>8. \A s \in Slots : slots[s] # fd
    <2> SUFFICES ASSUME NEW s \in Slots, slots[s] = fd PROVE FALSE
        OBVIOUS
    <2>1. fd > 0
        BY DEF Fds
    <2>2. s \in Connected
        BY <2>1 DEF Connected
    <2> QED
        BY <1>0, <1>4, <2>2, ChatAssumption DEF SlotTable
<1>9. OnePlace'
    <2>1. \A d \in Conns : InBacklog(d)' => InBacklog(d) /\ d # c
        BY <1>0, <1>2 DEF OnePlace, InBacklog
    <2>2. \A d \in Conns : InFile(d)' => InFile(d) \/ d = c
        BY <1>4 DEF InFile
    <2>3. tcp[c] # "idle" /\ tcp' = tcp
        BY <1>0, <1>5 DEF OnePlace, TakeDescriptor
    <2>4. \A j, k \in DOMAIN backlog' : backlog'[j] = backlog'[k] => j = k
        BY <1>0, <1>2 DEF OnePlace
    <2> QED
        BY <1>0, <2>1, <2>2, <2>3, <2>4 DEF OnePlace
<1> QED
    BY <1>2, <1>3, <1>4, <1>7, <1>8, <1>9

LEMMA AdmitInv == Inv /\ Admit => Inv'
<1> SUFFICES ASSUME Inv, Admit PROVE Inv'
    OBVIOUS
<1> USE ChatAssumption
<1>0. TypeOK /\ SlotTable /\ OnePlace /\ InHand
    BY DEF Inv
<1>1. PICK fd \in Fds, c \in Conns, s \in Slots :
          /\ TakeDescriptor(fd, c)
          /\ First(s, Slots \ Connected)
          /\ slots' = [slots EXCEPT ![s] = fd]
          /\ Post("hello", c, 0, Clean, {c})
    BY DEF Admit
<1>2. /\ cfd' = fd
      /\ slots' \in [Slots -> Fds \cup {0}]
      /\ slots'[s] = fd
      /\ \A t \in Slots \ {s} : slots'[t] = slots[t]
    BY <1>0, <1>1 DEF TakeDescriptor, TypeOK
<1>3. TypeOK'
    <2>1. feed' \in Seq(FeedEvents)
        BY <1>0, <1>1, FeedGrows
    <2> QED
        BY <1>0, <1>1, <1>2, <2>1, AcceptInv DEF Admit, TakeDescriptor, TypeOK, PCs
<1>4. SlotTable'
    <2>1. \A t \in Connected' : t # s => t \in Connected /\ slots[t] # fd
        BY <1>1, <1>2, AcceptInv DEF Connected
    <2>2. \A t \in Connected' : file'[slots'[t]] \in Conns
        <3> TAKE t \in Connected'
        <3>1. CASE t = s
            BY <1>1, <1>2, <3>1, AcceptInv
        <3>2. CASE t # s
            <4>1. /\ t \in Connected /\ slots[t] # fd
                  /\ slots'[t] = slots[t] /\ slots[t] \in Fds
                BY <1>0, <1>2, <2>1, <3>2 DEF Connected, TypeOK, Fds
            <4> QED
                BY <1>0, <1>1, <4>1, AcceptInv DEF SlotTable
        <3> QED
            BY <3>1, <3>2
    <2>3. \A t, u \in Connected' : slots'[t] = slots'[u] => t = u
        BY <1>0, <1>2, <2>1 DEF SlotTable, Connected
    <2> QED
        BY <1>1, <2>2, <2>3, AcceptInv DEF SlotTable
<1>5. OnePlace'
    BY <1>1, AcceptInv
<1>6. InHand'
    BY <1>1, <1>2, AcceptInv DEF Admit, InHand
<1> QED
    BY <1>3, <1>4, <1>5, <1>6 DEF Inv

LEMMA RefuseInv == Inv /\ Refuse => Inv'
<1> SUFFICES ASSUME Inv, Refuse PROVE Inv'
    OBVIOUS
<1> USE ChatAssumption
<1>0. TypeOK /\ SlotTable /\ OnePlace /\ InHand
    BY DEF Inv
<1>1. PICK fd \in Fds, c \in Conns : TakeDescriptor(fd, c) /\ Post("refuse", c, 0, Clean, {c})
    BY DEF Refuse
<1>2. TypeOK'
    <2>1. feed' \in Seq(FeedEvents)
        BY <1>0, <1>1, FeedGrows
    <2> QED
        BY <1>0, <1>1, <2>1, AcceptInv DEF Refuse, TakeDescriptor, TypeOK, PCs
<1>3. SlotTable'
    <2>1. \A t \in Connected : slots[t] \in Fds \ {fd}
        BY <1>0, <1>1, AcceptInv, ConnectedFds DEF Connected
    <2>2. \A t \in Connected : file'[slots[t]] \in Conns
        BY <1>0, <1>1, <2>1, AcceptInv DEF SlotTable
    <2> QED
        BY <1>0, <1>1, <2>2, AcceptInv DEF SlotTable, Refuse, Connected
<1>4. OnePlace'
    BY <1>1, AcceptInv
<1>5. InHand'
    BY <1>1, AcceptInv DEF Refuse, InHand, TakeDescriptor
<1> QED
    BY <1>2, <1>3, <1>4, <1>5 DEF Inv

LEMMA SelectOrAcceptFailsInv == Inv /\ SelectOrAcceptFails => Inv'
<1> SUFFICES ASSUME Inv, SelectOrAcceptFails PROVE Inv'
    OBVIOUS
<1>0. TypeOK /\ SlotTable /\ OnePlace /\ InHand
    BY DEF Inv
<1>1. TypeOK'
    BY <1>0 DEF SelectOrAcceptFails, TypeOK, kernel, history, PCs
<1>2. SlotTable' /\ OnePlace'
    BY <1>0, SameTable, SamePlaces DEF SelectOrAcceptFails, kernel
<1>3. InHand'
    BY <1>0 DEF SelectOrAcceptFails, InHand
<1> QED
    BY <1>1, <1>2, <1>3 DEF Inv

(* One send() to c, after which the server is at next. *)
LEMMA SendInv ==
    ASSUME Inv, NEW c \in Conns, NEW next \in PCs, send_message(c, next),
           dest' \in 1..(MaxClients + 1),
           next \in {"join", "close", "announce", "relay"},
           next \in {"join", "close"} => cfd \in Fds /\ file[cfd] \in Conns,
           next = "close" => \A s \in Slots : slots[s] # cfd,
           next = "relay" => slot \in Slots
    PROVE  Inv'
<1>0. TypeOK /\ SlotTable /\ OnePlace /\ InHand
    BY DEF Inv
<1>1. TypeOK'
    BY <1>0, SendKeeps DEF TypeOK, PCs
<1>2. SlotTable' /\ OnePlace'
    BY <1>0, SendKeeps, SameTable, SamePlaces
<1>3. InHand'
    BY <1>0, SendKeeps DEF InHand
<1> QED
    BY <1>1, <1>2, <1>3 DEF Inv

LEMMA SendHelloInv == Inv /\ (SendHello \/ SendRefusal) => Inv'
<1> SUFFICES ASSUME Inv, SendHello \/ SendRefusal PROVE Inv'
    OBVIOUS
<1>1. dest \in 1..(MaxClients + 1)
    BY DEF Inv, TypeOK
<1>2. CASE SendHello
    BY <1>1, <1>2, SendInv DEF SendHello, Inv, InHand, PCs
<1>3. CASE SendRefusal
    BY <1>1, <1>3, SendInv DEF SendRefusal, Inv, InHand, PCs
<1> QED
    BY <1>2, <1>3

LEMMA SendToOtherInv == Inv /\ SendToOther => Inv'
<1> SUFFICES ASSUME Inv, SendToOther PROVE Inv'
    OBVIOUS
<1>0. TypeOK /\ SlotTable /\ InHand
    BY DEF Inv
<1>1. PICK s \in Slots : First(s, Others) /\ send_message(Conn(s), pc) /\ dest' = s + 1
    BY DEF SendToOther
<1>2. Conn(s) \in Conns
    BY <1>0, <1>1 DEF First, Others, Conn, SlotTable
<1>3. dest' \in 1..(MaxClients + 1)
    BY <1>1, ChatAssumption DEF Slots
<1> QED
    BY <1>0, <1>1, <1>2, <1>3, SendInv DEF SendToOther, InHand, PCs

LEMMA CloseRefusedInv == Inv /\ CloseRefused => Inv'
<1> SUFFICES ASSUME Inv, CloseRefused PROVE Inv'
    OBVIOUS
<1> USE ChatAssumption
<1>0. TypeOK /\ SlotTable /\ OnePlace /\ InHand
    BY DEF Inv
<1>1. cfd \in Fds /\ file[cfd] \in Conns /\ \A s \in Slots : slots[s] # cfd
    BY <1>0 DEF CloseRefused, InHand
<1>2. TypeOK'
    BY <1>0, <1>1 DEF CloseRefused, TypeOK, history, States, PCs
<1>3. file'[cfd] = NoConn /\ \A f \in Fds \ {cfd} : file'[f] = file[f]
    BY <1>0, <1>1 DEF CloseRefused, TypeOK
<1>4. SlotTable'
    <2>1. Connected' = Connected /\ slots' = slots
        BY DEF CloseRefused, Connected
    <2>2. \A s \in Connected : slots[s] \in Fds \ {cfd}
        BY <1>0, <1>1, ConnectedFds DEF Connected
    <2>3. \A s \in Connected : file'[slots[s]] \in Conns
        BY <1>0, <1>3, <2>2 DEF SlotTable
    <2>4. \A f, g \in Fds : file'[f] = file'[g] /\ file'[f] \in Conns => f = g
        BY <1>0, <1>3 DEF SlotTable
    <2> QED
        BY <1>0, <2>1, <2>3, <2>4 DEF SlotTable
<1>5. OnePlace'
    <2>1. \A d \in Conns : InFile(d)' => InFile(d)
        BY <1>3 DEF InFile
    <2>2. \A d \in Conns : tcp'[d] = "idle" => tcp[d] = "idle"
        BY <1>0 DEF CloseRefused, TypeOK
    <2> QED
        BY <1>0, <2>1, <2>2 DEF OnePlace, InBacklog, CloseRefused
<1>6. InHand'
    BY DEF CloseRefused, InHand
<1> QED
    BY <1>2, <1>4, <1>5, <1>6 DEF Inv

LEMMA JoinInv == Inv /\ Join => Inv'
<1> SUFFICES ASSUME Inv, Join PROVE Inv'
    OBVIOUS
<1>0. TypeOK /\ SlotTable /\ OnePlace /\ InHand
    BY DEF Inv
<1>1. file[cfd] \in Conns
    BY <1>0 DEF Join, InHand
<1>2. feed' \in Seq(FeedEvents)
    BY <1>0, <1>1, FeedGrows, RoomIsConns, ChatAssumption DEF Join
<1>3. TypeOK'
    BY <1>0, <1>2, ChatAssumption DEF Join, TypeOK, kernel, PCs
<1>4. SlotTable' /\ OnePlace'
    BY <1>0, SameTable, SamePlaces DEF Join, kernel
<1>5. InHand'
    BY <1>0 DEF Join, InHand
<1> QED
    BY <1>3, <1>4, <1>5 DEF Inv

LEMMA SentToAllInv == Inv /\ SentToAll => Inv'
<1> SUFFICES ASSUME Inv, SentToAll PROVE Inv'
    OBVIOUS
<1>0. TypeOK /\ SlotTable /\ OnePlace /\ InHand
    BY DEF Inv
<1>1. slot' \in 1..(MaxClients + 1) /\ pc' \in {"update", "scan"}
    BY <1>0, ChatAssumption DEF SentToAll, InHand, TypeOK, Slots
<1>2. TypeOK'
    BY <1>0, <1>1, ChatAssumption DEF SentToAll, TypeOK, kernel, history, PCs
<1>3. SlotTable' /\ OnePlace'
    BY <1>0, SameTable, SamePlaces DEF SentToAll, kernel
<1>4. InHand'
    BY <1>0, <1>1 DEF InHand
<1> QED
    BY <1>2, <1>3, <1>4 DEF Inv

LEMMA RecvTextInv == Inv /\ RecvText => Inv'
<1> SUFFICES ASSUME Inv, RecvText PROVE Inv'
    OBVIOUS
<1> USE ChatAssumption
<1>0. TypeOK /\ SlotTable /\ OnePlace /\ InHand
    BY DEF Inv
<1>1. PICK s \in Slots :
        /\ Serve(s)
        /\ Lines(Conn(s)) > 0
        /\ LET n == IF Lines(Conn(s)) < RecvMax THEN Lines(Conn(s)) ELSE RecvMax
           IN  /\ taken' = [taken EXCEPT ![Conn(s)] = @ + n]
               /\ \E r \in Residues :
                     Post("say", Conn(s), taken[Conn(s)] + n, r, Room \ {Conn(s)})
        /\ slot' = s
        /\ cfd' = slots[s]
        /\ dest' = 1
        /\ pc' = "relay"
        /\ UNCHANGED <<kernel, slots, readset, maxfd, got>>
    BY DEF RecvText
<1>2. Conn(s) \in Conns /\ slots[s] \in Fds
    BY <1>0, <1>1, ConnectedFds DEF Serve, First, ReadySlots, Conn, SlotTable
<1> DEFINE n == IF Lines(Conn(s)) < RecvMax THEN Lines(Conn(s)) ELSE RecvMax
<1>3. taken[Conn(s)] + n \in 0..MaxTyped
    BY <1>0, <1>1, <1>2 DEF Lines, TypeOK
<1>4. taken' \in [Conns -> 0..MaxTyped]
    BY <1>0, <1>1, <1>2, <1>3 DEF TypeOK
<1>5. feed' \in Seq(FeedEvents)
    <2>1. PICK r \in Residues : Post("say", Conn(s), taken[Conn(s)] + n, r, Room \ {Conn(s)})
        BY <1>1
    <2>2. Room \ {Conn(s)} \in SUBSET Conns
        BY <1>0, RoomIsConns
    <2> HIDE DEF n
    <2> QED
        BY <1>0, <1>2, <1>3, <2>1, <2>2, FeedGrows
<1>6. TypeOK'
    BY <1>0, <1>1, <1>2, <1>4, <1>5 DEF TypeOK, kernel, PCs, Slots
<1>7. SlotTable' /\ OnePlace'
    BY <1>0, <1>1, SameTable, SamePlaces DEF kernel
<1>8. InHand'
    BY <1>1 DEF InHand
<1> QED
    BY <1>6, <1>7, <1>8 DEF Inv

LEMMA RecvEofInv == Inv /\ RecvEof => Inv'
<1> SUFFICES ASSUME Inv, RecvEof PROVE Inv'
    OBVIOUS
<1> USE ChatAssumption
<1>0. TypeOK /\ SlotTable /\ OnePlace /\ InHand
    BY DEF Inv
<1>1. PICK s \in Slots :
        /\ Serve(s)
        /\ slots' = [slots EXCEPT ![s] = 0]
        /\ Post("leave", Conn(s), 0, Clean, Room \ {Conn(s)})
        /\ slot' = s
        /\ cfd' = slots[s]
        /\ dest' = 1
        /\ pc' = "relay"
        /\ UNCHANGED <<kernel, readset, maxfd, taken, got>>
    BY DEF RecvEof
<1>2. Conn(s) \in Conns /\ slots[s] \in Fds
    BY <1>0, <1>1, ConnectedFds DEF Serve, First, ReadySlots, Conn, SlotTable
<1>3. feed' \in Seq(FeedEvents)
    BY <1>0, <1>1, <1>2, FeedGrows, RoomIsConns
<1>4. slots' \in [Slots -> Fds \cup {0}]
    BY <1>0, <1>1 DEF TypeOK
<1>5. TypeOK'
    BY <1>0, <1>1, <1>2, <1>3, <1>4 DEF TypeOK, kernel, PCs, Slots
<1>6. SlotTable'
    <2>1. \A t \in Connected' : t \in Connected /\ slots'[t] = slots[t]
        BY <1>0, <1>1 DEF Connected, TypeOK
    <2> QED
        BY <1>0, <1>1, <2>1 DEF SlotTable, kernel
<1>7. OnePlace'
    BY <1>0, <1>1, SamePlaces DEF kernel
<1>8. InHand'
    BY <1>1 DEF InHand
<1> QED
    BY <1>5, <1>6, <1>7, <1>8 DEF Inv

LEMMA RecvErrorInv == Inv /\ RecvError => Inv'
<1> SUFFICES ASSUME Inv, RecvError PROVE Inv'
    OBVIOUS
<1> USE ChatAssumption
<1>0. TypeOK /\ SlotTable /\ OnePlace /\ InHand
    BY DEF Inv
<1>1. PICK s \in Slots :
        /\ Serve(s)
        /\ tcp' = [tcp EXCEPT ![Conn(s)] = "dead"]
        /\ slot' = s + 1
        /\ UNCHANGED <<typed, unread, backlog, file, slots, readset, maxfd, pc,
                       dest, cfd, taken, history>>
    BY DEF RecvError
<1>2. slot' \in 1..(MaxClients + 1)
    BY <1>1 DEF Slots
<1>3. tcp' \in [Conns -> States] /\ \A c \in Conns : tcp'[c] = "idle" => tcp[c] = "idle"
    BY <1>0, <1>1 DEF TypeOK, States
<1>4. TypeOK'
    BY <1>0, <1>1, <1>2, <1>3 DEF TypeOK, history
<1>5. SlotTable' /\ OnePlace'
    BY <1>0, <1>1, <1>3, SameTable, SamePlaces
<1>6. InHand'
    BY <1>0, <1>1 DEF InHand, Serve
<1> QED
    BY <1>4, <1>5, <1>6 DEF Inv

LEMMA ScanDoneInv == Inv /\ ScanDone => Inv'
<1> SUFFICES ASSUME Inv, ScanDone PROVE Inv'
    OBVIOUS
<1>0. TypeOK /\ SlotTable /\ OnePlace /\ InHand
    BY DEF Inv
<1>1. TypeOK'
    BY <1>0 DEF ScanDone, TypeOK, kernel, history, PCs
<1>2. SlotTable' /\ OnePlace'
    BY <1>0, SameTable, SamePlaces DEF ScanDone, kernel
<1>3. InHand'
    BY <1>0 DEF ScanDone, InHand
<1> QED
    BY <1>1, <1>2, <1>3 DEF Inv
-------------------------------------------------------------------------------
LEMMA NextInv == Inv /\ [Next]_vars => Inv'
<1> SUFFICES ASSUME Inv, [Next]_vars PROVE Inv'
    OBVIOUS
<1>1. CASE Server
    BY <1>1, UpdateReadsetInv, SelectInv, AdmitInv, RefuseInv, SelectOrAcceptFailsInv,
       SendHelloInv, CloseRefusedInv, JoinInv, SendToOtherInv, SentToAllInv,
       RecvTextInv, RecvEofInv, RecvErrorInv, ScanDoneInv
       DEF Server
<1>2. CASE \E c \in Conns : Peer(c)
    BY <1>2, PeerInv
<1>3. CASE UNCHANGED vars
    BY <1>3 DEF vars, kernel, server, history, Inv, TypeOK, SlotTable, Connected,
       OnePlace, InFile, InBacklog, InHand
<1> QED
    BY <1>1, <1>2, <1>3 DEF Next

(* The invariant holds in every behaviour of the server, for any number of   *)
(* connections, table entries, descriptors, lines and buffered messages.     *)
THEOREM Invariance == Spec => []Inv
<1>1. Init => Inv
    BY InitInv
<1>2. Inv /\ [Next]_vars => Inv'
    BY NextInv
<1> QED
    BY <1>1, <1>2, PTL DEF Spec

(* Types: in particular the two loop indices never run beyond the table, and *)
(* the descriptor in hand is one of the process's (server4.c 43-47).         *)
THEOREM TypeCorrect == Spec => []TypeOK
<1>1. Inv => TypeOK
    BY DEF Inv
<1> QED
    BY <1>1, Invariance, PTL

(* The table of clients holds each open descriptor at most once, and none    *)
(* that is closed (server4.c 89-113, 134-143).                               *)
THEOREM TableCorrect == Spec => []SlotTable
<1>1. Inv => SlotTable
    BY DEF Inv
<1> QED
    BY <1>1, Invariance, PTL
-------------------------------------------------------------------------------
(* What select() reported and the loop has not reached yet.  While an event of *)
(* the entry slot is relayed the loop is behind that entry.                    *)
Ready(s) == file[slots[s]] \in Conns /\ (Lines(file[slots[s]]) > 0 \/ Gone(file[slots[s]]))

Reported ==
    /\ pc = "accept" => backlog # <<>>
    /\ pc = "scan" => \A s \in Connected : s >= slot /\ slots[s] \in readset => Ready(s)
    /\ pc = "relay" => \A s \in Connected : s > slot /\ slots[s] \in readset => Ready(s)

LEMMA ReportedNotBlocking == TypeOK /\ Reported => NoBlockingReceive
<1> SUFFICES ASSUME TypeOK, Reported PROVE NoBlockingReceive
    OBVIOUS
<1>1. \A s \in Connected : slots[s] # ListenFd
    BY ConnectedFds DEF Fds, ListenFd
<1> QED
    BY <1>1 DEF Reported, NoBlockingReceive, Readable, ReadySlots, Ready

(* Nothing that was reported is taken back by the kernel or by a send(). *)
LEMMA StaysReady ==
    ASSUME TypeOK, SlotTable, UNCHANGED <<slots, file, taken>>,
           \A c \in Conns : typed'[c] \in Nat /\ typed'[c] >= typed[c],
           \A c \in Conns : tcp[c] \notin {"idle", "up"} => tcp'[c] \notin {"idle", "up"},
           NEW s \in Connected, Ready(s)
    PROVE  Ready(s)'
<1> DEFINE c == file[slots[s]]
<1>1. c \in Conns /\ c' = c
    BY DEF SlotTable
<1>2. typed[c] \in Nat /\ taken[c] \in Nat /\ typed'[c] \in Nat /\ typed'[c] >= typed[c]
    BY <1>1, ChatAssumption DEF TypeOK
<1>3. typed[c] - taken[c] > 0 => typed'[c] - taken'[c] > 0
    BY <1>2
<1> QED
    BY <1>1, <1>3 DEF Ready, Lines, Gone

LEMMA PeerReported == ASSUME Inv, Reported, NEW c \in Conns, Peer(c) PROVE Reported'
<1>0. TypeOK /\ SlotTable
    BY DEF Inv
<1>1. UNCHANGED <<slots, file, taken, pc, slot, readset>>
    BY DEF Peer, Connect, Type, Read, HangUp, RstArrives, server
<1>2. \A d \in Conns : typed'[d] \in Nat /\ typed'[d] >= typed[d]
    <2>1. \A d \in Conns : typed[d] \in Nat
        BY <1>0, ChatAssumption DEF TypeOK
    <2>2. CASE Type(c)
        BY <1>0, <2>1, <2>2 DEF Type, TypeOK
    <2>3. CASE ~Type(c)
        BY <2>1, <2>3 DEF Peer, Connect, Read, HangUp, RstArrives
    <2> QED
        BY <2>2, <2>3
<1>3. \A d \in Conns : tcp[d] \notin {"idle", "up"} => tcp'[d] \notin {"idle", "up"}
    BY <1>0 DEF Peer, Connect, Type, Read, HangUp, RstArrives, TypeOK
<1>4. backlog # <<>> => backlog' # <<>>
    BY <1>0 DEF Peer, Connect, Type, Read, HangUp, RstArrives, TypeOK
<1>5. Connected' = Connected
    BY <1>1 DEF Connected
<1>6. \A s \in Connected : Ready(s) => Ready(s)'
    BY <1>0, <1>1, <1>2, <1>3, StaysReady
<1> QED
    BY <1>1, <1>4, <1>5, <1>6 DEF Reported

LEMMA ServerReported == ASSUME Inv, Reported, Server PROVE Reported'
<1> USE ChatAssumption
<1>0. TypeOK /\ SlotTable
    BY DEF Inv
<1>1. CASE UpdateReadset \/ Admit \/ Refuse \/ SelectOrAcceptFails \/ SendHello \/ SendRefusal
           \/ CloseRefused \/ Join \/ ScanDone
    <2>1. pc' \notin {"accept", "scan", "relay"}
        BY <1>1 DEF UpdateReadset, Admit, Refuse, SelectOrAcceptFails, SendHello, SendRefusal,
           CloseRefused, Join, ScanDone, send_message
    <2> QED
        BY <2>1 DEF Reported
<1>2. CASE Select
    <2>1. \A s \in Connected : slots[s] # ListenFd
        BY <1>0, ConnectedFds DEF Fds, ListenFd
    <2>2. pc' \in {"accept", "scan"} /\ (pc' = "accept" => backlog' # <<>>)
        BY <1>2 DEF Select, Readable, kernel
    <2>3. \A s \in Connected : slots[s] \in readset' => Ready(s)
        BY <1>2, <2>1 DEF Select, Readable, Ready
    <2>4. Connected' = Connected /\ UNCHANGED <<slots, kernel, taken>>
        BY <1>2 DEF Select, Connected
    <2>5. \A s \in Connected : Ready(s)' = Ready(s)
        BY <2>4 DEF Ready, Lines, Gone, kernel
    <2> QED
        BY <2>2, <2>3, <2>4, <2>5 DEF Reported
<1>3. CASE SendToOther
    <2>1. PICK t \in Slots : First(t, Others) /\ send_message(Conn(t), pc)
        BY <1>3 DEF SendToOther
    <2>2. Conn(t) \in Conns
        BY <1>0, <2>1 DEF First, Others, Conn, SlotTable
    <2>3. UNCHANGED <<slots, file, taken, typed, slot, readset>> /\ pc' \in {pc, "killed"}
        BY <2>1 DEF send_message
    <2>4. \A d \in Conns : tcp[d] \notin {"idle", "up"} => tcp'[d] \notin {"idle", "up"}
        BY <1>0, <2>1, <2>2 DEF send_message, Sent, LostOrFailed, TypeOK
    <2>5. \A d \in Conns : typed'[d] \in Nat /\ typed'[d] >= typed[d]
        BY <1>0, <2>3 DEF TypeOK
    <2>6. \A s \in Connected : Ready(s) => Ready(s)'
        BY <1>0, <2>3, <2>4, <2>5, StaysReady
    <2>7. Connected' = Connected
        BY <2>3 DEF Connected
    <2>8. pc \in {"announce", "relay"}
        BY <1>3 DEF SendToOther
    <2> QED
        BY <2>3, <2>6, <2>7, <2>8 DEF Reported
<1>4. CASE SentToAll
    <2>1. UNCHANGED <<kernel, slots, readset, taken>>
        BY <1>4 DEF SentToAll
    <2>2. Connected' = Connected /\ \A s \in Connected : Ready(s)' = Ready(s)
        BY <2>1 DEF Connected, Ready, Lines, Gone, kernel
    <2>3. \A s \in Connected : s >= slot + 1 => s > slot
        BY <1>0 DEF TypeOK, Connected, Slots
    <2> QED
        BY <1>4, <2>1, <2>2, <2>3 DEF SentToAll, Reported
<1>5. CASE RecvText \/ RecvEof
    <2>1. PICK t \in Slots : /\ Serve(t) /\ slot' = t /\ pc' = "relay"
                             /\ UNCHANGED <<kernel, readset>>
                             /\ \A s \in Slots \ {t} : slots'[s] = slots[s]
                             /\ \A c \in Conns \ {Conn(t)} : taken'[c] = taken[c]
        <3>1. CASE RecvText
            BY <1>0, <3>1 DEF RecvText, TypeOK
        <3>2. CASE RecvEof
            BY <1>0, <3>2 DEF RecvEof, TypeOK
        <3> QED
            BY <1>5, <3>1, <3>2
    <2>2. t \in Connected /\ pc = "scan" /\ slot <= t
        BY <1>0, <2>1 DEF Serve, First, ReadySlots, TypeOK, Slots
    <2>3. \A s \in Connected' : s > t => s \in Connected /\ s # t /\ s >= slot
        BY <1>0, <2>1, <2>2 DEF Connected, Slots, TypeOK
    <2>4. \A s \in Connected : s # t => file[slots[s]] \in Conns \ {Conn(t)}
        BY <1>0, <2>2, ConnectedFds DEF SlotTable, Conn
    <2>5. \A s \in Connected : s # t /\ Ready(s) => Ready(s)'
        BY <2>1, <2>4 DEF Ready, Lines, Gone, kernel, Connected
    <2> QED
        BY <2>1, <2>2, <2>3, <2>5 DEF Reported, Connected
<1>6. CASE RecvError
    <2>1. PICK t \in Slots : /\ Serve(t) /\ slot' = t + 1
                             /\ tcp' = [tcp EXCEPT ![Conn(t)] = "dead"]
                             /\ UNCHANGED <<typed, backlog, file, slots, readset, pc, taken>>
        BY <1>6 DEF RecvError
    <2>2. pc = "scan" /\ slot <= t
        BY <2>1 DEF Serve, First, ReadySlots
    <2>3. \A d \in Conns : tcp[d] \notin {"idle", "up"} => tcp'[d] \notin {"idle", "up"}
        BY <1>0, <2>1 DEF TypeOK
    <2>4. \A d \in Conns : typed'[d] \in Nat /\ typed'[d] >= typed[d]
        BY <1>0, <2>1 DEF TypeOK
    <2>5. \A s \in Connected : Ready(s) => Ready(s)'
        BY <1>0, <2>1, <2>3, <2>4, StaysReady
    <2>6. Connected' = Connected /\ \A s \in Connected : s >= t + 1 => s >= slot
        BY <1>0, <2>1, <2>2 DEF Connected, TypeOK, Slots
    <2> QED
        BY <2>1, <2>2, <2>5, <2>6 DEF Reported
<1> QED
    BY <1>1, <1>2, <1>3, <1>4, <1>5, <1>6 DEF Server

(* The thread never enters a recv() or an accept() that would block it: what   *)
(* select() reported stays true until the loop reaches it (server4.c 147-152,  *)
(* 214-223).                                                                   *)
THEOREM NeverBlocks == Spec => []NoBlockingReceive
<1>1. Init => Inv /\ Reported
    BY InitInv DEF Init, Reported
<1>2. Inv /\ Reported /\ [Next]_vars => Inv' /\ Reported'
    <2> SUFFICES ASSUME Inv, Reported, [Next]_vars PROVE Inv' /\ Reported'
        OBVIOUS
    <2>1. Inv'
        BY NextInv
    <2>2. CASE Server
        BY <2>1, <2>2, ServerReported
    <2>3. CASE \E c \in Conns : Peer(c)
        BY <2>1, <2>3, PeerReported
    <2>4. CASE UNCHANGED vars
        BY <2>1, <2>4 DEF vars, kernel, server, Reported, Connected, Ready, Lines, Gone
    <2> QED
        BY <2>2, <2>3, <2>4 DEF Next
<1>3. Inv /\ Reported => NoBlockingReceive
    BY ReportedNotBlocking DEF Inv
<1> QED
    BY <1>1, <1>2, <1>3, PTL DEF Spec

-------------------------------------------------------------------------------
(***************************************************************************)
(* The select() loop implements the room, for any number of connections,   *)
(* entries, descriptors and lines.  Besides Inv the steps need to know who *)
(* is still owed the last event at each point of the loop.  With the same  *)
(* invariant the table and the descriptors agree with what was announced.  *)
(***************************************************************************)

(* c is owed the last event of f, having received g. *)
Waits(f, g, c) == f # <<>> /\ c \in f[Len(f)].to /\ \A k \in DOMAIN g : g[k] # Len(f)

Left(state) == state \notin {"idle", "up"}

(* Only what was posted was handed out. *)
Posted == \A c \in Conns : \A k \in DOMAIN got[c] : got[c][k] \in 1..Len(feed)

(* Who was answered does not wait to be accepted, nor begins again. *)
AnsweredOnce ==
    \A k \in 1..Len(feed) : /\ tcp[feed[k].from] # "idle"
                            /\ \A j \in DOMAIN backlog : backlog[j] # feed[k].from

(* The loops send to everybody before they return. *)
AllServed == \A c \in Conns : Waits(feed, got[c], c) => Left(tcp[c])

InTable(fd) == \E s \in Slots : slots[s] = fd /\ slots[s] > 0

Greeting ==
    /\ pc \in {"hello", "join"} => /\ feed # <<>> /\ InTable(cfd)
                                   /\ feed[Len(feed)].what = "hello" /\ feed[Len(feed)].from = file[cfd]
    /\ pc \notin {"hello", "join", "exited", "killed"} => feed = <<>> \/ feed[Len(feed)].what # "hello"

Owing ==
    /\ pc \in {"update", "select", "accept", "scan", "join", "close"} => AllServed
    /\ pc \in {"hello", "refuse"} => /\ Waits(feed, got[file[cfd]], file[cfd])
                                     /\ feed[Len(feed)].to = {file[cfd]}
    /\ pc \in {"announce", "relay"} =>
          /\ \A s \in Others : Waits(feed, got[Conn(s)], Conn(s))
          /\ \A c \in Conns : Waits(feed, got[c], c) => Left(tcp[c]) \/ \E s \in Others : Conn(s) = c

RoomInv == Posted /\ AnsweredOnce /\ Greeting /\ Owing

-----------------------------------------------------------------------------
LEMMA RoomInitInv == Init => RoomInv /\ Abs!RoomInit
<1> SUFFICES ASSUME Init PROVE RoomInv /\ Abs!RoomInit
    OBVIOUS
<1>1. Posted /\ AnsweredOnce /\ Greeting
    BY DEF Init, Posted, AnsweredOnce, Greeting
<1>2. Owing
    BY DEF Init, Owing, AllServed, Waits
<1>3. Room = {}
    BY DEF Init, Room, Connected
<1>4. Abs!RoomInit
    BY <1>3 DEF Init, Abs!RoomInit, Gone
<1> QED
    BY <1>1, <1>2, <1>4 DEF RoomInv

(* What the room sees of a connection, and of the whole, that has not changed. *)
LEMMA SameRoom == UNCHANGED <<slots, file>> => Room' = Room
BY DEF Room, Connected, Conn

LEMMA Unseen ==
    ASSUME Room' = Room, \A c \in Conns : Left(tcp'[c]) <=> Left(tcp[c]),
           UNCHANGED <<taken, feed, got>>
    PROVE  UNCHANGED Abs!roomVars
<1>1. {c \in Conns : Gone(c)}' = {c \in Conns : Gone(c)}
    BY DEF Gone, Left
<1> QED
    BY <1>1 DEF Abs!roomVars

LEMMA FeedFrom == TypeOK => \A k \in 1..Len(feed) : feed[k].from \in Conns
<1> SUFFICES ASSUME TypeOK, NEW k \in 1..Len(feed) PROVE feed[k].from \in Conns
    OBVIOUS
<1>1. feed \in Seq(FeedEvents)
    BY DEF TypeOK
<1>2. feed[k] \in FeedEvents
    BY <1>1
<1> QED
    BY <1>2 DEF FeedEvents

(* Nothing is sent, and nobody comes back or is accepted. *)
LEMMA Kept ==
    ASSUME TypeOK, RoomInv, UNCHANGED history,
           \A c \in Conns : Left(tcp[c]) => Left(tcp'[c]),
           \A c \in Conns : tcp'[c] = "idle" => tcp[c] = "idle",
           \A j \in DOMAIN backlog' : \/ \E k \in DOMAIN backlog : backlog'[j] = backlog[k]
                                      \/ tcp[backlog'[j]] = "idle"
    PROVE  Posted' /\ AnsweredOnce' /\ (AllServed => AllServed')
<1>1. Posted'
    BY DEF RoomInv, Posted, history
<1>2. AnsweredOnce'
    BY FeedFrom DEF RoomInv, AnsweredOnce, history
<1>3. AllServed => AllServed'
    BY DEF AllServed, history
<1> QED
    BY <1>1, <1>2, <1>3

(* A step of the peers, and a step of the server between two events. *)
LEMMA PeerKeeps ==
    ASSUME TypeOK, RoomInv, UNCHANGED <<server, history, file>>,
           \A c \in Conns : Left(tcp[c]) => Left(tcp'[c]),
           Posted' /\ AnsweredOnce' /\ (AllServed => AllServed')
    PROVE  RoomInv'
<1>1. Greeting'
    BY DEF RoomInv, Greeting, InTable, history, server
<1>2. Others' = Others /\ \A s \in Slots : file'[slots'[s]] = file[slots[s]]
    BY DEF Others, Connected, server
<1>3. Owing'
    BY <1>2 DEF RoomInv, Owing, history, server, Conn
<1> QED
    BY <1>1, <1>3 DEF RoomInv

LEMMA PassKeeps ==
    ASSUME RoomInv, AllServed, pc \notin {"hello", "join", "exited", "killed"},
           pc' \in {"update", "select", "accept", "scan", "exited"}, UNCHANGED history,
           Posted' /\ AnsweredOnce' /\ (AllServed => AllServed')
    PROVE  RoomInv'
<1>1. Greeting'
    BY DEF RoomInv, Greeting, history
<1>2. Owing'
    BY DEF Owing
<1> QED
    BY <1>1, <1>2 DEF RoomInv

-----------------------------------------------------------------------------
LEMMA PeerStep ==
    ASSUME Inv, RoomInv, NEW c \in Conns, Peer(c)
    PROVE  RoomInv' /\ [Abs!RoomNext]_(Abs!roomVars)
<1>0. TypeOK
    BY DEF Inv
<1>1. UNCHANGED <<server, history, file>>
    BY DEF Peer, Connect, Type, Read, HangUp, RstArrives
<1>2. \A d \in Conns : Left(tcp[d]) => Left(tcp'[d])
    BY <1>0 DEF Peer, Connect, Type, Read, HangUp, RstArrives, TypeOK, Left
<1>3. \A d \in Conns : tcp'[d] = "idle" => tcp[d] = "idle"
    BY <1>0 DEF Peer, Connect, Type, Read, HangUp, RstArrives, TypeOK
<1>4. \A j \in DOMAIN backlog' : \/ \E k \in DOMAIN backlog : backlog'[j] = backlog[k]
                                 \/ tcp[backlog'[j]] = "idle"
    <2>1. CASE Connect(c)
        <3>1. backlog \in Seq(Conns) /\ backlog' = Append(backlog, c) /\ tcp[c] = "idle"
            BY <1>0, <2>1 DEF Connect, TypeOK
        <3> QED
            BY <3>1
    <2>2. CASE ~Connect(c)
        BY <2>2 DEF Peer, Type, Read, HangUp, RstArrives
    <2> QED
        BY <2>1, <2>2
<1>5. RoomInv'
    BY <1>0, <1>1, <1>2, <1>3, <1>4, Kept, PeerKeeps
<1>6. Room' = Room /\ UNCHANGED <<taken, feed, got>>
    BY <1>1, SameRoom DEF server, history
<1>7. CASE ~HangUp(c)
    <2>1. \A d \in Conns : Left(tcp'[d]) <=> Left(tcp[d])
        BY <1>0, <1>7 DEF Peer, Connect, Type, Read, RstArrives, TypeOK, Left
    <2> QED
        BY <1>5, <1>6, <2>1, Unseen
<1>8. CASE HangUp(c)
    <2>1. {d \in Conns : Gone(d)}' = {d \in Conns : Gone(d)} \cup {c}
        BY <1>0, <1>8 DEF HangUp, Gone, TypeOK
    <2>2. Abs!HangUp(c)
        BY <1>6, <2>1 DEF Abs!HangUp
    <2> QED
        BY <1>5, <2>2 DEF Abs!RoomNext
<1> QED
    BY <1>7, <1>8
(* The steps of the server between two events. *)
LEMMA PassStep ==
    ASSUME Inv, RoomInv,
           UpdateReadset \/ Select \/ SelectOrAcceptFails \/ SentToAll \/ RecvError \/ ScanDone
    PROVE  RoomInv' /\ [Abs!RoomNext]_(Abs!roomVars)
<1>0. TypeOK /\ SlotTable
    BY DEF Inv
<1>1. UNCHANGED <<slots, file, backlog, taken, history>>
    BY DEF UpdateReadset, Select, SelectOrAcceptFails, SentToAll, RecvError, ScanDone, kernel
<1>2. \A d \in Conns : (Left(tcp'[d]) <=> Left(tcp[d])) /\ (tcp'[d] = "idle" => tcp[d] = "idle")
    <2>1. CASE RecvError
        <3>1. PICK s \in Slots : tcp[Conn(s)] = "rst" /\ tcp' = [tcp EXCEPT ![Conn(s)] = "dead"]
            BY <2>1 DEF RecvError
        <3> QED
            BY <1>0, <3>1 DEF TypeOK, Left
    <2>2. CASE ~RecvError
        BY <2>2 DEF UpdateReadset, Select, SelectOrAcceptFails, SentToAll, ScanDone, kernel
    <2> QED
        BY <2>1, <2>2
<1>3. Posted' /\ AnsweredOnce' /\ (AllServed => AllServed')
    BY <1>0, <1>1, <1>2, Kept
<1>4. pc \notin {"hello", "join", "exited", "killed"}
    BY DEF UpdateReadset, Select, SelectOrAcceptFails, SentToAll, RecvError, Serve, ScanDone
<1>5. pc' \in {"update", "select", "accept", "scan", "exited"}
    BY DEF UpdateReadset, Select, SelectOrAcceptFails, SentToAll, RecvError, Serve, ScanDone
<1>6. AllServed
    <2>1. CASE SentToAll
        BY <2>1 DEF SentToAll, RoomInv, Owing, AllServed
    <2>2. CASE ~SentToAll
        BY <2>2 DEF UpdateReadset, Select, SelectOrAcceptFails, RecvError, Serve, ScanDone, RoomInv, Owing
    <2> QED
        BY <2>1, <2>2
<1>7. RoomInv'
    BY <1>1, <1>3, <1>4, <1>5, <1>6, PassKeeps
<1>8. UNCHANGED Abs!roomVars
    BY <1>1, <1>2, SameRoom, Unseen DEF history
<1> QED
    BY <1>7, <1>8

(* A refused connection is closed: to the room, it has hung up. *)
LEMMA CloseStep ==
    ASSUME Inv, RoomInv, CloseRefused
    PROVE  RoomInv' /\ [Abs!RoomNext]_(Abs!roomVars)
<1>0. TypeOK /\ SlotTable
    BY DEF Inv
<1> DEFINE c == file[cfd]
<1>1. cfd \in Fds /\ c \in Conns /\ \A s \in Slots : slots[s] # cfd
    BY DEF Inv, InHand, CloseRefused
<1>2. tcp' = [tcp EXCEPT ![c] = "over"] /\ UNCHANGED <<slots, backlog, taken, history>>
    BY DEF CloseRefused
<1>3. \A d \in Conns : (Left(tcp[d]) => Left(tcp'[d])) /\ (tcp'[d] = "idle" => tcp[d] = "idle")
    BY <1>0, <1>2 DEF TypeOK, Left
<1>4. Posted' /\ AnsweredOnce' /\ (AllServed => AllServed')
    BY <1>0, <1>2, <1>3, Kept
<1>5. RoomInv'
    BY <1>2, <1>4, PassKeeps DEF CloseRefused, RoomInv, Owing
<1>6. Room' = Room
    <2>1. \A s \in Connected : slots[s] \in Fds \ {cfd}
        BY <1>0, <1>1, ConnectedFds DEF Connected
    <2>2. \A s \in Connected : file'[slots'[s]] = file[slots[s]]
        BY <1>0, <1>2, <2>1 DEF CloseRefused, TypeOK
    <2>3. Connected' = Connected
        BY <1>2 DEF Connected
    <2> QED
        BY <2>2, <2>3 DEF Room, Conn
<1>7. {d \in Conns : Gone(d)}' = {d \in Conns : Gone(d)} \cup {c}
    BY <1>0, <1>1, <1>2 DEF Gone, TypeOK
<1>8. Abs!HangUp(c)
    BY <1>2, <1>6, <1>7 DEF Abs!HangUp, history
<1> QED
    BY <1>1, <1>5, <1>8 DEF Abs!RoomNext

-----------------------------------------------------------------------------
(* One send to somebody who is owed the last event: it is delivered, or the    *)
(* addressee has left, or the server is killed.                                *)
LEMMA SendStep ==
    ASSUME Inv, RoomInv, NEW c \in Conns, NEW next, send_message(c, next), Waits(feed, got[c], c)
    PROVE  /\ [Abs!RoomNext]_(Abs!roomVars)
           /\ Posted' /\ AnsweredOnce'
           /\ \A d \in Conns : Left(tcp[d]) => Left(tcp'[d])
           /\ \A d \in Conns \ {c} : got'[d] = got[d]
           /\ pc' = "killed" \/ (pc' = next /\ (Left(tcp'[c]) \/ ~Waits(feed', got'[c], c)))
<1>0. TypeOK
    BY DEF Inv
<1>1. UNCHANGED <<slots, file, backlog, taken, feed>>
    BY DEF send_message
<1>2. Room' = Room
    BY <1>1, SameRoom
<1>3. CASE Sent(c) /\ pc' = next
    <2>1. /\ tcp[c] = "up" /\ tcp' = tcp
          /\ got' = [got EXCEPT ![c] = Append(@, Len(feed))]
        BY <1>3 DEF Sent
    <2>2. /\ got'[c] = Append(got[c], Len(feed)) /\ got[c] \in Seq(Nat)
          /\ \A d \in Conns \ {c} : got'[d] = got[d]
        BY <1>0, <2>1 DEF TypeOK
    <2>3. /\ Len(got[c]) \in Nat /\ DOMAIN got'[c] = 1..(Len(got[c]) + 1)
          /\ DOMAIN got[c] = 1..Len(got[c])
          /\ got'[c][Len(got[c]) + 1] = Len(feed)
          /\ \A k \in DOMAIN got[c] : got'[c][k] = got[c][k]
        BY <2>2
    <2>4. Len(feed) \in 1..Len(feed)
        BY <1>0 DEF TypeOK, Waits
    <2>5. Posted'
        <3>1. \A d \in Conns : \A k \in DOMAIN got[d] : got[d][k] \in 1..Len(feed)
            BY DEF RoomInv, Posted
        <3>2. \A k \in DOMAIN got'[c] : got'[c][k] \in 1..Len(feed)
            BY <2>3, <2>4, <3>1
        <3>3. \A d \in Conns : \A k \in DOMAIN got'[d] : got'[d][k] \in 1..Len(feed')
            BY <1>1, <2>2, <3>1, <3>2
        <3> QED
            BY <3>3 DEF Posted
    <2>6. AnsweredOnce'
        BY <1>1, <2>1 DEF RoomInv, AnsweredOnce
    <2>7. ~Waits(feed', got'[c], c)
        BY <1>1, <2>3 DEF Waits
    <2>8. Abs!Deliver(c)
        <3>1. c \in Abs!Due \ {d \in Conns : Gone(d)}
            BY <2>1 DEF Abs!Due, Waits, Gone
        <3>2. {d \in Conns : Gone(d)}' = {d \in Conns : Gone(d)}
            BY <2>1 DEF Gone
        <3> QED
            BY <1>1, <1>2, <2>1, <3>1, <3>2 DEF Abs!Deliver
    <2> QED
        BY <1>3, <2>1, <2>2, <2>5, <2>6, <2>7, <2>8 DEF Abs!RoomNext
<1>4. CASE ~(Sent(c) /\ pc' = next)
    <2>1. /\ got' = got
          /\ \A d \in Conns : (Left(tcp'[d]) <=> Left(tcp[d])) /\ (tcp'[d] = "idle" => tcp[d] = "idle")
          /\ pc' = "killed" \/ (pc' = next /\ Left(tcp'[c]))
        BY <1>0, <1>4 DEF send_message, LostOrFailed, TypeOK, Left
    <2>2. Posted' /\ AnsweredOnce'
        BY <1>0, <1>1, <2>1, Kept DEF history
    <2>3. UNCHANGED Abs!roomVars
        BY <1>1, <1>2, <2>1, Unseen
    <2> QED
        BY <2>1, <2>2, <2>3
<1> QED
    BY <1>3, <1>4

LEMMA AnswerStep ==
    ASSUME Inv, RoomInv, SendHello \/ SendRefusal
    PROVE  RoomInv' /\ [Abs!RoomNext]_(Abs!roomVars)
<1>0. TypeOK
    BY DEF Inv
<1> DEFINE c == file[cfd]
           next == IF pc = "hello" THEN "join" ELSE "close"
<1>1. pc \in {"hello", "refuse"} /\ send_message(c, next)
    BY DEF SendHello, SendRefusal
<1>2. c \in Conns /\ Waits(feed, got[c], c) /\ feed[Len(feed)].to = {c}
    BY <1>1 DEF Inv, InHand, RoomInv, Owing
<1>3. UNCHANGED <<slots, file, cfd, feed>>
    BY <1>1 DEF send_message
<1> HIDE DEF c, next
<1>4. /\ [Abs!RoomNext]_(Abs!roomVars)
      /\ Posted' /\ AnsweredOnce'
      /\ \A d \in Conns : Left(tcp[d]) => Left(tcp'[d])
      /\ \A d \in Conns \ {c} : got'[d] = got[d]
      /\ pc' = "killed" \/ (pc' = next /\ (Left(tcp'[c]) \/ ~Waits(feed', got'[c], c)))
    BY <1>1, <1>2, SendStep
<1>5. Greeting'
    BY <1>1, <1>3, <1>4 DEF RoomInv, Greeting, InTable, next
<1>6. pc' # "killed" => AllServed'
    <2>1. \A d \in Conns \ {c} : ~Waits(feed', got'[d], d)
        BY <1>2, <1>3 DEF Waits
    <2> QED
        BY <1>4, <2>1 DEF AllServed
<1>7. Owing'
    BY <1>1, <1>4, <1>6 DEF Owing, next
<1> QED
    BY <1>4, <1>5, <1>7 DEF RoomInv

LEMMA SendToOtherStep ==
    ASSUME Inv, RoomInv, SendToOther
    PROVE  RoomInv' /\ [Abs!RoomNext]_(Abs!roomVars)
<1>0. TypeOK /\ SlotTable
    BY DEF Inv
<1>1. PICK s \in Slots : First(s, Others) /\ send_message(Conn(s), pc) /\ dest' = s + 1
    BY DEF SendToOther
<1>2. pc \in {"announce", "relay"}
    BY DEF SendToOther
<1>3. s \in Others /\ \A t \in Others : s <= t
    BY <1>1 DEF First
<1>4. Conn(s) \in Conns /\ Waits(feed, got[Conn(s)], Conn(s))
    BY <1>0, <1>2, <1>3 DEF SlotTable, Others, Conn, RoomInv, Owing
<1> DEFINE c == Conn(s)
<1>5. /\ [Abs!RoomNext]_(Abs!roomVars)
      /\ Posted' /\ AnsweredOnce'
      /\ \A d \in Conns : Left(tcp[d]) => Left(tcp'[d])
      /\ \A d \in Conns \ {c} : got'[d] = got[d]
      /\ pc' = "killed" \/ (pc' = pc /\ (Left(tcp'[c]) \/ ~Waits(feed', got'[c], c)))
    BY <1>1, <1>4, SendStep
<1>6. UNCHANGED <<slots, file, cfd, feed>>
    BY <1>1 DEF send_message
<1>7. Greeting'
    BY <1>2, <1>5, <1>6 DEF RoomInv, Greeting, InTable
<1>8. Others' = Others \ {s}
    <2>1. Connected' = Connected /\ Connected \subseteq Slots
        BY <1>6 DEF Connected
    <2>2. \A t \in Slots : t >= s + 1 <=> t >= s /\ t # s
        BY DEF Slots
    <2>3. \A t \in Others : t >= s
        BY <1>3, <2>1 DEF Others, Slots
    <2>4. dest \in Nat /\ s \in Nat /\ dest <= s
        BY <1>0, <1>3 DEF TypeOK, Others, Slots
    <2>5. \A t \in Slots : t >= s => t >= dest
        BY <2>4 DEF Slots
    <2> QED
        BY <1>1, <1>6, <2>1, <2>2, <2>3, <2>5 DEF Others
<1>9. \A t \in Others : Conn(t) = c => t = s
    BY <1>0, <1>3, <1>4, ConnectedFds DEF SlotTable, Others, Conn
<1>10. \A t \in Slots : file'[slots'[t]] = Conn(t)
    BY <1>6 DEF Conn
<1>11. Others \subseteq Slots /\ \A t \in Others : Conn(t) \in Conns
    BY <1>0 DEF SlotTable, Others, Conn, Connected
<1>12. CASE pc' = "killed"
    BY <1>5, <1>7, <1>12 DEF RoomInv, Owing
<1>13. CASE pc' # "killed"
    <2>1. /\ \A t \in Others : Waits(feed, got[Conn(t)], Conn(t))
          /\ \A d \in Conns : Waits(feed, got[d], d) => Left(tcp[d]) \/ \E t \in Others : Conn(t) = d
        BY <1>2 DEF RoomInv, Owing
    <2>2. \A t \in Others' : Waits(feed', got'[Conn(t)], Conn(t))
        BY <1>5, <1>6, <1>8, <1>9, <1>11, <2>1
    <2>3. \A d \in Conns : Waits(feed', got'[d], d) => Left(tcp'[d]) \/ \E t \in Others' : Conn(t) = d
        BY <1>5, <1>6, <1>8, <1>13, <2>1
    <2>4. \A t \in Others' : Conn(t)' = Conn(t)
        BY <1>8, <1>10, <1>11 DEF Conn
    <2>5. Owing'
        BY <1>2, <1>5, <1>13, <2>2, <2>3, <2>4 DEF Owing
    <2> QED
        BY <1>5, <1>7, <2>5 DEF RoomInv
<1> QED
    BY <1>5, <1>12, <1>13
-----------------------------------------------------------------------------
(* A new event: nobody has it, its addressees wait for it, and so does nobody  *)
(* else.                                                                       *)
LEMMA NewEvent ==
    ASSUME TypeOK, RoomInv, NEW e, feed' = Append(feed, e), UNCHANGED got
    PROVE  /\ feed' # <<>> /\ feed'[Len(feed')] = e
           /\ Len(feed') = Len(feed) + 1 /\ Len(feed) \in Nat
           /\ \A k \in 1..Len(feed) : feed'[k] = feed[k]
           /\ Posted'
           /\ \A c \in Conns : Waits(feed', got'[c], c) <=> c \in e.to
<1>1. feed \in Seq(FeedEvents)
    BY DEF TypeOK
<1>2. /\ Len(feed) \in Nat /\ Len(feed') = Len(feed) + 1 /\ feed' # <<>>
      /\ feed'[Len(feed')] = e
      /\ \A k \in 1..Len(feed) : feed'[k] = feed[k]
    BY <1>1
<1>3. \A c \in Conns : \A k \in DOMAIN got[c] : got[c][k] \in 1..Len(feed)
    BY DEF RoomInv, Posted
<1>4. Posted'
    BY <1>2, <1>3 DEF Posted
<1>5. \A c \in Conns : \A k \in DOMAIN got[c] : got[c][k] # Len(feed')
    BY <1>2, <1>3
<1>6. \A c \in Conns : Waits(feed', got'[c], c) <=> c \in e.to
    BY <1>2, <1>5 DEF Waits
<1> QED
    BY <1>2, <1>4, <1>6

(* The loops post when everybody who listens was served. *)
LEMMA PostStep ==
    ASSUME TypeOK, AllServed, NEW what, NEW c \in Conns, NEW n, NEW r \in Residues, NEW to,
           Post(what, c, n, r, to), UNCHANGED <<tcp, got>>,
           what = "join" <=> feed # <<>> /\ feed[Len(feed)].what = "hello"
    PROVE  Abs!Post(what, c, n, to)
<1>1. Abs!Due \subseteq {d \in Conns : Gone(d)}
    BY DEF Abs!Due, AllServed, Waits, Left, Gone
<1>2. feed # <<>> => feed[Len(feed)].from \in Conns
    <2>1. feed \in Seq(FeedEvents)
        BY DEF TypeOK
    <2>2. feed # <<>> => Len(feed) \in 1..Len(feed)
        BY <2>1
    <2> QED
        BY <2>2, FeedFrom
<1>3. what = "join" <=> \E d \in Conns : Abs!Announcing(d)
    BY <1>2 DEF Abs!Announcing
<1>4. {d \in Conns : Gone(d)}' = {d \in Conns : Gone(d)}
    BY DEF Gone
<1> QED
    BY <1>1, <1>3, <1>4 DEF Abs!Post, Post

(* The one who is accepted was never answered. *)
LEMMA AcceptKeeps ==
    ASSUME Inv, RoomInv, NEW fd \in Fds, NEW c \in Conns, TakeDescriptor(fd, c),
           NEW e, feed' = Append(feed, e), e.from = c
    PROVE  ~Abs!Answered(c) /\ AnsweredOnce'
<1>0. TypeOK /\ OnePlace
    BY DEF Inv
<1>1. feed \in Seq(FeedEvents) /\ backlog \in Seq(Conns)
    BY <1>0 DEF TypeOK
<1>2. backlog # <<>> /\ c = Head(backlog) /\ backlog' = Tail(backlog) /\ UNCHANGED <<tcp, got>>
    BY DEF TakeDescriptor
<1>3. /\ Len(backlog) \in Nat \ {0} /\ DOMAIN backlog = 1..Len(backlog)
      /\ DOMAIN backlog' = 1..(Len(backlog) - 1)
      /\ \A k \in DOMAIN backlog' : backlog'[k] = backlog[k + 1]
      /\ c = backlog[1]
    BY <1>1, <1>2
<1>4. DOMAIN feed = 1..Len(feed)
    BY <1>1
<1>5. ~Abs!Answered(c)
    BY <1>3, <1>4 DEF Abs!Answered, RoomInv, AnsweredOnce
<1>6. tcp[c] # "idle" /\ \A j \in DOMAIN backlog' : backlog'[j] # c
    BY <1>0, <1>3 DEF OnePlace, InBacklog
<1>7. \A k \in 1..Len(feed) : \A j \in DOMAIN backlog' : backlog'[j] # feed[k].from
    BY <1>3 DEF RoomInv, AnsweredOnce
<1>8. \A k \in 1..Len(feed') : k \in 1..Len(feed) \/ feed'[k] = e
    BY <1>0, <1>2, NewEvent
<1>9. \A k \in 1..Len(feed) : feed'[k] = feed[k]
    BY <1>0, <1>2, NewEvent
<1>10. AnsweredOnce'
    BY <1>2, <1>6, <1>7, <1>8, <1>9 DEF RoomInv, AnsweredOnce
<1> QED
    BY <1>5, <1>10

LEMMA AdmitStep ==
    ASSUME Inv, RoomInv, Admit
    PROVE  RoomInv' /\ [Abs!RoomNext]_(Abs!roomVars)
<1>0. TypeOK /\ SlotTable
    BY DEF Inv
<1>1. PICK fd \in Fds, c \in Conns, s \in Slots :
          /\ TakeDescriptor(fd, c)
          /\ First(s, Slots \ Connected)
          /\ slots' = [slots EXCEPT ![s] = fd]
          /\ Post("hello", c, 0, Clean, {c})
    BY DEF Admit
<1> DEFINE e == [what |-> "hello", from |-> c, text |-> 0, tail |-> Clean, to |-> {c}]
<1>2. feed' = Append(feed, e)
    BY <1>1 DEF Post
<1>3. UNCHANGED <<tcp, got, taken>> /\ cfd' = fd
    BY <1>1 DEF TakeDescriptor
<1>4. file' \in [Fds -> Conns \cup {NoConn}] /\ file[fd] = NoConn
      /\ file'[fd] = c /\ \A g \in Fds \ {fd} : file'[g] = file[g]
    BY <1>1, AcceptInv
<1>5. /\ slots' \in [Slots -> Fds \cup {0}] /\ slots'[s] = fd /\ s \notin Connected
      /\ \A t \in Slots \ {s} : slots'[t] = slots[t]
    BY <1>0, <1>1 DEF TypeOK, First
<1>6. Connected' = Connected \cup {s}
    BY <1>5 DEF Connected, Fds
<1>7. Room' = Room \cup {c}
    <2>1. \A t \in Connected : t # s /\ slots[t] \in Fds \ {fd}
        BY <1>0, <1>5, <1>1, AcceptInv, ConnectedFds DEF Connected
    <2>2. \A t \in Connected : file'[slots'[t]] = file[slots[t]]
        BY <1>4, <1>5, <2>1 DEF Connected
    <2> QED
        BY <1>4, <1>5, <1>6, <2>2 DEF Room, Conn
<1>8. pc = "accept" /\ pc' = "hello"
    BY DEF Admit
<1>9. AllServed /\ (feed = <<>> \/ feed[Len(feed)].what # "hello")
    BY <1>8 DEF RoomInv, Owing, Greeting
<1>10. Abs!Post("hello", c, 0, {c})
    BY <1>0, <1>1, <1>3, <1>9, PostStep, ChatAssumption
<1>11. ~Abs!Answered(c) /\ AnsweredOnce'
    BY <1>1, <1>2, AcceptKeeps
<1>12. /\ feed' # <<>> /\ feed'[Len(feed')] = e /\ Posted'
       /\ Waits(feed', got'[c], c)
    <2>1. c \in e.to
        OBVIOUS
    <2> HIDE DEF e
    <2> QED
        BY <1>0, <1>2, <1>3, <2>1, NewEvent
<1>13. Greeting'
    BY <1>3, <1>4, <1>5, <1>8, <1>12 DEF Greeting, InTable, Fds
<1>14. Owing'
    BY <1>3, <1>4, <1>8, <1>12 DEF Owing
<1>15. Abs!Enter(c)
    BY <1>3, <1>7, <1>10, <1>11 DEF Abs!Enter
<1> QED
    BY <1>11, <1>12, <1>13, <1>14, <1>15 DEF RoomInv, Abs!RoomNext

LEMMA RefuseStep ==
    ASSUME Inv, RoomInv, Refuse
    PROVE  RoomInv' /\ [Abs!RoomNext]_(Abs!roomVars)
<1>0. TypeOK /\ SlotTable
    BY DEF Inv
<1>1. PICK fd \in Fds, c \in Conns : TakeDescriptor(fd, c) /\ Post("refuse", c, 0, Clean, {c})
    BY DEF Refuse
<1> DEFINE e == [what |-> "refuse", from |-> c, text |-> 0, tail |-> Clean, to |-> {c}]
<1>2. feed' = Append(feed, e)
    BY <1>1 DEF Post
<1>3. UNCHANGED <<tcp, got, taken, slots>> /\ cfd' = fd
    BY <1>1 DEF TakeDescriptor, Refuse
<1>4. file'[fd] = c /\ \A g \in Fds \ {fd} : file'[g] = file[g]
    BY <1>1, AcceptInv
<1>5. Room' = Room
    <2>1. \A t \in Connected : slots[t] \in Fds \ {fd}
        BY <1>0, <1>1, AcceptInv, ConnectedFds DEF Connected
    <2>2. \A t \in Connected : file'[slots'[t]] = file[slots[t]]
        BY <1>3, <1>4, <2>1
    <2>3. Connected' = Connected
        BY <1>3 DEF Connected
    <2> QED
        BY <2>2, <2>3 DEF Room, Conn
<1>6. pc = "accept" /\ pc' = "refuse"
    BY DEF Refuse
<1>7. AllServed /\ (feed = <<>> \/ feed[Len(feed)].what # "hello")
    BY <1>6 DEF RoomInv, Owing, Greeting
<1>8. Abs!Post("refuse", c, 0, {c})
    BY <1>0, <1>1, <1>3, <1>7, PostStep, ChatAssumption
<1>9. ~Abs!Answered(c) /\ AnsweredOnce'
    BY <1>1, <1>2, AcceptKeeps
<1>10. /\ feed' # <<>> /\ feed'[Len(feed')] = e /\ Posted'
       /\ Waits(feed', got'[c], c)
    <2>1. c \in e.to
        OBVIOUS
    <2> HIDE DEF e
    <2> QED
        BY <1>0, <1>2, <1>3, <2>1, NewEvent
<1>11. Greeting'
    BY <1>6, <1>10 DEF Greeting
<1>12. Owing'
    BY <1>3, <1>4, <1>6, <1>10 DEF Owing
<1>13. Abs!Refuse(c)
    BY <1>3, <1>5, <1>8, <1>9 DEF Abs!Refuse
<1> QED
    BY <1>9, <1>10, <1>11, <1>12, <1>13 DEF RoomInv, Abs!RoomNext
(* An event about the connection behind a descriptor, for everybody else in    *)
(* the room: the loop has all of them, and nobody but them, still before it.   *)
LEMMA TellOthers ==
    ASSUME Inv, RoomInv, NEW fd \in Fds, NEW c \in Conns, file[fd] = c,
           NEW e, feed' = Append(feed, e), e.from = c, e.to = Room \ {c}, e.what # "hello",
           UNCHANGED <<kernel, got>>, cfd' = fd, dest' = 1, pc' \in {"announce", "relay"},
           \A s \in Slots : slots'[s] = slots[s] \/ (slots[s] = fd /\ slots'[s] = 0)
    PROVE  RoomInv'
<1>0. TypeOK /\ SlotTable /\ OnePlace
    BY DEF Inv
<1>1. /\ feed' # <<>> /\ feed'[Len(feed')] = e
      /\ Len(feed') = Len(feed) + 1 /\ Len(feed) \in Nat
      /\ \A k \in 1..Len(feed) : feed'[k] = feed[k]
      /\ Posted'
      /\ \A d \in Conns : Waits(feed', got'[d], d) <=> d \in Room \ {c}
    BY <1>0, NewEvent
<1>2. AnsweredOnce'
    <2>1. tcp[c] # "idle" /\ \A j \in DOMAIN backlog : backlog[j] # c
        BY <1>0 DEF OnePlace, InFile, InBacklog
    <2>2. \A k \in 1..Len(feed') : k \in 1..Len(feed) \/ feed'[k] = e
        BY <1>1
    <2> QED
        BY <1>1, <2>1, <2>2 DEF RoomInv, AnsweredOnce, kernel
<1>3. Greeting'
    BY <1>1 DEF Greeting
<1>4. Others' = {s \in Connected : slots[s] # fd}
    <2>1. Others' = {s \in Slots : slots'[s] > 0 /\ s >= 1 /\ slots'[s] # fd}
        BY DEF Others, Connected
    <2>2. \A s \in Slots : s >= 1
        BY DEF Slots
    <2>3. \A s \in Slots : slots'[s] > 0 /\ slots'[s] # fd <=> slots[s] > 0 /\ slots[s] # fd
        OBVIOUS
    <2> QED
        BY <2>1, <2>2, <2>3 DEF Connected
<1>5. \A s \in Others' : Conn(s)' = Conn(s) /\ Conn(s) \in Room \ {c}
    <2> TAKE s \in Others'
    <2>1. s \in Connected /\ slots[s] # fd /\ slots'[s] = slots[s] /\ slots[s] \in Fds
        BY <1>0, <1>4, ConnectedFds DEF Connected
    <2>2. Conn(s) \in Room /\ Conn(s) # c
        BY <1>0, <2>1 DEF Room, Conn, SlotTable
    <2> QED
        BY <2>1, <2>2 DEF Conn, kernel
<1>6. \A d \in Room \ {c} : \E s \in Others' : Conn(s)' = d
    <2> TAKE d \in Room \ {c}
    <2>1. PICK s \in Connected : Conn(s) = d
        BY DEF Room
    <2>2. slots[s] # fd
        BY <2>1 DEF Conn
    <2> QED
        BY <1>4, <1>5, <2>1, <2>2
<1>7. Room \subseteq Conns
    BY <1>0, RoomIsConns
<1>8. \A s \in Others' : Waits(feed', got'[Conn(s)'], Conn(s)')
    BY <1>1, <1>5, <1>7
<1>9. Owing'
    BY <1>1, <1>6, <1>8 DEF Owing
<1> QED
    BY <1>1, <1>2, <1>3, <1>9 DEF RoomInv

LEMMA JoinStep ==
    ASSUME Inv, RoomInv, Join
    PROVE  RoomInv' /\ [Abs!RoomNext]_(Abs!roomVars)
<1>0. TypeOK /\ SlotTable
    BY DEF Inv
<1> DEFINE c == file[cfd]
           e == [what |-> "join", from |-> c, text |-> 0, tail |-> Clean, to |-> Room \ {c}]
<1>1. cfd \in Fds /\ c \in Conns /\ pc = "join"
    BY DEF Inv, InHand, Join
<1>2. /\ feed' = Append(feed, e) /\ Post("join", c, 0, Clean, Room \ {c})
      /\ e.from = c /\ e.to = Room \ {c} /\ e.what # "hello"
    BY DEF Join, Post
<1>3. /\ UNCHANGED <<kernel, slots, taken, got>> /\ cfd' = cfd /\ dest' = 1 /\ pc' = "announce"
    BY DEF Join
<1>4. RoomInv'
    <2> HIDE DEF e, c
    <2> QED
        BY <1>1, <1>2, <1>3, TellOthers DEF c
<1>5. AllServed /\ feed # <<>> /\ feed[Len(feed)].what = "hello" /\ feed[Len(feed)].from = c
    BY <1>1 DEF RoomInv, Owing, Greeting
<1>6. c \in Room
    BY <1>1 DEF RoomInv, Greeting, InTable, Room, Conn, Connected
<1>7. Abs!Post("join", c, 0, Room \ {c})
    BY <1>0, <1>1, <1>2, <1>3, <1>5, PostStep, ChatAssumption DEF kernel
<1>8. Room' = Room
    BY <1>3, SameRoom DEF kernel
<1>9. Abs!Announce(c)
    BY <1>3, <1>5, <1>6, <1>7, <1>8 DEF Abs!Announce, Abs!Announcing
<1> QED
    BY <1>1, <1>4, <1>9 DEF Abs!RoomNext

(* What the server has in hand when it serves an entry. *)
LEMMA Serving ==
    ASSUME Inv, RoomInv, NEW s \in Slots, Serve(s)
    PROVE  /\ s \in Connected /\ slots[s] \in Fds /\ Conn(s) \in Conns \cap Room
           /\ file[slots[s]] = Conn(s)
           /\ \A t \in Connected : t # s => slots[t] # slots[s] /\ Conn(t) # Conn(s)
           /\ AllServed /\ (feed = <<>> \/ feed[Len(feed)].what # "hello")
<1>0. TypeOK /\ SlotTable
    BY DEF Inv
<1>1. pc = "scan" /\ s \in Connected
    BY DEF Serve, First, ReadySlots
<1>2. slots[s] \in Fds /\ file[slots[s]] = Conn(s)
    BY <1>0, <1>1, ConnectedFds DEF Conn
<1>3. Conn(s) \in Conns \cap Room
    BY <1>0, <1>1 DEF SlotTable, Room, Conn
<1>4. \A t \in Connected : t # s => slots[t] # slots[s] /\ Conn(t) # Conn(s)
    BY <1>0, <1>1, <1>3, ConnectedFds DEF SlotTable, Conn
<1>5. AllServed /\ (feed = <<>> \/ feed[Len(feed)].what # "hello")
    BY <1>1 DEF RoomInv, Owing, Greeting
<1> QED
    BY <1>1, <1>2, <1>3, <1>4, <1>5

LEMMA RecvTextStep ==
    ASSUME Inv, RoomInv, RecvText
    PROVE  RoomInv' /\ [Abs!RoomNext]_(Abs!roomVars)
<1> USE ChatAssumption
<1>0. TypeOK
    BY DEF Inv
<1>1. PICK s \in Slots :
        /\ Serve(s)
        /\ Lines(Conn(s)) > 0
        /\ LET n == IF Lines(Conn(s)) < RecvMax THEN Lines(Conn(s)) ELSE RecvMax
           IN  /\ taken' = [taken EXCEPT ![Conn(s)] = @ + n]
               /\ \E r \in Residues :
                     Post("say", Conn(s), taken[Conn(s)] + n, r, Room \ {Conn(s)})
        /\ slot' = s
        /\ cfd' = slots[s]
        /\ dest' = 1
        /\ pc' = "relay"
        /\ UNCHANGED <<kernel, slots, readset, maxfd, got>>
    BY DEF RecvText
<1> DEFINE c == Conn(s)
           m == taken[c] + (IF Lines(c) < RecvMax THEN Lines(c) ELSE RecvMax)
<1>2. c \in Conns \cap Room /\ slots[s] \in Fds /\ file[slots[s]] = c
    BY <1>1, Serving
<1>3. AllServed /\ (feed = <<>> \/ feed[Len(feed)].what # "hello")
    BY <1>1, Serving
<1>4. taken' = [taken EXCEPT ![c] = m] /\ \E r \in Residues : Post("say", c, m, r, Room \ {c})
    BY <1>1
<1>5. m \in (taken[c] + 1)..MaxTyped
    BY <1>0, <1>1, <1>2 DEF Lines, TypeOK
<1> HIDE DEF m, c
<1>6. PICK r \in Residues : Post("say", c, m, r, Room \ {c})
    BY <1>4
<1> DEFINE e == [what |-> "say", from |-> c, text |-> m, tail |-> r, to |-> Room \ {c}]
<1>7. feed' = Append(feed, e) /\ e.from = c /\ e.to = Room \ {c} /\ e.what # "hello"
    BY <1>6 DEF Post
<1>8. RoomInv'
    <2> HIDE DEF e
    <2> QED
        BY <1>1, <1>2, <1>7, TellOthers
<1>9. Abs!Post("say", c, m, Room \ {c})
    BY <1>0, <1>1, <1>2, <1>3, <1>6, PostStep DEF kernel
<1>10. Room' = Room
    BY <1>1, SameRoom DEF kernel
<1>11. Abs!Say(c)
    BY <1>2, <1>4, <1>5, <1>9, <1>10 DEF Abs!Say
<1> QED
    BY <1>2, <1>8, <1>11 DEF Abs!RoomNext

LEMMA RecvEofStep ==
    ASSUME Inv, RoomInv, RecvEof
    PROVE  RoomInv' /\ [Abs!RoomNext]_(Abs!roomVars)
<1>0. TypeOK /\ SlotTable
    BY DEF Inv
<1>1. PICK s \in Slots :
        /\ Serve(s)
        /\ tcp[Conn(s)] \in {"fin", "finsent", "dead"}
        /\ slots' = [slots EXCEPT ![s] = 0]
        /\ Post("leave", Conn(s), 0, Clean, Room \ {Conn(s)})
        /\ cfd' = slots[s]
        /\ dest' = 1
        /\ pc' = "relay"
        /\ UNCHANGED <<kernel, readset, maxfd, taken, got>>
    BY DEF RecvEof
<1> DEFINE c == Conn(s)
           e == [what |-> "leave", from |-> c, text |-> 0, tail |-> Clean, to |-> Room \ {c}]
<1>2. /\ c \in Conns \cap Room /\ slots[s] \in Fds /\ file[slots[s]] = c
      /\ s \in Connected /\ \A t \in Connected : t # s => slots[t] # slots[s] /\ Conn(t) # c
      /\ AllServed /\ (feed = <<>> \/ feed[Len(feed)].what # "hello")
    BY <1>1, Serving
<1>3. feed' = Append(feed, e) /\ e.from = c /\ e.to = Room \ {c} /\ e.what # "hello"
    BY <1>1 DEF Post
<1>4. \A t \in Slots : t # s => slots'[t] = slots[t]
    BY <1>0, <1>1 DEF TypeOK
<1>5. slots'[s] = 0
    BY <1>0, <1>1 DEF TypeOK
<1>6. RoomInv'
    <2>1. \A t \in Slots : slots'[t] = slots[t] \/ (slots[t] = slots[s] /\ slots'[t] = 0)
        BY <1>4, <1>5
    <2> HIDE DEF e, c
    <2> QED
        BY <1>1, <1>2, <1>3, <2>1, TellOthers
<1>7. Connected' = Connected \ {s}
    BY <1>4, <1>5 DEF Connected
<1>8. \A t \in Connected' : Conn(t)' = Conn(t)
    BY <1>1, <1>4, <1>7 DEF Conn, kernel, Connected
<1>9. Room' = Room \ {c}
    <2>1. Room' = {Conn(t) : t \in Connected \ {s}}
        BY <1>7, <1>8 DEF Room
    <2> QED
        BY <1>2, <2>1 DEF Room
<1>10. Abs!Post("leave", c, 0, Room \ {c})
    BY <1>0, <1>1, <1>2, PostStep, ChatAssumption DEF kernel
<1>11. c \in {d \in Conns : Gone(d)}
    BY <1>1, <1>2 DEF Gone
<1>12. Abs!Leave(c)
    BY <1>1, <1>2, <1>9, <1>10, <1>11 DEF Abs!Leave
<1> QED
    BY <1>2, <1>6, <1>12 DEF Abs!RoomNext
-----------------------------------------------------------------------------
LEMMA RoomNextStep ==
    ASSUME Inv, RoomInv, [Next]_vars
    PROVE  RoomInv' /\ [Abs!RoomNext]_(Abs!roomVars)
<1>1. CASE Server
    BY <1>1, PassStep, CloseStep, AnswerStep, SendToOtherStep, AdmitStep, RefuseStep,
       JoinStep, RecvTextStep, RecvEofStep DEF Server
<1>2. CASE \E c \in Conns : Peer(c)
    BY <1>2, PeerStep
<1>3. CASE UNCHANGED vars
    <2>1. UNCHANGED <<server, history, file, backlog, tcp>>
        BY <1>3 DEF vars, kernel
    <2>2. TypeOK
        BY DEF Inv
    <2>3. RoomInv'
        BY <2>1, <2>2, Kept, PeerKeeps
    <2>4. Room' = Room /\ UNCHANGED <<taken, feed, got>>
        BY <2>1, SameRoom DEF server, history
    <2> QED
        BY <2>1, <2>3, <2>4, Unseen
<1> QED
    BY <1>1, <1>2, <1>3 DEF Next

(* Each step of the select() loop, of the kernel and of the clients is a step  *)
(* of the room or none (server4.c 146-166, 196-223), for any values of the     *)
(* constants.                                                                  *)
THEOREM ServerImplementsRoom == Spec => ImplementsRoom
<1>1. Init => Inv /\ RoomInv /\ Abs!RoomInit
    BY InitInv, RoomInitInv
<1>2. Inv /\ RoomInv /\ [Next]_vars => Inv' /\ RoomInv' /\ [Abs!RoomNext]_(Abs!roomVars)
    BY NextInv, RoomNextStep
<1> QED
    BY <1>1, <1>2, PTL DEF Spec, ImplementsRoom, Abs!RoomSpec
-----------------------------------------------------------------------------
(* What was proved of the room holds of the server. *)
R == INSTANCE ChatRoomProofs WITH room <- Room, gone <- {c \in Conns : Gone(c)}, told <- taken

LEMMA OneRoom == Abs!RoomSpec => R!RoomSpec
<1>1. Abs!RoomInit => R!RoomInit
    BY DEF Abs!RoomInit, R!RoomInit
<1>2. [Abs!RoomNext]_(Abs!roomVars) => [R!RoomNext]_(R!roomVars)
    BY DEF Abs!RoomNext, R!RoomNext, Abs!roomVars, R!roomVars, Abs!Enter, R!Enter,
           Abs!Announce, R!Announce, Abs!Say, R!Say, Abs!Leave, R!Leave, Abs!Refuse, R!Refuse,
           Abs!Deliver, R!Deliver, Abs!HangUp, R!HangUp, Abs!Post, R!Post, Abs!Due, R!Due,
           Abs!Announcing, R!Announcing, Abs!Answered, R!Answered
<1> QED
    BY <1>1, <1>2, PTL DEF Abs!RoomSpec, R!RoomSpec

(* Two clients of the server never hear two events in opposite orders, nor one *)
(* event twice (server4.c 146-166).                                            *)
THEOREM ServerOrder == Spec => []R!SameOrderForAll
BY ServerImplementsRoom, OneRoom, R!RoomOrder, PTL DEF ImplementsRoom

(* A client of the server hears its greeting or its refusal first, once        *)
(* (server4.c 93-111).                                                         *)
THEOREM ServerGreets == Spec => []R!GreetedFirst
BY ServerImplementsRoom, OneRoom, R!RoomGreets, PTL DEF ImplementsRoom
-----------------------------------------------------------------------------
(* Who is in the table against what was announced, and the open descriptors    *)
(* against both.  A connection nothing was sent to yet cannot kill the server, *)
(* so one that is being refused is always closed.                              *)
Fresh ==
    /\ \A c \in Conns : tcp[c] = "idle" => unread[c] = 0
    /\ \A k \in DOMAIN backlog : unread[backlog[k]] = 0 /\ tcp[backlog[k]] \in {"up", "fin"}
    /\ pc = "refuse" => unread[file[cfd]] = 0 /\ tcp[file[cfd]] \in {"up", "fin"}

Open == {fd \in Fds : file[fd] # NoConn}
Froms(what) == {feed[k].from : k \in Of(what)}
Refusing == IF pc \in {"refuse", "close"} THEN 1 ELSE 0

CountInv == MembersAsAnnounced /\ DescriptorsAccounted /\ Fresh

LEMMA FiniteParts ==
    ASSUME TypeOK
    PROVE  /\ IsFiniteSet(Connected) /\ Cardinality(Connected) \in Nat
           /\ IsFiniteSet(Open) /\ Cardinality(Open) \in Nat
           /\ \A what \in {"hello", "leave"} : IsFiniteSet(Of(what)) /\ Cardinality(Of(what)) \in Nat
<1> USE ChatAssumption
<1>1. IsFiniteSet(Connected)
    <2>1. IsFiniteSet(1..MaxClients)
        BY FS_Interval
    <2>2. Connected \subseteq 1..MaxClients
        BY DEF Connected, Slots
    <2> QED
        BY <2>1, <2>2, FS_Subset
<1>2. IsFiniteSet(Open)
    <2>1. IsFiniteSet(4..MaxFd)
        BY FS_Interval
    <2>2. Open \subseteq 4..MaxFd
        BY DEF Open, Fds
    <2> QED
        BY <2>1, <2>2, FS_Subset
<1>3. ASSUME NEW what PROVE IsFiniteSet(Of(what))
    <2>1. feed \in Seq(FeedEvents)
        BY DEF TypeOK
    <2>2. DOMAIN feed = 1..Len(feed) /\ Len(feed) \in Int
        BY <2>1
    <2> QED
        BY <2>2, FS_Interval, FS_Subset DEF Of
<1> QED
    BY <1>1, <1>2, <1>3, FS_CardinalityType

LEMMA CountInit == Init => CountInv
<1> SUFFICES ASSUME Init PROVE CountInv
    OBVIOUS
<1>1. Connected = {} /\ Room = {} /\ Of("hello") = {} /\ Of("leave") = {}
    BY DEF Init, Connected, Room, Of
<1>2. {fd \in Fds : file[fd] # NoConn} = {}
    BY DEF Init
<1>3. pc = "update"
    BY DEF Init
<1>4. MembersAsAnnounced /\ DescriptorsAccounted
    BY <1>1, <1>2, <1>3, FS_EmptySet DEF MembersAsAnnounced, DescriptorsAccounted
<1>5. Fresh
    BY DEF Init, Fresh
<1> QED
    BY <1>4, <1>5 DEF CountInv

LEMMA SameCount ==
    ASSUME CountInv, UNCHANGED <<slots, file, feed>>, Refusing' = Refusing
    PROVE  MembersAsAnnounced' /\ DescriptorsAccounted'
<1>1. Connected' = Connected /\ Room' = Room /\ Of("hello")' = Of("hello") /\ Of("leave")' = Of("leave")
    BY DEF Connected, Room, Conn, Of
<1> QED
    BY <1>1 DEF CountInv, MembersAsAnnounced, DescriptorsAccounted, Refusing

(* Announcing once more. *)
LEMMA OneMore ==
    ASSUME TypeOK, NEW e, feed' = Append(feed, e), NEW what \in {"hello", "leave"}
    PROVE  /\ e.what = what => /\ Cardinality(Of(what)') = Cardinality(Of(what)) + 1
                               /\ Froms(what)' = Froms(what) \cup {e.from}
           /\ e.what # what => Of(what)' = Of(what) /\ Froms(what)' = Froms(what)
<1>1. feed \in Seq(FeedEvents)
    BY DEF TypeOK
<1>2. /\ Len(feed) \in Nat /\ DOMAIN feed = 1..Len(feed)
      /\ DOMAIN feed' = 1..(Len(feed) + 1)
      /\ feed'[Len(feed) + 1] = e
      /\ \A k \in 1..Len(feed) : feed'[k] = feed[k]
    BY <1>1
<1>3. Len(feed) + 1 \notin Of(what)
    BY <1>2 DEF Of
<1>4. ASSUME e.what = what
      PROVE  /\ Cardinality(Of(what)') = Cardinality(Of(what)) + 1
             /\ Froms(what)' = Froms(what) \cup {e.from}
    <2>1. Of(what)' = Of(what) \cup {Len(feed) + 1}
        BY <1>2, <1>4 DEF Of
    <2>2. Cardinality(Of(what)') = Cardinality(Of(what)) + 1
        BY <1>3, <2>1, FiniteParts, FS_AddElement
    <2>3. Of(what) \subseteq 1..Len(feed)
        BY <1>2 DEF Of
    <2>4. Froms(what)' = {feed'[k].from : k \in Of(what) \cup {Len(feed) + 1}}
        BY <2>1 DEF Froms
    <2> QED
        BY <1>2, <2>2, <2>3, <2>4 DEF Froms
<1>5. ASSUME e.what # what PROVE Of(what)' = Of(what) /\ Froms(what)' = Froms(what)
    <2>1. Of(what)' = Of(what) /\ Of(what) \subseteq 1..Len(feed)
        BY <1>2, <1>5 DEF Of
    <2> QED
        BY <1>2, <2>1 DEF Froms
<1> QED
    BY <1>4, <1>5

(* The three sums and the set, put together for a step. *)
LEMMA Accounts ==
    /\ MembersAsAnnounced <=>
         /\ Cardinality(Connected) + Cardinality(Of("leave")) = Cardinality(Of("hello"))
         /\ Room = Froms("hello") \ Froms("leave")
    /\ DescriptorsAccounted <=>
         Cardinality(Open) = Cardinality(Connected) + Cardinality(Of("leave")) + Refusing
BY DEF MembersAsAnnounced, DescriptorsAccounted, Froms, Open, Refusing
(* What was posted decides the two sums when the table and the descriptors     *)
(* stay as they are.                                                           *)
LEMMA CountSaid ==
    ASSUME TypeOK, CountInv, NEW e, feed' = Append(feed, e), e.what \notin {"hello", "leave"},
           UNCHANGED <<slots, file>>, Refusing' = Refusing
    PROVE  MembersAsAnnounced' /\ DescriptorsAccounted'
<1>1. Of("hello")' = Of("hello") /\ Of("leave")' = Of("leave")
    BY OneMore
<1>2. Froms("hello")' = Froms("hello") /\ Froms("leave")' = Froms("leave")
    BY OneMore
<1>3. Connected' = Connected /\ Room' = Room /\ Open' = Open
    BY SameRoom DEF Connected, Open
<1> QED
    BY <1>1, <1>2, <1>3, Accounts DEF CountInv, MembersAsAnnounced, DescriptorsAccounted, Refusing,
       Froms

LEMMA PeerCount == ASSUME Inv, CountInv, NEW c \in Conns, Peer(c) PROVE CountInv'
<1>0. TypeOK /\ SlotTable /\ OnePlace
    BY DEF Inv
<1>1. UNCHANGED <<slots, file, feed, pc, cfd>>
    BY DEF Peer, Connect, Type, Read, HangUp, RstArrives, server, history
<1>2. MembersAsAnnounced' /\ DescriptorsAccounted'
    BY <1>1, SameCount DEF Refusing
<1>3. Fresh'
    <2>1. \A d \in Conns : unread'[d] = unread[d] \/ unread'[d] = 0
        BY <1>0 DEF Peer, Connect, Type, Read, HangUp, RstArrives, TypeOK
    <2>2. \A d \in Conns : unread[d] = 0 /\ tcp[d] \in {"up", "fin"} => tcp'[d] \in {"up", "fin"}
        BY <1>0 DEF Peer, Connect, Type, Read, HangUp, RstArrives, TypeOK
    <2>3. \A d \in Conns : tcp'[d] = "idle" => tcp[d] = "idle"
        BY <1>0 DEF Peer, Connect, Type, Read, HangUp, RstArrives, TypeOK
    <2>4. \A d \in Conns : tcp'[d] = "idle" => unread'[d] = 0
        BY <2>1, <2>3 DEF CountInv, Fresh
    <2>5. \A j \in DOMAIN backlog' : unread'[backlog'[j]] = 0 /\ tcp'[backlog'[j]] \in {"up", "fin"}
        <3>1. backlog \in Seq(Conns)
            BY <1>0 DEF TypeOK
        <3>2. \A k \in DOMAIN backlog : backlog[k] \in Conns
            BY <3>1
        <3>3. CASE Connect(c)
            <4>1. backlog' = Append(backlog, c) /\ unread[c] = 0 /\ unread' = unread /\ tcp'[c] = "up"
                BY <1>0, <3>3 DEF Connect, TypeOK, CountInv, Fresh
            <4>2. \A j \in DOMAIN backlog' :
                      backlog'[j] = c \/ \E k \in DOMAIN backlog : backlog'[j] = backlog[k]
                BY <3>1, <4>1
            <4> QED
                BY <2>1, <2>2, <3>2, <4>1, <4>2 DEF CountInv, Fresh
        <3>4. CASE ~Connect(c)
            <4>1. backlog' = backlog
                BY <3>4 DEF Peer, Type, Read, HangUp, RstArrives
            <4> QED
                BY <2>1, <2>2, <3>2, <4>1 DEF CountInv, Fresh
        <3> QED
            BY <3>3, <3>4
    <2>6. pc = "refuse" => file[cfd] \in Conns
        BY DEF Inv, InHand
    <2>7. pc' = "refuse" => unread'[file'[cfd']] = 0 /\ tcp'[file'[cfd']] \in {"up", "fin"}
        BY <1>1, <2>1, <2>2, <2>6 DEF CountInv, Fresh
    <2> QED
        BY <2>4, <2>5, <2>7 DEF Fresh
<1> QED
    BY <1>2, <1>3 DEF CountInv

(* What the server does to somebody it has accepted is of no account to those  *)
(* who wait.                                                                   *)
LEMMA FreshKept ==
    ASSUME Inv, CountInv, NEW c \in Conns, InFile(c), UNCHANGED backlog, pc' # "refuse",
           \A d \in Conns \ {c} : tcp'[d] = tcp[d] /\ unread'[d] = unread[d],
           tcp'[c] # "idle"
    PROVE  Fresh'
<1>1. backlog \in Seq(Conns)
    BY DEF Inv, TypeOK
<1>2. \A k \in DOMAIN backlog : backlog[k] \in Conns \ {c}
    BY <1>1 DEF Inv, OnePlace, InBacklog
<1> QED
    BY <1>2 DEF CountInv, Fresh

LEMMA FreshStill ==
    ASSUME CountInv, UNCHANGED <<tcp, unread, backlog>>, pc' # "refuse"
    PROVE  Fresh'
BY DEF CountInv, Fresh

LEMMA QuietCount ==
    ASSUME Inv, CountInv,
           \/ UpdateReadset \/ Select \/ SelectOrAcceptFails \/ SentToAll \/ ScanDone \/ Join \/ RecvText
    PROVE  CountInv'
<1>0. TypeOK
    BY DEF Inv
<1>1. UNCHANGED <<slots, kernel>> /\ pc' # "refuse"
    BY DEF UpdateReadset, Select, SelectOrAcceptFails, SentToAll, ScanDone, Join, RecvText
<1>2. Fresh'
    BY <1>1, FreshStill DEF kernel
<1>3. Refusing' = Refusing
    BY DEF UpdateReadset, Select, SelectOrAcceptFails, SentToAll, ScanDone, Join, RecvText, Serve, Refusing
<1>4. CASE UpdateReadset \/ Select \/ SelectOrAcceptFails \/ SentToAll \/ ScanDone
    <2>1. UNCHANGED feed
        BY <1>4 DEF UpdateReadset, Select, SelectOrAcceptFails, SentToAll, ScanDone, history
    <2> QED
        BY <1>1, <1>2, <1>3, <2>1, SameCount DEF CountInv, kernel
<1>5. CASE Join \/ RecvText
    <2>1. PICK e : feed' = Append(feed, e) /\ e.what \notin {"hello", "leave"}
        <3>1. CASE Join
            BY <3>1 DEF Join, Post
        <3>2. CASE RecvText
            BY <3>2 DEF RecvText, Post
        <3> QED
            BY <1>5, <3>1, <3>2
    <2> QED
        BY <1>0, <1>1, <1>2, <1>3, <2>1, CountSaid DEF CountInv, kernel
<1> QED
    BY <1>4, <1>5

LEMMA SendCount ==
    ASSUME Inv, CountInv, SendHello \/ SendRefusal \/ SendToOther \/ RecvError
    PROVE  CountInv'
<1>0. TypeOK /\ SlotTable /\ InHand
    BY DEF Inv
<1>1. PICK c \in Conns :
        /\ InFile(c)
        /\ \/ /\ RecvError
              /\ tcp[c] = "rst"
              /\ tcp' = [tcp EXCEPT ![c] = "dead"]
           \/ \E next \in PCs \ {"refuse"} :
                 /\ pc \in {"hello", "refuse", "announce", "relay"}
                 /\ send_message(c, next)
                 /\ pc = "refuse" <=> next = "close"
                 /\ pc = "refuse" => c = file[cfd]
    <2>1. CASE SendHello \/ SendRefusal
        <3>1. file[cfd] \in Conns /\ InFile(file[cfd])
            BY <1>0, <2>1 DEF InHand, SendHello, SendRefusal, InFile
        <3> QED
            BY <2>1, <3>1 DEF SendHello, SendRefusal, PCs
    <2>2. CASE SendToOther
        <3>1. PICK s \in Slots : First(s, Others) /\ send_message(Conn(s), pc)
            BY <2>2 DEF SendToOther
        <3>2. Conn(s) \in Conns /\ InFile(Conn(s))
            BY <1>0, <3>1, ConnectedFds DEF First, Others, Conn, SlotTable, InFile
        <3>3. pc \in {"announce", "relay"}
            BY <2>2 DEF SendToOther
        <3> QED
            BY <3>1, <3>2, <3>3 DEF PCs
    <2>3. CASE RecvError
        <3>1. PICK s \in Slots : Serve(s) /\ tcp[Conn(s)] = "rst" /\ tcp' = [tcp EXCEPT ![Conn(s)] = "dead"]
            BY <2>3 DEF RecvError
        <3>2. Conn(s) \in Conns /\ InFile(Conn(s))
            BY <1>0, <3>1, ConnectedFds DEF Serve, First, ReadySlots, Conn, SlotTable, InFile
        <3> QED
            BY <2>3, <3>1, <3>2
    <2> QED
        BY <2>1, <2>2, <2>3
<1>2. UNCHANGED <<slots, file, feed, backlog>>
    BY <1>1 DEF send_message, RecvError, history
<1>3. tcp[c] # "idle"
    BY <1>1 DEF Inv, OnePlace
<1>4. /\ tcp'[c] # "idle"
      /\ \A d \in Conns \ {c} : tcp'[d] = tcp[d] /\ unread'[d] = unread[d]
    <2>1. CASE RecvError
        BY <1>0, <1>1, <2>1 DEF RecvError, TypeOK, Serve
    <2>2. CASE ~RecvError
        BY <1>0, <1>1, <1>3, <2>2 DEF send_message, Sent, LostOrFailed, TypeOK
    <2> QED
        BY <2>1, <2>2
<1>5. pc' # "refuse"
    BY <1>1 DEF RecvError, Serve, send_message
<1>6. Refusing' = Refusing
    <2>1. CASE RecvError
        BY <2>1 DEF RecvError, Serve, Refusing
    <2>2. CASE ~RecvError /\ pc = "refuse"
        <3>1. tcp[c] \in {"up", "fin"}
            BY <1>1, <2>2 DEF CountInv, Fresh
        <3>2. pc' = "close"
            BY <1>1, <2>2, <3>1 DEF send_message
        <3> QED
            BY <2>2, <3>2 DEF Refusing
    <2>3. CASE ~RecvError /\ pc # "refuse"
        BY <1>1, <2>3 DEF Refusing, send_message
    <2> QED
        BY <2>1, <2>2, <2>3
<1> QED
    BY <1>1, <1>2, <1>4, <1>5, <1>6, SameCount, FreshKept DEF CountInv
(* accept(): one descriptor more, and nobody else waits differently. *)
LEMMA AcceptCount ==
    ASSUME Inv, CountInv, NEW fd \in Fds, NEW c \in Conns, TakeDescriptor(fd, c)
    PROVE  /\ Cardinality(Open') = Cardinality(Open) + 1
           /\ pc' \in {"hello", "refuse"} => Fresh'
           /\ \A s \in Connected : file'[slots[s]] = file[slots[s]]
           /\ \A s \in Connected : Conn(s) # c
<1>0. TypeOK /\ OnePlace
    BY DEF Inv
<1>1. /\ file[fd] = NoConn /\ file'[fd] = c /\ \A g \in Fds \ {fd} : file'[g] = file[g]
      /\ \A s \in Slots : slots[s] # fd
    BY AcceptInv
<1>2. Open' = Open \cup {fd} /\ fd \notin Open
    BY <1>1, ChatAssumption DEF Open
<1>3. Cardinality(Open') = Cardinality(Open) + 1
    BY <1>0, <1>2, FiniteParts, FS_AddElement
<1>4. /\ backlog \in Seq(Conns) /\ backlog # <<>> /\ c = Head(backlog) /\ backlog' = Tail(backlog)
      /\ UNCHANGED <<tcp, unread>> /\ cfd' = fd
    BY <1>0 DEF TakeDescriptor, TypeOK
<1>5. /\ DOMAIN backlog' = 1..(Len(backlog) - 1) /\ Len(backlog) \in Nat \ {0}
      /\ \A k \in DOMAIN backlog' : backlog'[k] = backlog[k + 1]
      /\ c = backlog[1] /\ DOMAIN backlog = 1..Len(backlog)
    BY <1>4
<1>6. Fresh'
    BY <1>1, <1>4, <1>5 DEF CountInv, Fresh
<1>7. \A s \in Connected : slots[s] \in Fds \ {fd}
    BY <1>0, <1>1, ConnectedFds DEF Connected
<1>8. ~InFile(c)
    BY <1>0, <1>5 DEF OnePlace, InBacklog
<1> QED
    BY <1>1, <1>3, <1>6, <1>7, <1>8 DEF InFile, Conn

LEMMA RefuseCount == ASSUME Inv, CountInv, Refuse PROVE CountInv'
<1>0. TypeOK
    BY DEF Inv
<1>1. PICK fd \in Fds, c \in Conns : TakeDescriptor(fd, c) /\ Post("refuse", c, 0, Clean, {c})
    BY DEF Refuse
<1>2. /\ Cardinality(Open') = Cardinality(Open) + 1 /\ Fresh'
      /\ \A s \in Connected : file'[slots[s]] = file[slots[s]]
    BY <1>1, AcceptCount DEF Refuse
<1>3. Connected' = Connected /\ Room' = Room
    BY <1>2 DEF Refuse, Connected, Room, Conn
<1>4. /\ Of("hello")' = Of("hello") /\ Froms("hello")' = Froms("hello")
      /\ Of("leave")' = Of("leave") /\ Froms("leave")' = Froms("leave")
    BY <1>0, <1>1, OneMore DEF Post
<1>5. Refusing = 0 /\ Refusing' = 1
    BY DEF Refusing, Refuse
<1>6. /\ Cardinality(Connected) + Cardinality(Of("leave")) = Cardinality(Of("hello"))
      /\ Room = Froms("hello") \ Froms("leave")
      /\ Cardinality(Open) = Cardinality(Connected) + Cardinality(Of("leave")) + Refusing
    BY Accounts DEF CountInv
<1>7. MembersAsAnnounced'
    BY <1>3, <1>4, <1>6 DEF MembersAsAnnounced, Froms
<1>8. DescriptorsAccounted'
    BY <1>0, <1>2, <1>3, <1>4, <1>5, <1>6, FiniteParts DEF DescriptorsAccounted, Open, Refusing
<1> QED
    BY <1>2, <1>7, <1>8 DEF CountInv

LEMMA AdmitCount == ASSUME Inv, RoomInv, CountInv, Admit PROVE CountInv'
<1>0. TypeOK
    BY DEF Inv
<1>1. PICK fd \in Fds, c \in Conns, s \in Slots :
          /\ TakeDescriptor(fd, c)
          /\ First(s, Slots \ Connected)
          /\ slots' = [slots EXCEPT ![s] = fd]
          /\ Post("hello", c, 0, Clean, {c})
    BY DEF Admit
<1>2. /\ Cardinality(Open') = Cardinality(Open) + 1 /\ Fresh'
      /\ \A t \in Connected : file'[slots[t]] = file[slots[t]]
    BY <1>1, AcceptCount DEF Admit
<1>3. /\ slots'[s] = fd /\ s \notin Connected
      /\ \A t \in Slots \ {s} : slots'[t] = slots[t]
    BY <1>0, <1>1 DEF TypeOK, First
<1>4. Connected' = Connected \cup {s}
    BY <1>3 DEF Connected, Fds
<1>5. Cardinality(Connected') = Cardinality(Connected) + 1
    BY <1>0, <1>3, <1>4, FiniteParts, FS_AddElement
<1>6. Room' = Room \cup {c}
    <2>1. \A t \in Connected : file'[slots'[t]] = file[slots[t]]
        BY <1>2, <1>3 DEF Connected
    <2>2. file'[slots'[s]] = c
        BY <1>1, <1>3, AcceptInv
    <2> QED
        BY <1>4, <2>1, <2>2 DEF Room, Conn
<1>7. /\ Cardinality(Of("hello")') = Cardinality(Of("hello")) + 1
      /\ Froms("hello")' = Froms("hello") \cup {c}
      /\ Of("leave")' = Of("leave") /\ Froms("leave")' = Froms("leave")
    BY <1>0, <1>1, OneMore DEF Post
<1>8. c \notin Froms("leave")
    <2>1. ~Abs!Answered(c)
        BY <1>1, AcceptKeeps DEF Post
    <2> QED
        BY <2>1 DEF Abs!Answered, Froms, Of
<1>9. Refusing = 0 /\ Refusing' = 0
    BY DEF Refusing, Admit
<1>10. /\ Cardinality(Connected) + Cardinality(Of("leave")) = Cardinality(Of("hello"))
       /\ Room = Froms("hello") \ Froms("leave")
       /\ Cardinality(Open) = Cardinality(Connected) + Cardinality(Of("leave")) + Refusing
    BY Accounts DEF CountInv
<1>11. /\ Cardinality(Connected) \in Nat /\ Cardinality(Open) \in Nat
       /\ Cardinality(Of("hello")) \in Nat /\ Cardinality(Of("leave")) \in Nat
    BY <1>0, FiniteParts
<1>12. Cardinality(Connected') + Cardinality(Of("leave")') = Cardinality(Of("hello")')
    BY <1>5, <1>7, <1>10, <1>11
<1>13. Room' = Froms("hello")' \ Froms("leave")'
    BY <1>6, <1>7, <1>8, <1>10
<1>14. Cardinality(Open') = Cardinality(Connected') + Cardinality(Of("leave")') + Refusing'
    BY <1>2, <1>5, <1>7, <1>9, <1>10, <1>11
<1> QED
    BY <1>2, <1>12, <1>13, <1>14
       DEF CountInv, MembersAsAnnounced, DescriptorsAccounted, Froms, Open, Refusing

LEMMA CloseCount == ASSUME Inv, CountInv, CloseRefused PROVE CountInv'
<1>0. TypeOK
    BY DEF Inv
<1> DEFINE c == file[cfd]
<1>1. cfd \in Fds /\ c \in Conns /\ InFile(c) /\ \A s \in Slots : slots[s] # cfd
    BY DEF Inv, InHand, CloseRefused, InFile
<1>2. file'[cfd] = NoConn /\ \A f \in Fds \ {cfd} : file'[f] = file[f]
    BY <1>0, <1>1 DEF CloseRefused, TypeOK
<1>3. Open' = Open \ {cfd} /\ cfd \in Open
    BY <1>1, <1>2, ChatAssumption DEF Open
<1>4. Cardinality(Open') = Cardinality(Open) - 1
    BY <1>0, <1>3, FiniteParts, FS_RemoveElement
<1>5. Fresh'
    BY <1>0, <1>1, FreshKept DEF CloseRefused, TypeOK
<1>6. Connected' = Connected /\ Room' = Room
    <2>1. \A s \in Connected : slots[s] \in Fds \ {cfd}
        BY <1>0, <1>1, ConnectedFds DEF Connected
    <2> QED
        BY <1>2, <2>1 DEF CloseRefused, Connected, Room, Conn
<1>7. Of("hello")' = Of("hello") /\ Of("leave")' = Of("leave") /\ feed' = feed
    BY DEF CloseRefused, history, Of
<1>8. Refusing = 1 /\ Refusing' = 0
    BY DEF Refusing, CloseRefused
<1>9. MembersAsAnnounced'
    BY <1>6, <1>7 DEF CountInv, MembersAsAnnounced
<1>10. Cardinality(Open) = Cardinality(Connected) + Cardinality(Of("leave")) + Refusing
    BY Accounts DEF CountInv
<1>11. DescriptorsAccounted'
    BY <1>0, <1>4, <1>6, <1>7, <1>8, <1>10, FiniteParts DEF DescriptorsAccounted, Open, Refusing
<1> QED
    BY <1>5, <1>9, <1>11 DEF CountInv

LEMMA RecvEofCount == ASSUME Inv, RoomInv, CountInv, RecvEof PROVE CountInv'
<1>0. TypeOK
    BY DEF Inv
<1>1. PICK s \in Slots :
        /\ Serve(s)
        /\ slots' = [slots EXCEPT ![s] = 0]
        /\ Post("leave", Conn(s), 0, Clean, Room \ {Conn(s)})
        /\ pc' = "relay"
        /\ UNCHANGED kernel
    BY DEF RecvEof
<1> DEFINE c == Conn(s)
<1>2. s \in Connected /\ \A t \in Connected : t # s => Conn(t) # c
    BY <1>1, Serving
<1>3. slots'[s] = 0 /\ \A t \in Slots \ {s} : slots'[t] = slots[t]
    BY <1>0, <1>1 DEF TypeOK
<1>4. Connected' = Connected \ {s}
    BY <1>3 DEF Connected
<1>5. Cardinality(Connected') = Cardinality(Connected) - 1
    BY <1>0, <1>2, <1>4, FiniteParts, FS_RemoveElement
<1>6. Room' = Room \ {c}
    <2>1. \A t \in Connected \ {s} : file'[slots'[t]] = Conn(t)
        BY <1>1, <1>3 DEF Connected, Conn, kernel
    <2> QED
        BY <1>2, <1>4, <2>1 DEF Room, Conn
<1>7. /\ Cardinality(Of("leave")') = Cardinality(Of("leave")) + 1
      /\ Froms("leave")' = Froms("leave") \cup {c}
      /\ Of("hello")' = Of("hello") /\ Froms("hello")' = Froms("hello")
    BY <1>0, <1>1, OneMore DEF Post
<1>8. Refusing = 0 /\ Refusing' = 0 /\ Open' = Open
    BY <1>1 DEF Refusing, Serve, Open, kernel
<1>9. /\ Cardinality(Connected) + Cardinality(Of("leave")) = Cardinality(Of("hello"))
      /\ Room = Froms("hello") \ Froms("leave")
      /\ Cardinality(Open) = Cardinality(Connected) + Cardinality(Of("leave")) + Refusing
    BY Accounts DEF CountInv
<1>10. /\ Cardinality(Connected) \in Nat /\ Cardinality(Open) \in Nat
       /\ Cardinality(Of("hello")) \in Nat /\ Cardinality(Of("leave")) \in Nat
    BY <1>0, FiniteParts
<1>11. Cardinality(Connected') + Cardinality(Of("leave")') = Cardinality(Of("hello")')
    BY <1>5, <1>7, <1>9, <1>10
<1>12. Room' = Froms("hello")' \ Froms("leave")'
    BY <1>6, <1>7, <1>9
<1>13. Cardinality(Open') = Cardinality(Connected') + Cardinality(Of("leave")') + Refusing'
    BY <1>5, <1>7, <1>8, <1>9, <1>10
<1>14. Fresh'
    BY <1>1, FreshStill DEF kernel
<1> QED
    BY <1>11, <1>12, <1>13, <1>14
       DEF CountInv, MembersAsAnnounced, DescriptorsAccounted, Froms, Open, Refusing

LEMMA CountNext == ASSUME Inv, RoomInv, CountInv, [Next]_vars PROVE CountInv'
<1>1. CASE Server
    BY <1>1, QuietCount, SendCount, RefuseCount, AdmitCount, CloseCount, RecvEofCount DEF Server
<1>2. CASE \E c \in Conns : Peer(c)
    BY <1>2, PeerCount
<1>3. CASE UNCHANGED vars
    <2>1. UNCHANGED <<slots, file, feed, pc, cfd, kernel>>
        BY <1>3 DEF vars, kernel, server, history
    <2>2. Fresh'
        BY <2>1 DEF CountInv, Fresh, kernel
    <2> QED
        BY <2>1, <2>2, SameCount DEF CountInv, Refusing
<1> QED
    BY <1>1, <1>2, <1>3 DEF Next

LEMMA Counting == Spec => []CountInv
<1>1. Init => Inv /\ RoomInv /\ CountInv
    BY InitInv, RoomInitInv, CountInit
<1>2. Inv /\ RoomInv /\ CountInv /\ [Next]_vars => Inv' /\ RoomInv' /\ CountInv'
    BY NextInv, RoomNextStep, CountNext
<1> QED
    BY <1>1, <1>2, PTL DEF Spec

(* Who the table holds is who was let in and not yet reported gone (server4.c  *)
(* 93-99, 134-142), whatever the order of arrivals, departures and errors.     *)
THEOREM MembersCorrect == Spec => []MembersAsAnnounced
<1>1. CountInv => MembersAsAnnounced
    BY DEF CountInv
<1> QED
    BY <1>1, Counting, PTL

(* Every descriptor that accept() returned is in the table, or is the one      *)
(* being refused, or was left open by disconect_client (server4.c 103-111,     *)
(* 134-143).                                                                   *)
THEOREM DescriptorsCorrect == Spec => []DescriptorsAccounted
<1>1. CountInv => DescriptorsAccounted
    BY DEF CountInv
<1> QED
    BY <1>1, Counting, PTL
-------------------------------------------------------------------------------
(* How long a round of the loop in main() is: the calls of the server before   *)
(* the next select(), at most, and those for one entry of the table.           *)
Entry == MaxClients + 2

CallsLeft ==
    CASE pc = "accept"   -> MaxClients + 5
      [] pc = "hello"    -> MaxClients + 4
      [] pc = "join"     -> MaxClients + 3
      [] pc = "announce" -> (MaxClients + 1 - dest) + 2
      [] pc = "refuse"   -> 3
      [] pc = "close"    -> 2
      [] pc = "update"   -> 1
      [] pc = "scan"     -> (MaxClients + 1 - slot) * Entry + 2
      [] pc = "relay"    -> (MaxClients - slot) * Entry + (MaxClients + 1 - dest) + 3
      [] OTHER           -> 0

RoundShrinks ==
    /\ Server /\ pc # "select" => CallsLeft' < CallsLeft
    /\ ~Server => CallsLeft' = CallsLeft

LEMMA Times ==
    ASSUME NEW w \in Nat, NEW a \in Nat
    PROVE  /\ a * w \in Nat /\ (a + 1) * w = a * w + w
           /\ \A b \in Nat : a <= b => a * w <= b * w
<1>1. ASSUME NEW d \in Nat PROVE a * w <= (a + d) * w
    <2>1. (a + d) * w = a * w + d * w /\ d * w \in Nat /\ a * w \in Nat
        OBVIOUS
    <2> QED
        BY <2>1
<1>2. ASSUME NEW b \in Nat, a <= b PROVE a * w <= b * w
    <2>1. b - a \in Nat /\ b = a + (b - a)
        BY <1>2
    <2> QED
        BY <1>1, <2>1
<1> QED
    BY <1>2

LEMMA ScanShrinks ==
    ASSUME Inv, RecvText \/ RecvEof \/ RecvError
    PROVE  CallsLeft' < CallsLeft
<1> DEFINE N == MaxClients
<1>0. TypeOK /\ N \in Nat \ {0}
    BY ChatAssumption DEF Inv
<1>1. PICK s \in Slots : /\ pc = "scan" /\ slot <= s
                         /\ \/ slot' = s /\ pc' = "relay" /\ dest' = 1
                            \/ slot' = s + 1 /\ pc' = "scan"
    BY <1>0 DEF RecvText, RecvEof, RecvError, Serve, First, ReadySlots
<1>2. slot \in 1 .. N + 1 /\ s \in 1 .. N
    BY <1>0 DEF TypeOK, Slots
<1> DEFINE a == N - s
           b == N + 1 - slot
<1>3. a \in Nat /\ b \in Nat /\ a + 1 <= b /\ Entry = N + 2
    BY <1>0, <1>1, <1>2 DEF Entry
<1>4. PICK p \in Nat : p = a * Entry
    BY <1>0, <1>3, Times
<1>5. PICK q \in Nat : q = b * Entry
    BY <1>0, <1>3, Times
<1>6. (a + 1) * Entry = p + Entry /\ (a + 1) * Entry <= q
    BY <1>0, <1>3, <1>4, <1>5, Times
<1>7. CallsLeft = q + 2
    BY <1>1, <1>5 DEF CallsLeft
<1>8. CallsLeft' = p + N + 3 \/ CallsLeft' = p + 2
    <2>1. CASE pc' = "relay"
        <3>1. CallsLeft' = (N - s) * Entry + (N + 1 - 1) + 3
            BY <1>1, <2>1 DEF CallsLeft, Entry
        <3> QED
            BY <1>0, <1>4, <3>1
    <2>2. CASE pc' = "scan"
        <3>1. CallsLeft' = (N + 1 - (s + 1)) * Entry + 2
            BY <1>1, <2>2 DEF CallsLeft, Entry
        <3>2. N + 1 - (s + 1) = a
            BY <1>0, <1>2
        <3> QED
            BY <1>4, <3>1, <3>2
    <2> QED
        BY <1>1, <2>1, <2>2
<1> HIDE DEF N, a, b
<1>9. p + Entry <= q
    BY <1>6
<1> QED
    BY <1>0, <1>3, <1>7, <1>8, <1>9

LEMMA RelayShrinks ==
    ASSUME Inv, SendToOther \/ SentToAll
    PROVE  CallsLeft' < CallsLeft
<1> DEFINE N == MaxClients
           e == N + 1 - dest
           p == (N - slot) * Entry
<1>0. TypeOK /\ InHand /\ N \in Nat \ {0} /\ dest \in 1 .. N + 1 /\ slot \in 1 .. N + 1
    BY ChatAssumption DEF Inv, TypeOK
<1>1. pc \in {"announce", "relay"} /\ e \in Nat
    BY <1>0 DEF SendToOther, SentToAll
<1>2. pc = "relay" => p \in Nat
    <2>1. pc = "relay" => N - slot \in Nat
        BY <1>0 DEF InHand, Slots
    <2> QED
        BY <1>0, <2>1, Times DEF Entry
<1>3. CallsLeft = IF pc = "announce" THEN e + 2 ELSE p + e + 3
    BY <1>1 DEF CallsLeft
<1>4. CASE SendToOther
    <2>1. PICK s \in Slots : First(s, Others) /\ send_message(Conn(s), pc) /\ dest' = s + 1
        BY <1>4 DEF SendToOther
    <2>2. dest <= s /\ s \in 1 .. N
        BY <2>1 DEF First, Others, Slots
    <2>3. UNCHANGED slot /\ pc' \in {pc, "killed"}
        BY <2>1 DEF send_message
    <2>4. N + 1 - dest' \in Nat /\ N + 1 - dest' < e
        BY <1>0, <2>1, <2>2
    <2>5. CASE pc' = "killed"
        <3>1. CallsLeft' = 0
            BY <2>5 DEF CallsLeft
        <3> HIDE DEF p, e
        <3> QED
            BY <1>1, <1>2, <1>3, <3>1
    <2>6. CASE pc' = pc
        <3>1. CallsLeft' = IF pc = "announce" THEN (N + 1 - dest') + 2 ELSE p + (N + 1 - dest') + 3
            BY <1>1, <2>3, <2>6 DEF CallsLeft, Entry
        <3> HIDE DEF p
        <3> QED
            BY <1>1, <1>2, <1>3, <2>4, <3>1
    <2> QED
        BY <2>3, <2>5, <2>6
<1>5. CASE SentToAll
    <2>1. CASE pc = "announce"
        <3>1. CallsLeft' = 1
            BY <1>5, <2>1 DEF SentToAll, CallsLeft
        <3> QED
            BY <1>1, <1>3, <2>1, <3>1
    <2>2. CASE pc = "relay"
        <3>1. CallsLeft' = (N + 1 - (slot + 1)) * Entry + 2
            BY <1>5, <2>2 DEF SentToAll, CallsLeft, Entry
        <3>2. N + 1 - (slot + 1) = N - slot
            BY <1>0
        <3>3. CallsLeft' = p + 2
            BY <3>1, <3>2
        <3> HIDE DEF p
        <3> QED
            BY <1>1, <1>2, <1>3, <2>2, <3>3
    <2> QED
        BY <1>1, <2>1, <2>2
<1> QED
    BY <1>4, <1>5

LEMMA ServerShrinks ==
    ASSUME Inv, Server, pc # "select"
    PROVE  CallsLeft' < CallsLeft
<1>0. /\ MaxClients \in Nat \ {0} /\ slot \in 1 .. MaxClients + 1
    BY ChatAssumption DEF Inv, TypeOK
<1>1. CASE UpdateReadset
    BY <1>1 DEF UpdateReadset, CallsLeft
<1>2. CASE Admit \/ Refuse \/ SelectOrAcceptFails
    <2>1. pc = "accept" /\ pc' \in {"hello", "refuse", "exited"}
        BY <1>2 DEF Admit, Refuse, SelectOrAcceptFails
    <2> QED
        BY <1>0, <2>1 DEF CallsLeft
<1>3. CASE SendHello \/ SendRefusal
    <2>1. \/ pc = "hello" /\ pc' \in {"join", "killed"}
          \/ pc = "refuse" /\ pc' \in {"close", "killed"}
        BY <1>3 DEF SendHello, SendRefusal, send_message
    <2> QED
        BY <1>0, <2>1 DEF CallsLeft
<1>4. CASE CloseRefused
    BY <1>4 DEF CloseRefused, CallsLeft
<1>5. CASE Join
    <2>1. pc = "join" /\ pc' = "announce" /\ dest' = 1
        BY <1>5 DEF Join
    <2> QED
        BY <1>0, <2>1 DEF CallsLeft
<1>6. CASE ScanDone
    <2>1. pc = "scan" /\ pc' = "update"
        BY <1>6 DEF ScanDone
    <2>2. (MaxClients + 1 - slot) * Entry \in Nat
        <3>1. MaxClients + 1 - slot \in Nat /\ Entry \in Nat
            BY <1>0 DEF Entry
        <3> QED
            BY <3>1, Times
    <2> DEFINE q == (MaxClients + 1 - slot) * Entry
    <2>3. CallsLeft = q + 2 /\ CallsLeft' = 1
        BY <2>1 DEF CallsLeft
    <2> HIDE DEF q
    <2>4. q \in Nat
        BY <2>2 DEF q
    <2> QED
        BY <2>3, <2>4
<1> QED
    BY <1>1, <1>2, <1>3, <1>4, <1>5, <1>6, ScanShrinks, RelayShrinks DEF Server, Select

(* Whatever the peers do, every call of the server brings the next select()    *)
(* nearer, and only the server's own calls count: a round ends after at most   *)
(* a number of calls that the size of the table bounds (server4.c 147-165,     *)
(* 205-225).                                                                   *)
THEOREM RoundsEnd == Spec => [][RoundShrinks]_vars
<1>1. ASSUME Inv, [Next]_vars PROVE RoundShrinks
    <2>1. ASSUME NEW c \in Conns, Peer(c) PROVE UNCHANGED server
        BY <2>1 DEF Peer, Connect, Type, Read, HangUp, RstArrives
    <2>2. ~Server => CallsLeft' = CallsLeft
        BY <1>1, <2>1 DEF Next, vars, server, CallsLeft
    <2> QED
        BY <1>1, <2>2, ServerShrinks DEF RoundShrinks
<1>2. Inv /\ [Next]_vars => [RoundShrinks]_vars
    BY <1>1
<1> QED
    BY <1>2, Invariance, PTL DEF Spec

(* That number: the calls for one entry (its recv() and a send() to each of    *)
(* the others) for every entry, and a few more (server4.c 76-82, 147-165).     *)
THEOREM RoundsBounded == Spec => [](CallsLeft \in 0 .. MaxClients * Entry + 3)
<1>1. ASSUME Inv PROVE CallsLeft \in 0 .. MaxClients * Entry + 3
    <2> DEFINE N == MaxClients
               t == N * Entry
    <2>0. /\ N \in Nat \ {0} /\ slot \in 1 .. N + 1 /\ dest \in 1 .. N + 1 /\ pc \in PCs
          /\ pc = "relay" => slot \in 1 .. N
          /\ Entry = N + 2
        BY <1>1, ChatAssumption DEF Inv, TypeOK, InHand, Slots, Entry
    <2>1. t \in Nat /\ t >= Entry
        <3>1. 1 * Entry = Entry /\ Entry \in Nat /\ 1 <= N
            BY <2>0
        <3> QED
            BY <2>0, <3>1, Times
    <2>2. pc = "scan" => (N + 1 - slot) * Entry \in 0 .. t
        <3>1. N + 1 - slot \in Nat /\ N + 1 - slot <= N /\ Entry \in Nat
            BY <2>0
        <3> QED
            BY <2>0, <3>1, Times
    <2>3. pc = "relay" => (N - slot) * Entry \in Nat /\ (N - slot) * Entry + Entry <= t
        <3> HAVE pc = "relay"
        <3> DEFINE a == N - slot
        <3>1. a \in Nat /\ a + 1 <= N /\ Entry \in Nat
            BY <2>0
        <3>2. a * Entry \in Nat /\ (a + 1) * Entry = a * Entry + Entry /\ (a + 1) * Entry <= t
            BY <2>0, <3>1, Times
        <3> QED
            BY <3>2
    <2>4. CASE pc = "scan"
        <3> DEFINE q == (N + 1 - slot) * Entry
        <3>1. CallsLeft = q + 2
            BY <2>4 DEF CallsLeft
        <3>2. q \in 0 .. t
            BY <2>2, <2>4
        <3> HIDE DEF q, t
        <3>3. CallsLeft \in 0 .. t + 3
            BY <2>1, <3>1, <3>2
        <3> QED
            BY <3>3 DEF t
    <2>5. CASE pc = "relay"
        <3> DEFINE q == (N - slot) * Entry
        <3>1. CallsLeft = q + (N + 1 - dest) + 3
            BY <2>5 DEF CallsLeft
        <3>2. q \in Nat /\ q + Entry <= t
            BY <2>3, <2>5
        <3> HIDE DEF q, t
        <3>3. CallsLeft \in 0 .. t + 3
            BY <2>0, <2>1, <3>1, <3>2
        <3> QED
            BY <3>3 DEF t
    <2>6. CASE pc \notin {"scan", "relay"}
        <3>1. CallsLeft \in {N + 5, N + 4, N + 3, (N + 1 - dest) + 2, 3, 2, 1, 0}
            BY <2>6 DEF CallsLeft
        <3> HIDE DEF t
        <3>2. CallsLeft \in 0 .. t + 3
            BY <2>0, <2>1, <3>1
        <3> QED
            BY <3>2 DEF t
    <2> QED
        BY <2>4, <2>5, <2>6
<1>2. Inv => CallsLeft \in 0 .. MaxClients * Entry + 3
    BY <1>1
<1> QED
    BY <1>2, Invariance, PTL
-------------------------------------------------------------------------------
(* Who has something for the server to receive, and what the loop has still to *)
(* look at of what select() reported.                                          *)
HasNews(c) == Lines(c) > 0 \/ Gone(c)

Ahead ==
    {s \in Connected : slots[s] \in readset /\ (IF pc = "relay" THEN s > slot ELSE s >= slot)}

(* recv() was called on c: it gave lines, or the end, or the error. *)
Received(c) ==
    taken'[c] > taken[c] \/ c \notin Room' \/ (tcp[c] = "rst" /\ tcp'[c] = "dead")

Noticed ==
    /\ Select => pc' = "accept" \/ \A s \in Connected : HasNews(Conn(s)) => s \in Ahead'
    /\ pc \in {"scan", "relay"} => \A s \in Ahead :
          \/ s \in Ahead' /\ slots'[s] = slots[s] /\ Conn(s)' = Conn(s) /\ pc' \in {"scan", "relay"}
          \/ Received(Conn(s)) \/ pc' = "killed"

(* When select() is called it is asked about everybody. *)
Polled ==
    pc = "select" => /\ readset = {ListenFd} \cup {slots[s] : s \in Connected}
                     /\ \A fd \in readset : fd <= maxfd

LEMMA PolledInit == Init => Polled
    BY DEF Init, Polled

LEMMA PolledNext == ASSUME Inv, Polled, [Next]_vars PROVE Polled'
<1>1. CASE UpdateReadset
    <2>1. Connected' = Connected /\ slots' = slots
        BY <1>1 DEF UpdateReadset, Connected
    <2> QED
        BY <1>1, <2>1 DEF UpdateReadset, Polled
<1>2. CASE Server /\ ~UpdateReadset
    <2>1. pc' # "select"
        BY <1>2 DEF Server, Select, Admit, Refuse, SelectOrAcceptFails, SendHello, SendRefusal, CloseRefused,
           Join, SendToOther, SentToAll, RecvText, RecvEof, RecvError, ScanDone, Serve, send_message
    <2> QED
        BY <2>1 DEF Polled
<1>3. CASE ~Server
    <2>1. ASSUME NEW c \in Conns, Peer(c) PROVE UNCHANGED server
        BY <2>1 DEF Peer, Connect, Type, Read, HangUp, RstArrives
    <2>2. UNCHANGED server
        BY <1>3, <2>1 DEF Next, vars
    <2> QED
        BY <2>2 DEF server, Polled, Connected
<1> QED
    BY <1>1, <1>2, <1>3

LEMMA SelectNotices == ASSUME Inv, Polled, Select PROVE Noticed
<1>0. TypeOK /\ SlotTable /\ pc = "select"
    BY DEF Inv, Select
<1>1. SUFFICES ASSUME pc' = "scan", NEW s \in Connected, HasNews(Conn(s)) PROVE s \in Ahead'
    BY <1>0 DEF Noticed, Select
<1>2. slots[s] \in Fds /\ s \in Slots /\ Conn(s) \in Conns /\ slots[s] # ListenFd
    BY <1>0, ConnectedFds DEF Connected, SlotTable, Conn, Fds, ListenFd
<1>3. slots[s] \in readset /\ slots[s] <= maxfd /\ maxfd \in Int /\ slots[s] \in Int
    BY <1>0, <1>2, ChatAssumption DEF Polled, TypeOK, Fds, ListenFd
<1>4. slots[s] \in readset'
    BY <1>1, <1>2, <1>3 DEF Select, Readable, HasNews, Conn
<1>5. UNCHANGED slots /\ slot' = 1 /\ pc' # "relay"
    BY <1>1 DEF Select
<1> QED
    BY <1>2, <1>4, <1>5 DEF Ahead, Connected, Slots

LEMMA LoopNotices ==
    ASSUME Inv, [Next]_vars, pc \in {"scan", "relay"}, NEW s \in Ahead
    PROVE  \/ s \in Ahead' /\ slots'[s] = slots[s] /\ Conn(s)' = Conn(s) /\ pc' \in {"scan", "relay"}
           \/ Received(Conn(s)) \/ pc' = "killed"
<1>0. TypeOK /\ SlotTable
    BY DEF Inv
<1> DEFINE c == Conn(s)
           Stays == s \in Ahead' /\ slots'[s] = slots[s] /\ Conn(s)' = c /\ pc' \in {"scan", "relay"}
<1>1. /\ s \in Connected /\ s \in Slots /\ s \in Nat /\ slots[s] \in Fds /\ slots[s] \in readset
      /\ slot \in Nat /\ MaxClients \in Nat
      /\ IF pc = "relay" THEN s > slot ELSE s >= slot
    BY <1>0, ConnectedFds, ChatAssumption DEF Ahead, Connected, Slots, TypeOK
<1>2. c \in Conns /\ \A t \in Connected : t # s => slots[t] # slots[s] /\ Conn(t) # c
    BY <1>0, <1>1, ConnectedFds DEF SlotTable, Conn
<1>3. CASE UNCHANGED <<slots, readset, slot, file>> /\ pc' = pc
    BY <1>1, <1>3 DEF Ahead, Connected, Conn
<1>4. ASSUME NEW t \in Slots, Serve(t), t # s PROVE t < s /\ pc = "scan" /\ t \in Connected
    <2>1. pc = "scan" /\ s \in ReadySlots /\ t \in ReadySlots
        BY <1>1, <1>4 DEF Serve, First, ReadySlots
    <2> QED
        BY <1>1, <1>4, <2>1 DEF Serve, First, ReadySlots, Slots
<1>5. CASE RecvText
    <2>1. PICK t \in Slots, n \in Int :
              /\ Serve(t) /\ slot' = t /\ pc' = "relay" /\ n > 0
              /\ taken' = [taken EXCEPT ![Conn(t)] = @ + n]
              /\ UNCHANGED <<file, slots, readset>>
        <3>1. PICK t \in Slots :
                  /\ Serve(t) /\ Lines(Conn(t)) > 0
                  /\ taken' = [taken EXCEPT ![Conn(t)] = @ +
                         (IF Lines(Conn(t)) < RecvMax THEN Lines(Conn(t)) ELSE RecvMax)]
                  /\ slot' = t /\ pc' = "relay"
                  /\ UNCHANGED <<file, slots, readset>>
            BY <1>5 DEF RecvText, kernel
        <3>2. t \in Connected
            BY <3>1 DEF Serve, First, ReadySlots
        <3>3. Conn(t) \in Conns
            BY <1>0, <3>2 DEF SlotTable, Conn
        <3>4. Lines(Conn(t)) \in Int /\ RecvMax \in Nat \ {0}
            BY <1>0, <3>3, ChatAssumption DEF Lines, TypeOK
        <3> DEFINE m == IF Lines(Conn(t)) < RecvMax THEN Lines(Conn(t)) ELSE RecvMax
        <3>5. m \in Int /\ m > 0
            BY <3>1, <3>4
        <3>6. taken' = [taken EXCEPT ![Conn(t)] = @ + m]
            BY <3>1
        <3> HIDE DEF m
        <3> QED
            BY <3>1, <3>5, <3>6
    <2>2. CASE t = s
        <3>1. taken'[c] = taken[c] + n /\ taken[c] \in Int
            BY <1>0, <1>2, <2>1, <2>2, ChatAssumption DEF TypeOK
        <3> QED
            BY <2>1, <3>1 DEF Received
    <2>3. CASE t # s
        <3>1. s > t
            BY <1>1, <1>4, <2>1, <2>3 DEF Slots
        <3> QED
            BY <1>1, <2>1, <3>1 DEF Ahead, Connected, Conn
    <2> QED
        BY <2>2, <2>3
<1>6. CASE RecvEof
    <2>1. PICK t \in Slots : /\ Serve(t) /\ slot' = t /\ pc' = "relay"
                             /\ slots' = [slots EXCEPT ![t] = 0]
                             /\ UNCHANGED <<file, readset>>
        BY <1>6 DEF RecvEof, kernel
    <2>2. slots'[t] = 0 /\ \A u \in Slots \ {t} : slots'[u] = slots[u]
        BY <1>0, <2>1 DEF TypeOK
    <2>3. CASE t = s
        <3>1. \A u \in Connected' : u \in Connected /\ u # s /\ slots'[u] = slots[u]
            BY <2>2, <2>3 DEF Connected
        <3>2. \A u \in Connected' : Conn(u)' # c
            BY <1>2, <2>1, <3>1 DEF Conn
        <3> QED
            BY <3>2 DEF Received, Room
    <2>4. CASE t # s
        <3>1. s > t
            BY <1>1, <1>4, <2>1, <2>4 DEF Slots
        <3> QED
            BY <1>1, <2>1, <2>2, <2>4, <3>1 DEF Ahead, Connected, Conn
    <2> QED
        BY <2>3, <2>4
<1>7. CASE RecvError
    <2>1. PICK t \in Slots : /\ Serve(t) /\ slot' = t + 1 /\ tcp[Conn(t)] = "rst"
                             /\ tcp' = [tcp EXCEPT ![Conn(t)] = "dead"]
                             /\ UNCHANGED <<file, slots, readset, pc>>
        BY <1>7 DEF RecvError
    <2>2. CASE t = s
        BY <1>0, <1>2, <2>1, <2>2 DEF Received, TypeOK
    <2>3. CASE t # s
        <3>1. s >= t + 1 /\ pc = "scan"
            BY <1>1, <1>4, <2>1, <2>3 DEF Slots
        <3> QED
            BY <1>1, <2>1, <3>1 DEF Ahead, Connected, Conn
    <2> QED
        BY <2>2, <2>3
<1>8. ~ScanDone
    BY <1>1 DEF ScanDone, ReadySlots
<1>9. CASE SentToAll
    <2>1. pc = "relay" /\ pc' = "scan" /\ slot' = slot + 1 /\ UNCHANGED <<file, slots, readset>>
        BY <1>9 DEF SentToAll, kernel
    <2> QED
        BY <1>1, <2>1 DEF Ahead, Connected, Conn
<1>10. CASE SendToOther
    BY <1>3, <1>10 DEF SendToOther, send_message
<1>11. CASE ~Server
    <2>1. ASSUME NEW d \in Conns, Peer(d) PROVE UNCHANGED <<slots, readset, slot, file, pc>>
        BY <2>1 DEF Peer, Connect, Type, Read, HangUp, RstArrives, server
    <2>2. UNCHANGED <<slots, readset, slot, file, pc>>
        BY <1>11, <2>1 DEF Next, vars, server, kernel
    <2> QED
        BY <1>3, <2>2
<1> QED
    BY <1>5, <1>6, <1>7, <1>8, <1>9, <1>10, <1>11
    DEF Server, UpdateReadset, Select, Admit, Refuse, SelectOrAcceptFails, SendHello, SendRefusal, CloseRefused, Join

(* select() is asked about every member, so that it reports each that has      *)
(* something to receive, unless a newcomer is let in first; and in the round   *)
(* that follows none that was reported is passed over: recv() is called on     *)
(* it, however long the relaying to others takes in between, or the server is  *)
(* killed (server4.c 147-178, 205-225, update_readset()).                      *)
THEOREM NobodyPassedOver == Spec => [][Noticed]_vars
<1>1. Init => Inv /\ Polled
    BY InitInv, PolledInit
<1>2. Inv /\ Polled /\ [Next]_vars => Inv' /\ Polled'
    BY NextInv, PolledNext
<1>3. Inv /\ Polled /\ [Next]_vars => [Noticed]_vars
    <2>1. ASSUME Inv, Polled, [Next]_vars PROVE Noticed
        <3>1. CASE Select
            BY <2>1, <3>1, SelectNotices
        <3>2. CASE ~Select
            BY <2>1, <3>2, LoopNotices DEF Noticed
        <3> QED
            BY <3>1, <3>2
    <2> QED
        BY <2>1
<1> QED
    BY <1>1, <1>2, <1>3, PTL DEF Spec
-------------------------------------------------------------------------------
(* What the server waits for.  A send() to c returns at once, or c is there    *)
(* and its buffer full.                                                        *)
Takes(c) ==
    \/ tcp[c] \in {"fin", "finsent", "rst", "dead"}
    \/ tcp[c] = "up" /\ unread[c] < SndBuf

Full(c) == tcp[c] = "up" /\ unread[c] = SndBuf

(* The guards of Server, written out. *)
CallReturns ==
    CASE pc = "select" -> backlog # <<>> \/ \E s \in Connected : HasNews(Conn(s))
      [] pc \in {"hello", "refuse"} -> Takes(file[cfd])
      [] pc \in {"announce", "relay"} ->
            Others = {} \/ \E s \in Slots : First(s, Others) /\ Takes(Conn(s))
      [] pc = "scan" ->
            \/ ReadySlots = {}
            \/ \E s \in Slots :
                  /\ First(s, ReadySlots)
                  /\ Lines(Conn(s)) > 0 \/ tcp[Conn(s)] \in {"fin", "finsent", "rst", "dead"}
      [] OTHER -> pc \in {"update", "accept", "join", "close"}

WaitsForMember ==
    Running => \/ CallReturns
               \/ pc = "select" /\ backlog = <<>> /\ \A s \in Connected : ~HasNews(Conn(s))
               \/ pc \in {"announce", "relay"} /\ \E s \in Slots : First(s, Others) /\ Full(Conn(s))

(* Whoever is open has not been closed by the server, and who has not been     *)
(* answered has been sent nothing.                                             *)
NotOver == \A c \in Conns : InFile(c) \/ InBacklog(c) => tcp[c] # "over"

Unsent ==
    /\ \A c \in Conns : tcp[c] = "idle" \/ InBacklog(c) => unread[c] = 0
    /\ pc \in {"hello", "refuse"} => unread[file[cfd]] = 0

LEMMA LeastNumber ==
    ASSUME NEW S \in SUBSET Nat, S # {}
    PROVE  \E n \in S : First(n, S)
<1> DEFINE Upto == {0 .. n : n \in S}
           Below == StrictSubsetOrdering(Nat)
<1>1. Upto # {} /\ Upto \subseteq FiniteSubsetsOf(Nat)
    <2>1. ASSUME NEW n \in S PROVE 0 .. n \in FiniteSubsetsOf(Nat)
        BY FS_Interval DEF FiniteSubsetsOf
    <2> QED
        BY <2>1
<1>2. PICK x \in Upto : \A y \in Upto : <<y, x>> \notin Below
    <2>1. IsWellFoundedOn(Below, FiniteSubsetsOf(Nat))
        BY FS_StrictSubsetOrderingWellFounded
    <2> HIDE DEF Upto, Below
    <2> QED
        BY <1>1, <2>1, WFMin
<1>3. PICK n \in S : x = 0 .. n
    OBVIOUS
<1>4. ASSUME NEW m \in S, m < n PROVE FALSE
    <2> DEFINE y == 0 .. m
    <2>1. y \in Upto /\ y \in SUBSET Nat /\ x \in SUBSET Nat /\ y \subseteq x /\ n \in x /\ n \notin y
        BY <1>3, <1>4
    <2> HIDE DEF y, Upto, Below
    <2>2. <<y, x>> \in Below
        BY <2>1 DEF Below, StrictSubsetOrdering
    <2> QED
        BY <1>2, <2>1, <2>2
<1> QED
    BY <1>4 DEF First

(* What a step must keep for both. *)
LEMMA FreshKeeps ==
    ASSUME NotOver, Unsent, pc' \notin {"hello", "refuse"},
           \A c \in Conns : InFile(c)' => InFile(c),
           \A c \in Conns : InBacklog(c)' => InBacklog(c),
           \A c \in Conns : tcp'[c] = "over" => tcp[c] = "over" \/ (~InFile(c)' /\ ~InBacklog(c)'),
           \A c \in Conns : tcp'[c] = "idle" => tcp[c] = "idle",
           \A c \in Conns : tcp[c] = "idle" \/ InBacklog(c) => unread'[c] = unread[c]
    PROVE  NotOver' /\ Unsent'
    BY DEF NotOver, Unsent

LEMMA SendFresh ==
    ASSUME Inv, NotOver, Unsent, NEW c \in Conns, InFile(c), NEW next \in PCs \ {"hello", "refuse"},
           send_message(c, next)
    PROVE  NotOver' /\ Unsent'
<1>0. TypeOK /\ OnePlace
    BY DEF Inv
<1>1. tcp[c] # "idle" /\ ~InBacklog(c)
    BY <1>0 DEF OnePlace
<1>2. \A d \in Conns : d # c => unread'[d] = unread[d]
    BY <1>0 DEF send_message, Sent, LostOrFailed, TypeOK
<1>3. \A d \in Conns : (tcp'[d] = "over" => tcp[d] = "over") /\ (tcp'[d] = "idle" => tcp[d] = "idle")
    BY <1>0 DEF send_message, Sent, LostOrFailed, TypeOK
<1>4. UNCHANGED <<file, backlog>> /\ pc' \notin {"hello", "refuse"}
    BY DEF send_message
<1>5. \A d \in Conns : InFile(d)' = InFile(d) /\ InBacklog(d)' = InBacklog(d)
    BY <1>4 DEF InFile, InBacklog
<1> QED
    BY <1>1, <1>2, <1>3, <1>4, <1>5, FreshKeeps

LEMMA ServerFresh == ASSUME Inv, NotOver, Unsent, Server PROVE NotOver' /\ Unsent'
<1>0. TypeOK /\ SlotTable /\ OnePlace /\ InHand
    BY DEF Inv
<1>1. CASE UNCHANGED kernel /\ pc' \notin {"hello", "refuse"}
    BY <1>1 DEF kernel, NotOver, Unsent, InFile, InBacklog
<1>2. CASE Admit \/ Refuse
    <2>1. PICK fd \in Fds, c \in Conns : TakeDescriptor(fd, c)
        BY <1>2 DEF Admit, Refuse
    <2>2. /\ UNCHANGED <<tcp, unread>> /\ cfd' = fd /\ file'[fd] = c
          /\ \A g \in Fds \ {fd} : file'[g] = file[g]
        BY <2>1, AcceptInv DEF TakeDescriptor
    <2>3. InBacklog(c) /\ \A d \in Conns : InBacklog(d)' => InBacklog(d)
        <3>1. backlog \in Seq(Conns) /\ backlog # <<>> /\ c = Head(backlog) /\ backlog' = Tail(backlog)
            BY <1>0, <2>1 DEF TakeDescriptor, TypeOK
        <3>2. /\ Len(backlog) \in Nat \ {0} /\ DOMAIN backlog = 1..Len(backlog)
              /\ DOMAIN backlog' = 1..(Len(backlog) - 1)
              /\ c = backlog[1] /\ \A k \in DOMAIN backlog' : backlog'[k] = backlog[k + 1]
            BY <3>1
        <3>3. \A k \in DOMAIN backlog' : k + 1 \in DOMAIN backlog
            BY <3>2
        <3> QED
            BY <3>2, <3>3 DEF InBacklog
    <2>4. \A d \in Conns : InFile(d)' => InFile(d) \/ d = c
        BY <2>2 DEF InFile
    <2> QED
        BY <2>2, <2>3, <2>4 DEF NotOver, Unsent
<1>3. CASE SendHello \/ SendRefusal
    <2>1. file[cfd] \in Conns /\ InFile(file[cfd])
        BY <1>0, <1>3 DEF SendHello, SendRefusal, InHand, InFile
    <2> QED
        BY <1>3, <2>1, SendFresh DEF SendHello, SendRefusal, PCs
<1>4. CASE SendToOther
    <2>1. PICK s \in Slots : First(s, Others) /\ send_message(Conn(s), pc)
        BY <1>4 DEF SendToOther
    <2>2. Conn(s) \in Conns /\ InFile(Conn(s))
        <3>1. s \in Connected
            BY <2>1 DEF First, Others
        <3> QED
            BY <1>0, <3>1, ConnectedFds DEF SlotTable, Conn, InFile
    <2>3. pc \in {"announce", "relay"}
        BY <1>4 DEF SendToOther
    <2> QED
        BY <2>1, <2>2, <2>3, SendFresh DEF PCs
<1>5. CASE CloseRefused
    <2>0. PICK c \in Conns : c = file[cfd]
        BY <1>0, <1>5 DEF CloseRefused, InHand
    <2>1. cfd \in Fds /\ file[cfd] = c /\ InFile(c) /\ ~InBacklog(c)
        BY <1>0, <1>5, <2>0 DEF CloseRefused, InHand, InFile, OnePlace
    <2>2. /\ tcp'[c] = "over" /\ \A d \in Conns \ {c} : tcp'[d] = tcp[d] /\ unread'[d] = unread[d]
          /\ pc' = "update" /\ UNCHANGED backlog
          /\ file'[cfd] = NoConn /\ \A g \in Fds \ {cfd} : file'[g] = file[g]
        BY <1>0, <1>5, <2>1 DEF CloseRefused, TypeOK
    <2>3. tcp[c] # "idle"
        BY <1>0, <2>1 DEF OnePlace
    <2>4. \A d \in Conns : InBacklog(d)' = InBacklog(d)
        BY <2>2 DEF InBacklog
    <2>5. (\A d \in Conns : InFile(d)' => InFile(d)) /\ ~InFile(c)'
        BY <1>0, <2>1, <2>2, ChatAssumption DEF InFile, SlotTable
    <2> QED
        BY <2>1, <2>2, <2>3, <2>4, <2>5, FreshKeeps
<1>6. CASE RecvError
    <2>1. PICK s \in Slots : /\ Serve(s) /\ tcp' = [tcp EXCEPT ![Conn(s)] = "dead"]
                             /\ UNCHANGED <<unread, backlog, file, pc>>
        BY <1>6 DEF RecvError
    <2>2. pc = "scan"
        BY <2>1 DEF Serve
    <2>3. \A c \in Conns : (tcp'[c] = "over" => tcp[c] = "over") /\ (tcp'[c] = "idle" => tcp[c] = "idle")
        BY <1>0, <2>1 DEF TypeOK
    <2>4. \A c \in Conns : InFile(c)' = InFile(c) /\ InBacklog(c)' = InBacklog(c)
        BY <2>1 DEF InFile, InBacklog
    <2> QED
        BY <2>1, <2>2, <2>3, <2>4, FreshKeeps
<1>7. UpdateReadset \/ Select \/ SelectOrAcceptFails \/ Join \/ SentToAll \/ RecvText \/ RecvEof \/ ScanDone
      => UNCHANGED kernel /\ pc' \notin {"hello", "refuse"}
    BY DEF UpdateReadset, Select, SelectOrAcceptFails, Join, SentToAll, RecvText, RecvEof, ScanDone, kernel
<1> QED
    BY <1>1, <1>2, <1>3, <1>4, <1>5, <1>6, <1>7 DEF Server

LEMMA PeerFresh == ASSUME Inv, NotOver, Unsent, NEW c \in Conns, Peer(c) PROVE NotOver' /\ Unsent'
<1>0. TypeOK /\ OnePlace /\ InHand
    BY DEF Inv
<1>1. UNCHANGED <<file, pc, cfd>> /\ \A d \in Conns : InFile(d)' = InFile(d)
    BY DEF Peer, Connect, Type, Read, HangUp, RstArrives, server, InFile
<1>2. \A d \in Conns : InBacklog(d)' => InBacklog(d) \/ (d = c /\ Connect(c))
    <2>1. CASE Connect(c)
        <3>1. /\ backlog \in Seq(Conns) /\ backlog' = Append(backlog, c)
            BY <1>0, <2>1 DEF Connect, TypeOK
        <3>2. /\ Len(backlog) \in Nat /\ DOMAIN backlog = 1..Len(backlog)
              /\ DOMAIN backlog' = 1..(Len(backlog) + 1)
              /\ backlog'[Len(backlog) + 1] = c /\ \A k \in 1..Len(backlog) : backlog'[k] = backlog[k]
            BY <3>1
        <3> QED
            BY <2>1, <3>2 DEF InBacklog
    <2>2. CASE ~Connect(c)
        BY <2>2 DEF Peer, Type, Read, HangUp, RstArrives, InBacklog
    <2> QED
        BY <2>1, <2>2
<1>3. \A d \in Conns : tcp'[d] = "over" => tcp[d] = "over"
    BY <1>0 DEF Peer, Connect, Type, Read, HangUp, RstArrives, TypeOK
<1>4. \A d \in Conns : tcp'[d] = "idle" => tcp[d] = "idle"
    BY <1>0 DEF Peer, Connect, Type, Read, HangUp, RstArrives, TypeOK
<1>5. \A d \in Conns : unread'[d] = unread[d] \/ unread'[d] = 0
    BY <1>0 DEF Peer, Connect, Type, Read, HangUp, RstArrives, TypeOK
<1>6. Connect(c) => tcp[c] = "idle" /\ tcp'[c] # "over"
    BY <1>0 DEF Connect, TypeOK
<1>7. pc \in {"hello", "refuse"} => file[cfd] \in Conns
    BY <1>0 DEF InHand
<1>8. NotOver'
    BY <1>1, <1>2, <1>3, <1>6 DEF NotOver
<1>9. Unsent'
    BY <1>1, <1>2, <1>4, <1>5, <1>6, <1>7 DEF Unsent
<1> QED
    BY <1>8, <1>9

LEMMA WaitsOnlySo ==
    ASSUME Inv, Reported, NotOver, Unsent
    PROVE  WaitsForMember
<1>0. TypeOK /\ SlotTable /\ OnePlace /\ InHand /\ SndBuf \in Nat \ {0}
    BY ChatAssumption DEF Inv
<1> SUFFICES ASSUME Running
             PROVE  \/ CallReturns
                    \/ pc = "select" /\ backlog = <<>> /\ \A s \in Connected : ~HasNews(Conn(s))
                    \/ pc \in {"announce", "relay"} /\ \E s \in Slots : First(s, Others) /\ Full(Conn(s))
    BY DEF WaitsForMember
<1>1. ASSUME NEW c \in Conns, InFile(c)
      PROVE  /\ tcp[c] \in {"up", "fin", "finsent", "rst", "dead"} /\ unread[c] \in 0..SndBuf
             /\ Takes(c) \/ Full(c)
    BY <1>0, <1>1 DEF NotOver, OnePlace, TypeOK, States, Takes, Full
<1>2. \A s \in Connected : s \in Slots /\ Conn(s) \in Conns /\ InFile(Conn(s))
    BY <1>0, ConnectedFds DEF Connected, SlotTable, Conn, InFile
<1>3. Slots \in SUBSET Nat
    BY DEF Slots
<1>4. CASE pc \in {"update", "accept", "join", "close", "select"}
    BY <1>4 DEF CallReturns
<1>5. CASE pc \in {"hello", "refuse"}
    <2>1. file[cfd] \in Conns /\ InFile(file[cfd]) /\ unread[file[cfd]] = 0
        BY <1>0, <1>5 DEF InHand, InFile, Unsent
    <2>2. Takes(file[cfd])
        BY <1>0, <1>1, <2>1 DEF Full
    <2> QED
        BY <1>5, <2>2 DEF CallReturns
<1>6. CASE pc \in {"announce", "relay"}
    <2>1. CASE Others = {}
        BY <1>6, <2>1 DEF CallReturns
    <2>2. CASE Others # {}
        <3>1. Others \in SUBSET Nat
            BY <1>3 DEF Others, Connected
        <3>2. PICK s \in Others : First(s, Others)
            BY <2>2, <3>1, LeastNumber
        <3>3. s \in Slots /\ (Takes(Conn(s)) \/ Full(Conn(s)))
            BY <1>1, <1>2 DEF Others
        <3> QED
            BY <1>6, <3>2, <3>3 DEF CallReturns
    <2> QED
        BY <2>1, <2>2
<1>7. CASE pc = "scan"
    <2>1. CASE ReadySlots = {}
        BY <1>7, <2>1 DEF CallReturns
    <2>2. CASE ReadySlots # {}
        <3>1. ReadySlots \in SUBSET Nat
            BY <1>3 DEF ReadySlots, Connected
        <3>2. PICK s \in ReadySlots : First(s, ReadySlots)
            BY <2>2, <3>1, LeastNumber
        <3>3. s \in Connected /\ s >= slot /\ slots[s] \in readset
            BY DEF ReadySlots
        <3>4. Lines(Conn(s)) > 0 \/ Gone(Conn(s))
            BY <1>7, <3>3 DEF Reported, Ready, Conn
        <3>5. s \in Slots /\ (Lines(Conn(s)) > 0 \/ tcp[Conn(s)] \in {"fin", "finsent", "rst", "dead"})
            BY <1>1, <1>2, <3>3, <3>4 DEF Gone
        <3> QED
            BY <1>7, <3>2, <3>5 DEF CallReturns
    <2> QED
        BY <2>1, <2>2
<1> QED
    BY <1>0, <1>4, <1>5, <1>6, <1>7 DEF TypeOK, PCs, Running

(* The server waits in select() when nobody has anything for it, and otherwise *)
(* only in the send() of an announcement or of a message, to a member who is   *)
(* there and does not read: a newcomer, a client that has left, and a recv()   *)
(* or accept() never hold it up (server4.c 76-82, 89-113, 147-178, 205-225).   *)
THEOREM OnlyMembersHoldUp == Spec => []WaitsForMember
<1> DEFINE J == Inv /\ Reported /\ NotOver /\ Unsent
<1>1. Init => J
    BY InitInv DEF Init, Reported, NotOver, Unsent
<1>2. J /\ [Next]_vars => J'
    <2> SUFFICES ASSUME J, [Next]_vars PROVE J'
        OBVIOUS
    <2>1. Inv'
        BY NextInv
    <2>2. CASE Server
        BY <2>1, <2>2, ServerReported, ServerFresh
    <2>3. ASSUME NEW c \in Conns, Peer(c) PROVE J'
        BY <2>1, <2>3, PeerReported, PeerFresh
    <2>4. CASE UNCHANGED vars
        BY <2>1, <2>4 DEF vars, kernel, server, Reported, Connected, Ready, Lines, Gone,
           NotOver, Unsent, InFile, InBacklog
    <2> QED
        BY <2>2, <2>3, <2>4 DEF Next
<1>3. J => WaitsForMember
    BY WaitsOnlySo
<1> HIDE DEF J
<1> QED
    BY <1>1, <1>2, <1>3, PTL DEF Spec
===============================================================================

--------------------------- MODULE HttpServerProofs ---------------------------
(***************************************************************************)
(* Theorems about HttpServer for any number of connections, descriptors    *)
(* and pieces.  At most one thread lives at a time, the one main() is      *)
(* about to join; everything else follows from that: a connection in the   *)
(* descriptor table is that thread's, and where the thread has closed it,  *)
(* nobody else can have taken the number.                                  *)
(***************************************************************************)
EXTENDS HttpServer, TLAPS

Live(c) == tpc[c] \notin {"none", "ended"}

OneThread ==
    \A c \in Conns : Live(c) => /\ tid = c /\ c \notin joined /\ mpc \in {"join", "killed"}
                                /\ connfd[c] \in Fds

JoinedEnded == \A c \in Conns : c \in joined => tpc[c] = "ended"

(* The only connection in the table is that of the thread that lives. *)
Holder ==
    \A fd \in Fds : file[fd] \in Conns => Live(file[fd]) /\ connfd[file[fd]] = fd

(* The descriptor of the thread, by where the thread is. *)
Held ==
    \A c \in Conns :
        /\ tpc[c] \in {"recv", "fopen", "sendheader", "stream"} => Object(c) = c
        /\ tpc[c] \in {"opendir", "sendpage", "close"} =>
              \/ Object(c) = c
              \/ tcp[c] = "over" /\ Object(c) \in {Nothing, "dir"}

Tables ==
    /\ tcp \in [Conns -> States]
    /\ unread \in [Conns -> 0..SndBuf]
    /\ file \in [Fds -> Conns \cup {"dir", "image", Nothing}]
    /\ mpc \in {"accept", "join", "killed", "crashed", "hung"}
    /\ tid \in Conns \cup {Nothing}
    /\ tpc \in [Conns -> TPCs]
    /\ connfd \in [Conns -> Fds \cup {0}]
    /\ heard \in [Conns -> SUBSET Conns]

Inv == Tables /\ OneThread /\ JoinedEnded /\ Holder /\ Held /\ OwnAnswers

LEMMA InitInv == Init => Inv
<1> SUFFICES ASSUME Init PROVE Inv
    OBVIOUS
<1>1. Tables
    BY HttpAssumption DEF Init, Tables, States, TPCs
<1>2. OneThread /\ JoinedEnded /\ Held
    BY DEF Init, OneThread, JoinedEnded, Held, Live
<1>3. Holder /\ OwnAnswers
    BY HttpAssumption DEF Init, Holder, OwnAnswers
<1> QED
    BY <1>1, <1>2, <1>3 DEF Inv

(* Nothing is alive while main() accepts or has nothing to join. *)
LEMMA NobodyLives ==
    ASSUME Inv, mpc = "accept" \/ tid \notin Conns \ joined
    PROVE  /\ \A c \in Conns : ~Live(c)
           /\ \A fd \in Fds : file[fd] \notin Conns
    BY DEF Inv, OneThread, Holder

LEMMA BrowserInv == ASSUME Inv, NEW c \in Conns, Browser(c) PROVE Inv'
<1>0. Tables /\ OneThread /\ JoinedEnded /\ Holder /\ Held /\ OwnAnswers
    BY DEF Inv
<1>1. UNCHANGED <<file, main, tpc, connfd, heard>>
    BY DEF Browser, Connect, Ask, Read, HangUp, RstArrives, threads, history
<1>2. /\ tcp' \in [Conns -> States]
      /\ \A d \in Conns : tcp[d] = "over" => tcp'[d] = "over"
    BY <1>0 DEF Browser, Connect, Ask, Read, HangUp, RstArrives, Tables, States
<1>3. unread' \in [Conns -> 0..SndBuf]
    BY <1>0, HttpAssumption DEF Browser, Connect, Ask, Read, HangUp, RstArrives, Tables
<1> QED
    BY <1>0, <1>1, <1>2, <1>3
    DEF Inv, Tables, OneThread, JoinedEnded, Holder, Held, OwnAnswers, Live, Object, main

LEMMA AcceptInv == Inv /\ Accept => Inv'
<1> SUFFICES ASSUME Inv, Accept PROVE Inv'
    OBVIOUS
<1>0. Tables /\ OneThread /\ JoinedEnded /\ Holder /\ Held /\ OwnAnswers
    BY DEF Inv
<1>1. PICK c \in Conns, fd \in Fds :
          /\ tpc[c] = "none"
          /\ Lowest(fd, Free)
          /\ file' = [file EXCEPT ![fd] = c]
          /\ connfd' = [connfd EXCEPT ![c] = fd]
          /\ tpc' = [tpc EXCEPT ![c] = "recv"]
          /\ tid' = c
    BY DEF Accept, Waiting
<1>2. mpc = "accept" /\ mpc' = "join" /\ UNCHANGED <<tcp, unread, joined, heard>>
    BY DEF Accept, history
<1>3. (\A d \in Conns : ~Live(d)) /\ \A g \in Fds : file[g] \notin Conns
    BY <1>2, NobodyLives
<1>4. \A d \in Conns \ {c} : tpc'[d] = tpc[d] /\ ~Live(d)'
    BY <1>0, <1>1, <1>3 DEF Tables, Live
<1>5. tpc'[c] = "recv" /\ connfd'[c] = fd /\ file'[fd] = c
      /\ \A g \in Fds \ {fd} : file'[g] = file[g]
    BY <1>0, <1>1 DEF Tables
<1>6. c \notin joined
    BY <1>0, <1>1 DEF JoinedEnded
<1>7. Tables'
    BY <1>0, <1>1, <1>2 DEF Tables, TPCs
<1>8. OneThread' /\ JoinedEnded'
    BY <1>0, <1>1, <1>2, <1>4, <1>5, <1>6 DEF OneThread, JoinedEnded
<1>9. Holder'
    BY <1>3, <1>5 DEF Holder, Live
<1>10. Held'
    BY <1>4, <1>5 DEF Held, Live, Object
<1> QED
    BY <1>0, <1>2, <1>7, <1>8, <1>9, <1>10 DEF Inv, OwnAnswers

LEMMA MainInv == Inv /\ (AcceptFails \/ Join \/ JoinStale) => Inv'
<1> SUFFICES ASSUME Inv, AcceptFails \/ Join \/ JoinStale PROVE Inv'
    OBVIOUS
<1>0. Tables /\ OneThread /\ JoinedEnded /\ Holder /\ Held /\ OwnAnswers
    BY DEF Inv
<1>1. \A c \in Conns : ~Live(c)
    <2>1. CASE AcceptFails \/ JoinStale
        BY <2>1, NobodyLives DEF AcceptFails, JoinStale
    <2>2. CASE Join
        BY <1>0, <2>2 DEF Join, OneThread, Live
    <2> QED
        BY <2>1, <2>2
<1>2. /\ UNCHANGED <<unread, file, tid, tpc, connfd, heard>>
      /\ mpc' \in {"accept", "join", "crashed", "hung"}
    BY DEF AcceptFails, Join, JoinStale, kernel, threads, history
<1>4. tcp' \in [Conns -> States]
    BY <1>0 DEF AcceptFails, Join, JoinStale, kernel, Tables, States
<1>3. JoinedEnded'
    BY <1>0 DEF AcceptFails, Join, JoinStale, JoinedEnded, threads
<1>5. Held'
    BY <1>0, <1>1, <1>2 DEF Tables, TPCs, Held, Live
<1> QED
    BY <1>0, <1>1, <1>2, <1>3, <1>4, <1>5 DEF Inv, Tables, OneThread, Holder, OwnAnswers, Live

(* A thread moves on and the table keeps its connections: what remains to be   *)
(* shown is what its descriptor denotes.                                       *)
LEMMA ThreadMoves ==
    ASSUME Inv, NEW c \in Conns, NEW from \in TPCs \ {"none", "ended"}, NEW to \in TPCs \ {"none"},
           tpc[c] = from, tpc' = [tpc EXCEPT ![c] = to],
           UNCHANGED <<connfd, joined, tid>>, mpc' \in {mpc, "killed"}
    PROVE  /\ OneThread' /\ JoinedEnded'
           /\ tpc' \in [Conns -> TPCs] /\ tpc'[c] = to
           /\ \A d \in Conns \ {c} : tpc'[d] = tpc[d] /\ ~Live(d) /\ ~Live(d)'
           /\ connfd[c] \in Fds /\ mpc \in {"join", "killed"}
<1>0. Tables /\ OneThread /\ JoinedEnded
    BY DEF Inv
<1>1. Live(c)
    BY DEF Live
<1>2. tid = c /\ c \notin joined /\ mpc \in {"join", "killed"} /\ connfd[c] \in Fds
    BY <1>0, <1>1 DEF OneThread
<1>3. tpc' \in [Conns -> TPCs] /\ tpc'[c] = to /\ \A d \in Conns \ {c} : tpc'[d] = tpc[d]
    BY <1>0 DEF Tables
<1>4. \A d \in Conns \ {c} : ~Live(d) /\ ~Live(d)'
    BY <1>0, <1>2, <1>3 DEF OneThread, Live
<1>5. OneThread'
    BY <1>2, <1>4 DEF OneThread
<1>6. JoinedEnded'
    BY <1>0, <1>2, <1>3 DEF JoinedEnded
<1> QED
    BY <1>2, <1>3, <1>4, <1>5, <1>6

(* The descriptor of a thread that lives. *)
LEMMA ObjectOf ==
    ASSUME Inv, NEW c \in Conns, Live(c)
    PROVE  /\ connfd[c] \in Fds
           /\ Object(c) = c \/ (tcp[c] = "over" /\ Object(c) \in {Nothing, "dir"})
           /\ Object(c) \in Conns => Object(c) = c
           /\ \A fd \in Fds : file[fd] \in Conns => fd = connfd[c] /\ file[fd] = c
<1>0. Tables /\ OneThread /\ Holder /\ Held
    BY DEF Inv
<1>1. tpc[c] \in {"recv", "opendir", "sendpage", "fopen", "sendheader", "stream", "close"}
    BY <1>0 DEF Tables, TPCs, Live
<1>2. Object(c) = c \/ (tcp[c] = "over" /\ Object(c) \in {Nothing, "dir"})
    BY <1>0, <1>1 DEF Held
<1>3. \A fd \in Fds : file[fd] \in Conns => fd = connfd[c] /\ file[fd] = c
    BY <1>0 DEF Holder, OneThread
<1> QED
    BY <1>0, <1>2, <1>3, HttpAssumption DEF OneThread

LEMMA SendKeeps ==
    ASSUME Inv, NEW c \in Conns, Live(c), send(c) \/ SendNothing(c)
    PROVE  /\ tcp' \in [Conns -> States] /\ unread' \in [Conns -> 0..SndBuf]
           /\ heard' \in [Conns -> SUBSET Conns] /\ OwnAnswers'
           /\ \A d \in Conns : tcp[d] = "over" => tcp'[d] = "over"
           /\ mpc' \in {mpc, "killed"}
           /\ UNCHANGED <<file, connfd, tid, joined>>
<1>0. Tables /\ OwnAnswers /\ UNCHANGED <<file, connfd>>
    BY DEF Inv, send, SendNothing
<1>1. CASE \E o \in Conns : o = Object(c) /\ Delivered(c, o)
    <2>1. Delivered(c, c)
        BY <1>1, ObjectOf
    <2>2. heard' = [heard EXCEPT ![c] = heard[c] \cup {c}]
        BY <2>1 DEF Delivered
    <2>3. heard' \in [Conns -> SUBSET Conns] /\ OwnAnswers'
        BY <1>0, <2>2 DEF Tables, OwnAnswers
    <2>4. unread' \in [Conns -> 0..SndBuf]
        BY <1>0, <2>1, HttpAssumption DEF Delivered, Tables
    <2> QED
        BY <1>0, <2>1, <2>3, <2>4 DEF Delivered, Tables, main
<1>2. CASE \E o \in Conns : o = Object(c) /\ NotDelivered(c, o)
    <2>1. UNCHANGED <<unread, heard, main>>
        BY <1>2 DEF NotDelivered
    <2>2. tcp' \in [Conns -> States] /\ \A d \in Conns : tcp[d] = "over" => tcp'[d] = "over"
        BY <1>0, <1>2 DEF NotDelivered, Tables, States
    <2> QED
        BY <1>0, <2>1, <2>2 DEF Tables, main, OwnAnswers
<1>3. CASE \E o \in Conns : o = Object(c) /\ Sigpipe(o)
    BY <1>0, <1>3 DEF Sigpipe, Tables, OwnAnswers
<1>4. CASE UNCHANGED <<tcp, unread, heard, main>>
    BY <1>0, <1>4 DEF Tables, main, OwnAnswers
<1> QED
    BY <1>1, <1>2, <1>3, <1>4 DEF send, SendNothing

LEMMA SendersInv ==
    ASSUME Inv, NEW c \in Conns, SendPage(c) \/ SendHeader(c) \/ Stream(c) \/ StreamFolder(c)
    PROVE  Inv'
<1>0. Tables /\ Holder /\ Held
    BY DEF Inv
<1>1. PICK from \in {"sendpage", "sendheader", "stream"}, to \in {"close", "stream"} :
          /\ Step(c, from, to) /\ (send(c) \/ SendNothing(c))
          /\ to = "stream" => from # "sendpage"
    BY DEF SendPage, SendHeader, Stream, StreamFolder
<1>2. Live(c)
    BY <1>1 DEF Step, Live
<1>3. /\ from \in TPCs \ {"none", "ended"} /\ to \in TPCs \ {"none"}
      /\ tpc[c] = from /\ tpc' = [tpc EXCEPT ![c] = to]
    BY <1>1 DEF TPCs, Step
<1>4. /\ tcp' \in [Conns -> States] /\ unread' \in [Conns -> 0..SndBuf]
      /\ heard' \in [Conns -> SUBSET Conns] /\ OwnAnswers'
      /\ \A d \in Conns : tcp[d] = "over" => tcp'[d] = "over"
      /\ mpc' \in {mpc, "killed"}
      /\ UNCHANGED <<file, connfd, tid, joined>>
    BY <1>1, <1>2, SendKeeps
<1>5. /\ OneThread' /\ JoinedEnded'
      /\ tpc' \in [Conns -> TPCs] /\ tpc'[c] = to
      /\ \A d \in Conns \ {c} : tpc'[d] = tpc[d] /\ ~Live(d) /\ ~Live(d)'
    BY <1>3, <1>4, ThreadMoves
<1>6. Tables'
    BY <1>0, <1>4, <1>5 DEF Tables
<1>7. Holder'
    BY <1>0, <1>1, <1>4, <1>5 DEF Holder, Live
<1>8. Held'
    BY <1>0, <1>1, <1>3, <1>4, <1>5 DEF Held, Live, Object
<1> QED
    BY <1>4, <1>5, <1>6, <1>7, <1>8 DEF Inv

LEMMA CloseKeeps ==
    ASSUME Inv, NEW c \in Conns, Live(c), Close(c)
    PROVE  /\ tcp' \in [Conns -> States] /\ unread' \in [Conns -> 0..SndBuf]
           /\ file' \in [Fds -> Conns \cup {"dir", "image", Nothing}]
           /\ file'[connfd[c]] = Nothing
           /\ \A fd \in Fds : file'[fd] \notin Conns
           /\ tcp'[c] = "over"
<1>0. Tables
    BY DEF Inv
<1>1. /\ file' \in [Fds -> Conns \cup {"dir", "image", Nothing}]
      /\ file'[connfd[c]] = Nothing
      /\ \A fd \in Fds \ {connfd[c]} : file'[fd] = file[fd]
    BY <1>0, ObjectOf DEF Close, Tables
<1>2. \A fd \in Fds : file'[fd] \notin Conns
    BY <1>1, ObjectOf, HttpAssumption
<1>3. CASE Object(c) \in Conns
    <2>1. Object(c) = c
        BY <1>3, ObjectOf
    <2>2. tcp' = [tcp EXCEPT ![c] = "over"] /\ unread' = [unread EXCEPT ![c] = 0]
        BY <1>3, <2>1 DEF Close
    <2> QED
        BY <1>0, <1>1, <1>2, <2>2, HttpAssumption DEF Tables, States
<1>4. CASE Object(c) \notin Conns
    <2>1. tcp[c] = "over" /\ UNCHANGED <<tcp, unread>>
        BY <1>4, ObjectOf DEF Close
    <2> QED
        BY <1>0, <1>1, <1>2, <2>1 DEF Tables
<1> QED
    BY <1>3, <1>4

LEMMA CloseInv ==
    ASSUME Inv, NEW c \in Conns, RecvFails(c) \/ CloseConnection(c)
    PROVE  Inv'
<1>0. Tables /\ Holder /\ Held /\ OwnAnswers
    BY DEF Inv
<1>1. PICK from \in {"recv", "close"}, to \in {"opendir", "ended"} :
          Step(c, from, to) /\ Close(c)
    BY DEF RecvFails, CloseConnection
<1>2. Live(c)
    BY <1>1 DEF Step, Live
<1>3. /\ from \in TPCs \ {"none", "ended"} /\ to \in TPCs \ {"none"}
      /\ tpc[c] = from /\ tpc' = [tpc EXCEPT ![c] = to]
    BY <1>1 DEF TPCs, Step
<1>4. UNCHANGED <<main, connfd, heard>>
    BY DEF RecvFails, CloseConnection, history
<1>5. /\ tcp' \in [Conns -> States] /\ unread' \in [Conns -> 0..SndBuf]
      /\ file' \in [Fds -> Conns \cup {"dir", "image", Nothing}]
      /\ file'[connfd[c]] = Nothing
      /\ \A fd \in Fds : file'[fd] \notin Conns
      /\ tcp'[c] = "over"
    BY <1>1, <1>2, CloseKeeps
<1>6. /\ OneThread' /\ JoinedEnded'
      /\ tpc' \in [Conns -> TPCs] /\ tpc'[c] = to
      /\ \A d \in Conns \ {c} : tpc'[d] = tpc[d] /\ ~Live(d) /\ ~Live(d)'
    BY <1>3, <1>4, ThreadMoves DEF main
<1>7. Tables'
    BY <1>0, <1>4, <1>5, <1>6 DEF Tables, main
<1>8. Holder' /\ Held'
    BY <1>4, <1>5, <1>6 DEF Holder, Held, Live, Object
<1>9. OwnAnswers'
    BY <1>0, <1>4 DEF OwnAnswers
<1> QED
    BY <1>6, <1>7, <1>8, <1>9 DEF Inv

LEMMA OpenKeeps ==
    ASSUME Inv, NEW c \in Conns, Live(c), NEW what \in {"dir", "image"}, Open(what)
    PROVE  /\ file' \in [Fds -> Conns \cup {"dir", "image", Nothing}]
           /\ \A fd \in Fds : file'[fd] = file[fd] \/ (file[fd] = Nothing /\ file'[fd] = what)
           /\ \A fd \in Fds : file'[fd] \in Conns => file'[fd] = file[fd]
<1>0. Tables
    BY DEF Inv
<1>1. PICK fd \in Fds : file[fd] = Nothing /\ file' = [file EXCEPT ![fd] = what]
    BY DEF Open, Lowest, Free
<1> QED
    BY <1>0, <1>1, HttpAssumption DEF Tables

LEMMA OpenersInv ==
    ASSUME Inv, NEW c \in Conns, OpenDir(c) \/ Fopen(c)
    PROVE  Inv'
<1>0. Tables /\ Holder /\ Held /\ OwnAnswers
    BY DEF Inv
<1>1. PICK from \in {"opendir", "fopen"}, to \in {"sendpage", "sendheader"} :
          /\ Step(c, from, to)
          /\ from = "opendir" <=> to = "sendpage"
    BY DEF OpenDir, Fopen
<1>2. Live(c)
    BY <1>1 DEF Step, Live
<1>3. /\ from \in TPCs \ {"none", "ended"} /\ to \in TPCs \ {"none"}
      /\ tpc[c] = from /\ tpc' = [tpc EXCEPT ![c] = to]
    BY <1>1 DEF TPCs, Step
<1>4. UNCHANGED <<tcp, unread, main, connfd, heard>>
    BY DEF OpenDir, Fopen, history
<1>5. (from = "opendir" /\ Open("dir")) \/ (from = "fopen" /\ Open("image")) \/ UNCHANGED file
    BY <1>1 DEF OpenDir, Fopen, Step
<1>6. /\ file' \in [Fds -> Conns \cup {"dir", "image", Nothing}]
      /\ \A fd \in Fds : file'[fd] \in Conns => file'[fd] = file[fd]
      /\ \A fd \in Fds : file'[fd] = file[fd]
                          \/ (file[fd] = Nothing /\ file'[fd] = IF from = "opendir" THEN "dir" ELSE "image")
    BY <1>0, <1>2, <1>5, OpenKeeps DEF Tables
<1>7. /\ OneThread' /\ JoinedEnded'
      /\ tpc' \in [Conns -> TPCs] /\ tpc'[c] = to
      /\ \A d \in Conns \ {c} : tpc'[d] = tpc[d] /\ ~Live(d) /\ ~Live(d)'
    BY <1>3, <1>4, ThreadMoves DEF main
<1>8. Tables'
    BY <1>0, <1>4, <1>6, <1>7 DEF Tables, main
<1>9. Holder'
    BY <1>0, <1>1, <1>4, <1>6, <1>7 DEF Holder, Live
<1>10. Held'
    <2>1. connfd[c] \in Fds /\ connfd' = connfd /\ tcp' = tcp
        BY <1>2, <1>4, ObjectOf
    <2>2. CASE from = "opendir"
        <3>1. Object(c) = c \/ (tcp[c] = "over" /\ Object(c) \in {Nothing, "dir"})
            BY <1>2, ObjectOf
        <3>2. Object(c)' = Object(c) \/ (Object(c) = Nothing /\ Object(c)' = "dir")
            BY <1>6, <2>1, <2>2 DEF Object
        <3>3. Object(c)' = c \/ (tcp'[c] = "over" /\ Object(c)' \in {Nothing, "dir"})
            BY <2>1, <3>1, <3>2, HttpAssumption
        <3> QED
            BY <1>1, <1>7, <2>2, <3>3 DEF Held, Live
    <2>3. CASE from = "fopen"
        <3>1. Object(c) = c
            BY <1>0, <1>3, <2>3 DEF Held
        <3>2. Object(c)' = c
            BY <1>6, <2>1, <3>1, HttpAssumption DEF Object
        <3> QED
            BY <1>1, <1>7, <2>3, <3>2 DEF Held, Live
    <2> QED
        BY <1>1, <2>2, <2>3
<1>11. OwnAnswers'
    BY <1>0, <1>4 DEF OwnAnswers
<1> QED
    BY <1>7, <1>8, <1>9, <1>10, <1>11 DEF Inv

LEMMA RecvRequestInv ==
    ASSUME Inv, NEW c \in Conns, RecvRequest(c)
    PROVE  Inv'
<1>0. Tables /\ Holder /\ Held /\ OwnAnswers
    BY DEF Inv
<1>1. PICK to \in {"opendir", "fopen"} : Step(c, "recv", to)
    BY DEF RecvRequest
<1>2. Live(c) /\ Object(c) = c
    BY <1>0, <1>1 DEF Step, Live, Held
<1>3. /\ "recv" \in TPCs \ {"none", "ended"} /\ to \in TPCs \ {"none"}
      /\ tpc[c] = "recv" /\ tpc' = [tpc EXCEPT ![c] = to]
    BY <1>1 DEF TPCs, Step
<1>4. UNCHANGED <<tcp, unread, file, main, connfd, heard>>
    BY DEF RecvRequest, history
<1>5. /\ OneThread' /\ JoinedEnded'
      /\ tpc' \in [Conns -> TPCs] /\ tpc'[c] = to
      /\ \A d \in Conns \ {c} : tpc'[d] = tpc[d] /\ ~Live(d) /\ ~Live(d)'
    BY <1>3, <1>4, ThreadMoves DEF main
<1>6. Tables'
    BY <1>0, <1>4, <1>5 DEF Tables, main
<1>7. Holder'
    BY <1>0, <1>4, <1>5 DEF Holder, Live
<1>8. Held'
    BY <1>2, <1>4, <1>5 DEF Held, Live, Object
<1> QED
    BY <1>0, <1>4, <1>5, <1>6, <1>7, <1>8 DEF Inv, OwnAnswers
-------------------------------------------------------------------------------
LEMMA StepInv == Inv /\ [Next]_vars => Inv'
<1> SUFFICES ASSUME Inv, [Next]_vars PROVE Inv'
    OBVIOUS
<1>1. CASE Main
    BY <1>1, AcceptInv, MainInv DEF Main
<1>2. ASSUME NEW c \in Conns, Thread(c) PROVE Inv'
    BY <1>2, RecvRequestInv, CloseInv, OpenersInv, SendersInv DEF Thread
<1>3. ASSUME NEW c \in Conns, Browser(c) PROVE Inv'
    BY <1>3, BrowserInv
<1>4. CASE UNCHANGED vars
    BY <1>4 DEF vars, kernel, main, threads, history, Inv, Tables, OneThread, JoinedEnded,
       Holder, Held, OwnAnswers, Live, Object
<1> QED
    BY <1>1, <1>2, <1>3, <1>4 DEF Next

LEMMA Invariance == Spec => []Inv
    BY InitInv, StepInv, PTL DEF Spec

(* However many browsers there are and whatever fails, a browser receives      *)
(* nothing that another browser's thread sent (server5.c 239-246, 337-345).    *)
THEOREM AnswersStayApart == Spec => []OwnAnswers
<1>1. Inv => OwnAnswers
    BY DEF Inv
<1> QED
    BY <1>1, Invariance, PTL

(* No thread closes or writes to a connection that main() gave to another one  *)
(* (server5.c 239-246, 345).                                                   *)
THEOREM ConnectionsKept == Spec => []KeepsConnection
<1>1. Inv => KeepsConnection
    BY ObjectOf DEF KeepsConnection, Live
<1> QED
    BY <1>1, Invariance, PTL
-------------------------------------------------------------------------------
(* A descriptor is free whenever main() is about to accept.  While a thread    *)
(* lives that need not be so; but what it opens it opens beside its own        *)
(* descriptor, which is free when it ends.                                     *)
FreeForAccept ==
    mpc = "accept" \/ (mpc = "join" /\ \A c \in Conns : ~Live(c)) => Free # {}

AcceptInvariant == Inv /\ FreeForAccept

LEMMA ThreadKeepsFree ==
    ASSUME AcceptInvariant, NEW c \in Conns, Thread(c)
    PROVE  FreeForAccept'
<1>0. Inv /\ Tables /\ OneThread
    BY DEF AcceptInvariant, Inv
<1>1. tpc[c] \in TPCs \ {"none", "ended"}
    BY DEF Thread, RecvRequest, RecvFails, OpenDir, SendPage, Fopen, SendHeader, Stream,
           StreamFolder, CloseConnection, Step, TPCs
<1>2. Live(c)
    BY <1>1 DEF Live
<1>3. mpc \in {"join", "killed"} /\ connfd[c] \in Fds
    BY <1>0, <1>2 DEF OneThread
<1>4. mpc' \in {mpc, "killed"}
    <2>1. CASE SendPage(c) \/ SendHeader(c) \/ Stream(c) \/ StreamFolder(c)
        BY <1>0, <1>2, <2>1, SendKeeps DEF SendPage, SendHeader, Stream, StreamFolder
    <2>2. CASE ~(SendPage(c) \/ SendHeader(c) \/ Stream(c) \/ StreamFolder(c))
        BY <2>2 DEF Thread, RecvRequest, RecvFails, OpenDir, Fopen, CloseConnection, main
    <2> QED
        BY <2>1, <2>2
<1>5. CASE CloseConnection(c)
    <2>1. file'[connfd[c]] = Nothing
        BY <1>0, <1>2, <1>5, CloseKeeps DEF CloseConnection
    <2> QED
        BY <1>3, <2>1 DEF FreeForAccept, Free
<1>6. CASE ~CloseConnection(c)
    <2>1. PICK to \in TPCs \ {"none", "ended"} : tpc' = [tpc EXCEPT ![c] = to]
        BY <1>6 DEF Thread, RecvRequest, RecvFails, OpenDir, SendPage, Fopen, SendHeader, Stream,
                    StreamFolder, Step, TPCs
    <2>2. Live(c)'
        BY <1>0, <2>1 DEF Tables, Live
    <2> QED
        BY <1>3, <1>4, <2>2 DEF FreeForAccept
<1> QED
    BY <1>5, <1>6

(* However many images and directories were left open before, whenever main()  *)
(* is about to accept() a descriptor is free (server5.c 118, 177, 345,         *)
(* 390-402).                                                                   *)
THEOREM AcceptNeverStarves == Spec => []AcceptFindsDescriptor
<1>1. Init => AcceptInvariant
    <2> SUFFICES ASSUME Init PROVE AcceptInvariant
        OBVIOUS
    <2>1. 4 \in Free
        BY HttpAssumption DEF Init, Free, Fds
    <2> QED
        BY <2>1, InitInv DEF AcceptInvariant, FreeForAccept
<1>2. AcceptInvariant /\ [Next]_vars => AcceptInvariant'
    <2> SUFFICES ASSUME AcceptInvariant, [Next]_vars PROVE FreeForAccept'
        BY StepInv DEF AcceptInvariant
    <2>0. Inv /\ Tables /\ OneThread /\ FreeForAccept
        BY DEF AcceptInvariant, Inv
    <2>1. CASE Accept
        <3>1. PICK c \in Conns : tpc' = [tpc EXCEPT ![c] = "recv"] /\ mpc' = "join"
            BY <2>1 DEF Accept
        <3>2. Live(c)'
            BY <2>0, <3>1 DEF Live, Tables
        <3> QED
            BY <3>1, <3>2 DEF FreeForAccept
    <2>2. CASE AcceptFails
        BY <2>0, <2>2 DEF AcceptFails, FreeForAccept, Free
    <2>3. CASE Join
        <3>1. \A c \in Conns : ~Live(c)
            BY <2>0, <2>3 DEF Join, OneThread, Live
        <3> QED
            BY <2>0, <2>3, <3>1 DEF Join, FreeForAccept, kernel, Free
    <2>4. CASE JoinStale
        <3>1. \A c \in Conns : ~Live(c)
            BY <2>0, <2>4, NobodyLives DEF JoinStale
        <3> QED
            BY <2>0, <2>4, <3>1 DEF JoinStale, FreeForAccept, kernel, Free
    <2>5. ASSUME NEW c \in Conns, Thread(c) PROVE FreeForAccept'
        BY <2>5, ThreadKeepsFree
    <2>6. ASSUME NEW c \in Conns, Browser(c) PROVE FreeForAccept'
        <3>1. UNCHANGED <<file, main, tpc>>
            BY <2>6 DEF Browser, Connect, Ask, Read, HangUp, RstArrives, threads
        <3> QED
            BY <2>0, <3>1 DEF FreeForAccept, Live, Free, main
    <2>7. CASE UNCHANGED vars
        BY <2>0, <2>7 DEF vars, kernel, main, threads, FreeForAccept, Live, Free
    <2> QED
        BY <2>1, <2>2, <2>3, <2>4, <2>5, <2>6, <2>7 DEF Next, Main
<1>3. AcceptInvariant => AcceptFindsDescriptor
    BY DEF AcceptInvariant, FreeForAccept, AcceptFindsDescriptor
<1> QED
    BY <1>1, <1>2, <1>3, PTL DEF Spec
-------------------------------------------------------------------------------
(* What is read of an image: while there is something to send, something is    *)
(* left.                                                                       *)
Contents ==
    /\ asked \in [Conns -> Kinds \cup {Nothing}]
    /\ request \in [Conns -> AllKinds \cup {Nothing}]
    /\ left \in [Conns -> 0..Chunks]
    /\ joined \subseteq Conns
    /\ \A c \in Conns : tpc[c] \in {"sendheader", "stream"} /\ request[c] # "missing" => left[c] > 0

LEMMA StepContents == ASSUME Inv, Contents, [Next]_vars PROVE Contents'
<1> USE HttpAssumption
<1>0. Tables
    BY DEF Inv
<1>1. CASE Main
    <2>1. UNCHANGED <<asked, request, left>>
        BY <1>1 DEF Main, Accept, AcceptFails, Join, JoinStale, kernel, threads
    <2>2. joined' \subseteq Conns
        BY <1>1 DEF Main, Accept, AcceptFails, Join, JoinStale, Contents
    <2>3. \A c \in Conns : tpc'[c] \in {"sendheader", "stream"} => tpc[c] = tpc'[c]
        BY <1>0, <1>1 DEF Main, Accept, AcceptFails, Join, JoinStale, threads, Tables
    <2> QED
        BY <2>1, <2>2, <2>3 DEF Contents
<1>2. ASSUME NEW c \in Conns, Browser(c) PROVE Contents'
    <2>1. UNCHANGED <<request, left, joined, tpc>>
        BY <1>2 DEF Browser, Connect, Ask, Read, HangUp, RstArrives, threads, main
    <2>2. asked' \in [Conns -> Kinds \cup {Nothing}]
        BY <1>2 DEF Browser, Connect, Ask, Read, HangUp, RstArrives, Contents
    <2> QED
        BY <2>1, <2>2 DEF Contents
<1>3. ASSUME NEW c \in Conns, Thread(c) PROVE Contents'
    <2>1. CASE RecvRequest(c)
        BY <1>0, <2>1 DEF RecvRequest, Step, Contents, main, Tables, TPCs, AllKinds
    <2>2. CASE RecvFails(c)
        BY <1>0, <2>2 DEF RecvFails, Step, Contents, main, Tables, TPCs, AllKinds
    <2>3. CASE OpenDir(c)
        BY <1>0, <2>3 DEF OpenDir, Step, Contents, main, Tables, TPCs
    <2>4. CASE SendPage(c)
        BY <1>0, <2>4 DEF SendPage, send, Delivered, NotDelivered, Sigpipe, Step, Contents, main,
           Tables, TPCs
    <2>5. CASE Fopen(c)
        BY <1>0, <2>5 DEF Fopen, Step, Contents, main, Tables, TPCs, AllKinds
    <2>6. CASE SendHeader(c)
        BY <1>0, <2>6 DEF SendHeader, send, Delivered, NotDelivered, Sigpipe, Step, Contents, main,
           Tables, TPCs
    <2>7. CASE Stream(c)
        <3>1. left[c] \in 1..Chunks /\ left' = [left EXCEPT ![c] = left[c] - 1]
            BY <2>7 DEF Stream, Step, Contents
        <3>2. UNCHANGED <<asked, request, joined>>
            BY <2>7 DEF Stream, send, SendNothing, Delivered, NotDelivered, Sigpipe, main
        <3>3. left' \in [Conns -> 0..Chunks]
            BY <3>1 DEF Contents
        <3>4. tpc' = [tpc EXCEPT ![c] = IF left[c] = 1 THEN "close" ELSE "stream"]
            BY <2>7 DEF Stream, Step
        <3>5. \A d \in Conns : tpc'[d] \in {"sendheader", "stream"} /\ request[d] # "missing" => left'[d] > 0
            BY <1>0, <3>1, <3>4 DEF Contents, Tables
        <3> QED
            BY <3>2, <3>3, <3>5 DEF Contents
    <2>8. CASE StreamFolder(c)
        BY <1>0, <2>8 DEF StreamFolder, SendNothing, NotDelivered, Sigpipe, Step, Contents, main,
           Tables, TPCs
    <2>9. CASE CloseConnection(c)
        BY <1>0, <2>9 DEF CloseConnection, Step, Contents, main, Tables, TPCs
    <2> QED
        BY <1>3, <2>1, <2>2, <2>3, <2>4, <2>5, <2>6, <2>7, <2>8, <2>9 DEF Thread
<1>4. CASE UNCHANGED vars
    BY <1>4 DEF vars, kernel, main, threads, Contents
<1> QED
    BY <1>1, <1>2, <1>3, <1>4 DEF Next

(* Types: the loop that sends an image stops when nothing is left of it        *)
(* (server5.c 319-326).                                                        *)
THEOREM TypeCorrect == Spec => []TypeOK
<1>1. Init => Inv /\ Contents
    BY InitInv, HttpAssumption DEF Init, Contents
<1>2. Inv /\ Contents /\ [Next]_vars => Inv' /\ Contents'
    BY StepInv, StepContents
<1>3. Inv /\ Contents => TypeOK
    BY DEF Inv, Tables, Contents, TypeOK
<1> QED
    BY <1>1, <1>2, <1>3, PTL DEF Spec
-------------------------------------------------------------------------------
(* How long a browser is served.  The steps a thread has left, at most:        *)
StepsLeft(c) ==
    CASE tpc[c] = "recv"       -> Chunks + 4
      [] tpc[c] = "fopen"      -> Chunks + 3
      [] tpc[c] = "sendheader" -> (IF request[c] = "missing" THEN 0 ELSE left[c]) + 2
      [] tpc[c] = "stream"     -> left[c] + 1
      [] tpc[c] = "opendir"    -> 3
      [] tpc[c] = "sendpage"   -> 2
      [] tpc[c] = "close"      -> 1
      [] OTHER                 -> 0

Works(c) ==
    /\ Thread(c) => StepsLeft(c)' < StepsLeft(c) \/ StreamFolder(c)
    /\ ~Thread(c) => StepsLeft(c)' = StepsLeft(c)

LEMMA ThreadWorks ==
    ASSUME Inv, Contents, NEW c \in Conns, Thread(c)
    PROVE  StepsLeft(c)' < StepsLeft(c) \/ StreamFolder(c)
<1>0. Tables /\ Chunks \in Nat \ {0} /\ left \in [Conns -> 0..Chunks] /\ left[c] \in Nat
    BY HttpAssumption DEF Inv, Contents
<1>1. CASE RecvRequest(c)
    <2>1. tpc[c] = "recv" /\ tpc'[c] \in {"opendir", "fopen"}
        BY <1>0, <1>1 DEF RecvRequest, Step, Tables
    <2> QED
        BY <1>0, <2>1 DEF StepsLeft
<1>2. CASE RecvFails(c)
    <2>1. tpc[c] = "recv" /\ tpc'[c] = "opendir"
        BY <1>0, <1>2 DEF RecvFails, Step, Tables
    <2> QED
        BY <1>0, <2>1 DEF StepsLeft
<1>3. CASE OpenDir(c)
    <2>1. tpc[c] = "opendir" /\ tpc'[c] = "sendpage"
        BY <1>0, <1>3 DEF OpenDir, Step, Tables
    <2> QED
        BY <2>1 DEF StepsLeft
<1>4. CASE SendPage(c)
    <2>1. tpc[c] = "sendpage" /\ tpc'[c] = "close"
        BY <1>0, <1>4 DEF SendPage, Step, Tables
    <2> QED
        BY <2>1 DEF StepsLeft
<1>5. CASE Fopen(c)
    <2>1. tpc[c] = "fopen" /\ tpc'[c] = "sendheader"
        BY <1>0, <1>5 DEF Fopen, Step, Tables
    <2>2. left'[c] = Chunks \/ request'[c] = "missing"
        BY <1>0, <1>5 DEF Fopen, Contents
    <2> QED
        BY <1>0, <2>1, <2>2 DEF StepsLeft
<1>6. CASE SendHeader(c)
    <2>1. /\ tpc[c] = "sendheader" /\ UNCHANGED left
          /\ tpc'[c] = IF request[c] = "missing" THEN "close" ELSE "stream"
        BY <1>0, <1>6 DEF SendHeader, Step, Tables
    <2> QED
        BY <1>0, <2>1 DEF StepsLeft
<1>7. CASE Stream(c)
    <2>1. /\ tpc[c] = "stream" /\ left'[c] = left[c] - 1
          /\ tpc'[c] = IF left[c] = 1 THEN "close" ELSE "stream"
        BY <1>0, <1>7 DEF Stream, Step, Tables
    <2>2. left[c] > 0
        BY <1>7, <2>1, HttpAssumption DEF Stream, Contents
    <2> QED
        BY <1>0, <2>1, <2>2 DEF StepsLeft
<1>8. CASE CloseConnection(c)
    <2>1. tpc[c] = "close" /\ tpc'[c] = "ended"
        BY <1>0, <1>8 DEF CloseConnection, Step, Tables
    <2> QED
        BY <2>1 DEF StepsLeft
<1> QED
    BY <1>1, <1>2, <1>3, <1>4, <1>5, <1>6, <1>7, <1>8 DEF Thread

(* Each step of a thread brings its end nearer, nobody else's step puts it     *)
(* off, and what a thread has left is bounded from the start; only the loop    *)
(* over a directory named like an image goes round without an end (server5.c   *)
(* 319-326, 337-345).                                                          *)
THEOREM ThreadsEnd == Spec => [][\A c \in Conns : Live(c) => Works(c)]_vars
<1>1. ASSUME Inv, Contents, [Next]_vars, NEW c \in Conns, Live(c), ~Thread(c)
      PROVE  StepsLeft(c)' = StepsLeft(c)
    <2>0. Tables /\ OneThread
        BY <1>1 DEF Inv
    <2>1. tpc'[c] = tpc[c] /\ UNCHANGED <<request, left>>
        <3>1. CASE Main
            BY <1>1, <2>0, <3>1
            DEF Main, Accept, AcceptFails, Join, JoinStale, Waiting, Live, threads, Tables
        <3>2. ASSUME NEW d \in Conns, Thread(d) PROVE FALSE
            <4>1. Live(d)
                BY <3>2 DEF Thread, RecvRequest, RecvFails, OpenDir, SendPage, Fopen, SendHeader,
                            Stream, StreamFolder, CloseConnection, Step, Live
            <4> QED
                BY <1>1, <2>0, <3>2, <4>1 DEF OneThread
        <3>3. ASSUME NEW d \in Conns, Browser(d) PROVE UNCHANGED threads
            BY <3>3 DEF Browser, Connect, Ask, Read, HangUp, RstArrives
        <3> QED
            BY <1>1, <3>1, <3>2, <3>3 DEF Next, vars, threads
    <2> QED
        BY <2>1 DEF StepsLeft
<1>2. Inv /\ Contents /\ [Next]_vars => [\A c \in Conns : Live(c) => Works(c)]_vars
    BY <1>1, ThreadWorks DEF Works
<1>3. Init => Inv /\ Contents
    BY InitInv, HttpAssumption DEF Init, Contents
<1>4. Inv /\ Contents /\ [Next]_vars => Inv' /\ Contents'
    BY StepInv, StepContents
<1> QED
    BY <1>2, <1>3, <1>4, PTL DEF Spec

(* A thread that lives has a step to take (the guard of Thread, written out),  *)
(* or it waits for the request of its browser, or for it to read.              *)
Gone == {"fin", "finsent", "rst", "dead"}

Sends(c) ==
    Object(c) \in Conns =>
        tcp[Object(c)] \in Gone \/ (tcp[Object(c)] = "up" /\ unread[Object(c)] < SndBuf)

Moves(c) ==
    CASE tpc[c] = "recv" -> \E o \in Conns : o = Object(c) /\ (asked[o] # Nothing \/ tcp[o] \in Gone)
      [] tpc[c] \in {"sendpage", "sendheader"} -> Sends(c)
      [] tpc[c] = "stream" -> request[c] = "folder" \/ (request[c] = "image" /\ Sends(c))
      [] OTHER -> tpc[c] \in {"opendir", "fopen", "close"}

AwaitsBrowser(c) ==
    /\ Object(c) = c /\ tcp[c] = "up"
    /\ \/ tpc[c] = "recv" /\ asked[c] = Nothing
       \/ tpc[c] \in {"sendpage", "sendheader", "stream"} /\ unread[c] = SndBuf

WaitsForItsBrowser ==
    /\ mpc = "join" /\ tid # Nothing => tpc[tid] # "none"
    /\ \A c \in Conns : Live(c) => /\ tid = c /\ StepsLeft(c) \in 1 .. Chunks + 4
                                   /\ Moves(c) \/ AwaitsBrowser(c)

(* What a thread sends is what was asked, over a connection that is not over.  *)
Serving ==
    /\ \A c \in Conns : tpc[c] \in {"fopen", "sendheader"} => request[c] \in {"image", "missing", "folder"}
    /\ \A c \in Conns : tpc[c] = "stream" => request[c] \in {"image", "folder"}
    /\ \A c \in Conns : Live(c) /\ Object(c) = c => tcp[c] \notin {"idle", "over"}
    /\ tid # Nothing => tpc[tid] # "none"

LEMMA ThreadServes ==
    ASSUME Inv, Contents, Serving, NEW c \in Conns, Thread(c)
    PROVE  Serving'
<1>0. Tables /\ OneThread /\ Contents
    BY DEF Inv
<1>1. PICK to \in TPCs \ {"none"} : tpc' = [tpc EXCEPT ![c] = to]
    BY DEF Thread, RecvRequest, RecvFails, OpenDir, SendPage, Fopen, SendHeader, Stream,
           StreamFolder, CloseConnection, Step, TPCs
<1>2. Live(c)
    BY DEF Thread, RecvRequest, RecvFails, OpenDir, SendPage, Fopen, SendHeader, Stream,
           StreamFolder, CloseConnection, Step, Live
<1>3. tid = c /\ \A d \in Conns \ {c} : ~Live(d) /\ tpc'[d] = tpc[d]
    BY <1>0, <1>1, <1>2 DEF OneThread, Tables
<1>4. UNCHANGED <<tid, connfd>>
    BY DEF Thread, RecvRequest, RecvFails, OpenDir, SendPage, Fopen, SendHeader, Stream,
           StreamFolder, CloseConnection, send, SendNothing, Delivered, NotDelivered, Sigpipe, main
<1>5. tpc'[c] \in {"fopen", "sendheader", "stream"} =>
          /\ request'[c] \in {"image", "missing", "folder"}
          /\ tpc'[c] = "stream" => request'[c] # "missing"
    <2>1. CASE RecvRequest(c)
        <3>1. request'[c] \in Kinds \cup {"page"} /\ tpc'[c] = IF request'[c] = "page" THEN "opendir" ELSE "fopen"
            BY <1>0, <2>1 DEF RecvRequest, Step, Contents, Tables
        <3> QED
            BY <3>1, HttpAssumption DEF AllKinds
    <2>2. CASE RecvFails(c) \/ OpenDir(c) \/ SendPage(c) \/ CloseConnection(c)
        BY <1>0, <2>2 DEF RecvFails, OpenDir, SendPage, CloseConnection, Step, Tables
    <2>3. CASE Fopen(c)
        BY <1>0, <2>3 DEF Fopen, Step, Tables, Contents, Serving
    <2>4. CASE SendHeader(c) \/ Stream(c) \/ StreamFolder(c)
        BY <1>0, <2>4 DEF SendHeader, Stream, StreamFolder, send, SendNothing, Step, Tables, Serving
    <2> QED
        BY <2>1, <2>2, <2>3, <2>4 DEF Thread
<1>6. Object(c)' = c => tcp'[c] \notin {"idle", "over"}
    <2>0. connfd[c] \in Fds /\ connfd'[c] = connfd[c]
        BY <1>0, <1>2, <1>4 DEF OneThread
    <2>1. CASE RecvFails(c) \/ CloseConnection(c)
        <3>1. Close(c)
            BY <2>1 DEF RecvFails, CloseConnection
        <3>2. file'[connfd[c]] = Nothing
            BY <1>2, <3>1, CloseKeeps
        <3> QED
            BY <2>0, <3>2, HttpAssumption DEF Object
    <2>2. CASE OpenDir(c) \/ Fopen(c)
        <3>1. Open("dir") \/ Open("image") \/ UNCHANGED file
            BY <2>2 DEF OpenDir, Fopen
        <3>2. Object(c)' = c => Object(c) = c
            BY <1>2, <2>0, <3>1, OpenKeeps DEF Object
        <3> QED
            BY <1>2, <2>2, <3>2 DEF OpenDir, Fopen, Serving
    <2>3. CASE RecvRequest(c)
        <3>1. UNCHANGED <<tcp, file>>
            BY <2>3 DEF RecvRequest
        <3> QED
            BY <1>2, <2>0, <3>1 DEF Object, Serving
    <2>4. CASE SendPage(c) \/ SendHeader(c) \/ Stream(c) \/ StreamFolder(c)
        <3>1. (send(c) \/ SendNothing(c)) /\ UNCHANGED file
            BY <2>4 DEF SendPage, SendHeader, Stream, StreamFolder, send, SendNothing
        <3>2. tcp'[c] = tcp[c] \/ tcp'[c] \in {"finsent", "dead"}
            BY <1>0, <3>1 DEF send, SendNothing, Delivered, NotDelivered, Sigpipe, Tables
        <3> QED
            BY <1>2, <2>0, <3>1, <3>2 DEF Object, Serving
    <2> QED
        BY <2>1, <2>2, <2>3, <2>4 DEF Thread
<1>7. tpc'[c] = to
    BY <1>0, <1>1 DEF Tables
<1> QED
    BY <1>3, <1>4, <1>5, <1>6, <1>7, HttpAssumption DEF Serving, Live

LEMMA StepServing == ASSUME Inv, Contents, Serving, [Next]_vars PROVE Serving'
<1>0. Tables /\ OneThread /\ Holder
    BY DEF Inv
<1>1. CASE Accept
    <2>1. PICK c \in Conns, fd \in Fds :
              /\ Waiting(c)
              /\ file' = [file EXCEPT ![fd] = c]
              /\ connfd' = [connfd EXCEPT ![c] = fd]
              /\ tpc' = [tpc EXCEPT ![c] = "recv"]
              /\ tid' = c
        BY <1>1 DEF Accept
    <2>2. UNCHANGED <<tcp, request>> /\ \A d \in Conns : ~Live(d)
        BY <1>1, NobodyLives DEF Accept
    <2>3. tpc'[c] = "recv" /\ \A d \in Conns \ {c} : tpc'[d] = tpc[d] /\ ~Live(d)'
        BY <1>0, <2>1, <2>2 DEF Tables, Live
    <2> QED
        BY <2>1, <2>2, <2>3 DEF Serving, Waiting, Live
<1>2. CASE AcceptFails \/ Join \/ JoinStale
    <2>1. UNCHANGED <<tid, threads>> /\ (UNCHANGED file)
        BY <1>2 DEF AcceptFails, Join, JoinStale, kernel
    <2>2. \A c \in Conns : Live(c) => tcp'[c] = tcp[c]
        BY <1>0, <1>2 DEF AcceptFails, Join, JoinStale, kernel, Waiting, Live, Tables
    <2> QED
        BY <2>1, <2>2 DEF Serving, Live, Object, threads
<1>3. ASSUME NEW c \in Conns, Browser(c) PROVE Serving'
    <2>1. UNCHANGED <<file, main, threads>>
        BY <1>3 DEF Browser, Connect, Ask, Read, HangUp, RstArrives
    <2>2. \A d \in Conns : tcp[d] \notin {"idle", "over"} => tcp'[d] \notin {"idle", "over"}
        BY <1>0, <1>3 DEF Browser, Connect, Ask, Read, HangUp, RstArrives, Tables
    <2> QED
        BY <2>1, <2>2 DEF Serving, Live, Object, threads, main
<1>4. ASSUME NEW c \in Conns, Thread(c) PROVE Serving'
    BY <1>4, ThreadServes
<1>5. CASE UNCHANGED vars
    BY <1>5 DEF vars, kernel, main, threads, Serving, Live, Object
<1> QED
    BY <1>1, <1>2, <1>3, <1>4, <1>5 DEF Next, Main

(* main() that joins waits for the one thread there is, which has at most      *)
(* Chunks + 4 steps left and, if it cannot take one, waits for its own browser *)
(* to ask, to read or to hang up: no other browser can hold it up (server5.c   *)
(* 239-246, 337-345, 394-401).                                                 *)
THEOREM MainWaitsForOneBrowser == Spec => []WaitsForItsBrowser
<1>1. Init => Inv /\ Contents /\ Serving
    BY InitInv, HttpAssumption DEF Init, Contents, Serving, Live
<1>2. Inv /\ Contents /\ Serving /\ [Next]_vars => Inv' /\ Contents' /\ Serving'
    BY StepInv, StepContents, StepServing
<1>3. Inv /\ Contents /\ Serving => WaitsForItsBrowser
    <2> SUFFICES ASSUME Inv, Contents, Serving PROVE WaitsForItsBrowser
        OBVIOUS
    <2>1. ASSUME NEW c \in Conns, Live(c)
          PROVE  tid = c /\ StepsLeft(c) \in 1 .. Chunks + 4 /\ (Moves(c) \/ AwaitsBrowser(c))
        <3>1. tid = c /\ tcp[c] \in States /\ unread[c] \in 0..SndBuf /\ SndBuf \in Nat \ {0}
            BY <2>1, HttpAssumption DEF Inv, Tables, OneThread
        <3>2. tpc[c] \in {"recv", "opendir", "sendpage", "fopen", "sendheader", "stream", "close"}
            BY <2>1 DEF Inv, Tables, TPCs, Live
        <3>3. StepsLeft(c) \in 1 .. Chunks + 4
            <4>1. Chunks \in Nat \ {0} /\ left[c] \in 0..Chunks
                BY HttpAssumption DEF Contents
            <4> QED
                BY <3>2, <4>1 DEF StepsLeft
        <3>4. Object(c) \in Conns => Object(c) = c
            BY <2>1, ObjectOf
        <3>5. Object(c) = c => tcp[c] = "up" \/ tcp[c] \in Gone
            BY <2>1, <3>1 DEF Serving, States, Gone
        <3>6. Sends(c) \/ (Object(c) = c /\ tcp[c] = "up" /\ unread[c] = SndBuf)
            BY <3>1, <3>4, <3>5 DEF Sends
        <3>7. tpc[c] = "recv" => Object(c) = c
            BY DEF Inv, Held
        <3>8. tpc[c] = "stream" => request[c] \in {"image", "folder"}
            BY DEF Serving
        <3>9. Moves(c) \/ AwaitsBrowser(c)
            BY <3>2, <3>5, <3>6, <3>7, <3>8 DEF Moves, AwaitsBrowser
        <3> QED
            BY <3>1, <3>3, <3>9
    <2> QED
        BY <2>1 DEF WaitsForItsBrowser, Serving
<1> QED
    BY <1>1, <1>2, <1>3, PTL DEF Spec
===============================================================================

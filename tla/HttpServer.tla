------------------------------ MODULE HttpServer ------------------------------
(***************************************************************************)
(* The image gallery of pus-01 (server5.c): main() accepts a connection,   *)
(* starts a thread for it and joins the thread; the thread reads one       *)
(* request and sends the page or an image.  Sockets, opened images and the *)
(* opened directory share one descriptor table, in which the lowest free   *)
(* number is always taken; images and the directory are never closed.      *)
(*                                                                         *)
(* The thread that serves connection c is called c; so is its tid.         *)
(***************************************************************************)
EXTENDS Naturals, FiniteSets

CONSTANTS
    Conns,      \* the connections that browsers open, one request each
    Kinds,      \* what they ask for, a subset of AllKinds
    MaxFd,      \* the largest descriptor the process may hold
    SndBuf,     \* how many pieces a socket buffers before send() blocks
    Chunks,     \* how many times fread() is called for an image
    Nothing     \* no connection, no request, an unused descriptor

(* page: anything whose extension is not in GRAPHIC_EXT.  image: a readable    *)
(* file.  missing: fopen() fails.  folder: a directory named like an image.    *)
AllKinds == {"page", "image", "missing", "folder"}

(* 0, 1 and 2 are the standard streams, socket() gave 3 to the listener. *)
Fds == 4..MaxFd

ASSUME HttpAssumption ==
    /\ Kinds \subseteq AllKinds
    /\ MaxFd \in Nat /\ MaxFd >= 4
    /\ SndBuf \in Nat \ {0}
    /\ Chunks \in Nat \ {0}
    /\ Nothing \notin Conns \cup AllKinds \cup {"dir"}
    /\ Conns \cap {"dir", "image"} = {}

VARIABLES
    (* the kernel and the browsers *)
    tcp,        \* tcp[c]: the state of the connection
    asked,      \* asked[c]: the request that was sent and not yet received
    unread,     \* unread[c]: the pieces the browser has not read yet
    file,       \* file[fd]: a connection, "dir", "image" or Nothing
    (* main() *)
    mpc,        \* "accept", "join", or what ended the process
    tid,        \* tid
    joined,     \* the threads that were joined
    (* the threads *)
    tpc,        \* tpc[c]: where the thread is, "none" before it starts
    connfd,     \* connfd[c]: the descriptor the thread was given
    request,    \* request[c]: what buff holds
    left,       \* left[c]: the pieces of the opened image still to be read
    (* history *)
    heard       \* heard[c]: the threads that sent something to c

kernel  == <<tcp, asked, unread, file>>
main    == <<mpc, tid, joined>>
threads == <<tpc, connfd, request, left>>
history == <<heard>>
vars    == <<kernel, main, threads, history>>

(* As in the chat server: a send() after FIN is answered by RST, the next one *)
(* raises SIGPIPE; after an RST the next call fails.                          *)
States == {"idle", "up", "fin", "finsent", "rst", "dead", "over"}

TPCs == {"none", "recv", "opendir", "sendpage", "fopen", "sendheader", "stream", "close", "ended"}

Running == mpc \in {"accept", "join"}

Init ==
    /\ tcp = [c \in Conns |-> "idle"]
    /\ asked = [c \in Conns |-> Nothing]
    /\ unread = [c \in Conns |-> 0]
    /\ file = [fd \in Fds |-> Nothing]
    /\ mpc = "accept"
    /\ tid = Nothing
    /\ joined = {}
    /\ tpc = [c \in Conns |-> "none"]
    /\ connfd = [c \in Conns |-> 0]
    /\ request = [c \in Conns |-> Nothing]
    /\ left = [c \in Conns |-> 0]
    /\ heard = [c \in Conns |-> {}]
-------------------------------------------------------------------------------
(* The browsers.  A connection that was opened waits in the backlog until it  *)
(* has a thread.                                                              *)
Connect(c) ==
    /\ tcp[c] = "idle"
    /\ tcp' = [tcp EXCEPT ![c] = "up"]
    /\ UNCHANGED <<asked, unread, file, main, threads, history>>

Ask(c) ==
    /\ tcp[c] = "up"
    /\ asked[c] = Nothing
    /\ request[c] = Nothing
    /\ \E k \in Kinds : asked' = [asked EXCEPT ![c] = k]
    /\ UNCHANGED <<tcp, unread, file, main, threads, history>>

Read(c) ==
    /\ tcp[c] = "up"
    /\ unread[c] > 0
    /\ unread' = [unread EXCEPT ![c] = 0]
    /\ UNCHANGED <<tcp, asked, file, main, threads, history>>

(* The browser gives up, politely or not. *)
HangUp(c) ==
    /\ tcp[c] = "up"
    /\ \E how \in {"fin", "rst"} : tcp' = [tcp EXCEPT ![c] = how]
    /\ unread' = [unread EXCEPT ![c] = 0]
    /\ UNCHANGED <<asked, file, main, threads, history>>

RstArrives(c) ==
    /\ tcp[c] = "finsent"
    /\ tcp' = [tcp EXCEPT ![c] = "dead"]
    /\ UNCHANGED <<asked, unread, file, main, threads, history>>

Browser(c) == Connect(c) \/ Ask(c) \/ Read(c) \/ HangUp(c) \/ RstArrives(c)
-------------------------------------------------------------------------------
Free == {fd \in Fds : file[fd] = Nothing}

Lowest(fd, S) == fd \in S /\ \A g \in S : fd <= g

Waiting(c) == tcp[c] \notin {"idle", "over"} /\ tpc[c] = "none"

(* accept() and pthread_create() *)
Accept ==
    /\ mpc = "accept"
    /\ \E c \in Conns, fd \in Fds :
          /\ Waiting(c)
          /\ Lowest(fd, Free)
          /\ file' = [file EXCEPT ![fd] = c]
          /\ connfd' = [connfd EXCEPT ![c] = fd]
          /\ tpc' = [tpc EXCEPT ![c] = "recv"]
          /\ tid' = c
    /\ mpc' = "join"
    /\ UNCHANGED <<tcp, asked, unread, joined, request, left, history>>

(* accept() returns -1, for want of a descriptor or of memory (EMFILE, ENFILE, *)
(* ENOMEM) or because a browser has aborted its connection (ECONNABORTED), and *)
(* the loop joins all the same.                                                *)
AcceptFails ==
    /\ mpc = "accept"
    /\ \/ UNCHANGED tcp
       \/ \E c \in Conns : /\ Waiting(c)
                           /\ tcp[c] = "rst"
                           /\ tcp' = [tcp EXCEPT ![c] = "over"]
    /\ mpc' = "join"
    /\ UNCHANGED <<asked, unread, file, tid, joined, threads, history>>

(* Mutant of Join: the thread is left to itself. *)
JoinDetached ==
    /\ mpc = "join"
    /\ mpc' = "accept"
    /\ UNCHANGED <<kernel, tid, joined, threads, history>>

Join ==
    /\ mpc = "join"
    /\ tid \in Conns \ joined
    /\ tpc[tid] = "ended"
    /\ joined' = joined \cup {tid}
    /\ mpc' = "accept"
    /\ UNCHANGED <<kernel, tid, threads, history>>

(* tid names no thread any more: pthread_join() may fail, crash or hang. *)
JoinStale ==
    /\ mpc = "join"
    /\ tid \notin Conns \ joined
    /\ mpc' \in {"accept", "crashed", "hung"}
    /\ UNCHANGED <<kernel, tid, joined, threads, history>>
-------------------------------------------------------------------------------
(* What the descriptor of thread c denotes now. *)
Object(c) == file[connfd[c]]

(* close() of connfd, whatever it denotes *)
Close(c) ==
    /\ file' = [file EXCEPT ![connfd[c]] = Nothing]
    /\ IF Object(c) \in Conns
       THEN /\ tcp' = [tcp EXCEPT ![Object(c)] = "over"]
            /\ unread' = [unread EXCEPT ![Object(c)] = 0]
       ELSE UNCHANGED <<tcp, unread>>

Step(c, from, to) ==
    /\ tpc[c] = from
    /\ tpc' = [tpc EXCEPT ![c] = to]

(* recv() returns the request, or 0 at the end of the stream; buff is zeroed,  *)
(* so that nothing is a request for the page.                                  *)
RecvRequest(c) ==
    /\ tpc[c] = "recv"
    /\ \E o \in Conns :
          /\ o = Object(c)
          /\ asked[o] # Nothing \/ tcp[o] \in {"fin", "finsent", "dead"}
          /\ request' = [request EXCEPT ![c] = IF asked[o] = Nothing THEN "page" ELSE asked[o]]
          /\ asked' = [asked EXCEPT ![o] = Nothing]
    /\ Step(c, "recv", IF request'[c] = "page" THEN "opendir" ELSE "fopen")
    /\ UNCHANGED <<tcp, unread, file, main, connfd, left, history>>

(* recv() returns -1: Recv() closes the descriptor and returns FALSE, and the  *)
(* thread goes on as if it had been asked for the page.                        *)
RecvFails(c) ==
    /\ tpc[c] = "recv"
    /\ Object(c) \in Conns => asked[Object(c)] = Nothing /\ tcp[Object(c)] = "rst"
    /\ Close(c)
    /\ request' = [request EXCEPT ![c] = "page"]
    /\ Step(c, "recv", "opendir")
    /\ UNCHANGED <<asked, main, connfd, left, history>>

(* The lowest free descriptor is taken and never given back. *)
Open(what) ==
    \E fd \in Fds : Lowest(fd, Free) /\ file' = [file EXCEPT ![fd] = what]

(* get_dir_content(): if opendir() fails, the page lists nothing. *)
OpenDir(c) ==
    /\ Step(c, "opendir", "sendpage")
    /\ Open("dir") \/ UNCHANGED file
    /\ UNCHANGED <<tcp, asked, unread, main, connfd, request, left, heard>>

(* load_image() and build_img_response_header(); fopen() may always fail *)
Fopen(c) ==
    /\ Step(c, "fopen", "sendheader")
    /\ \/ /\ request[c] # "missing"
          /\ Open("image")
          /\ left' = [left EXCEPT ![c] = Chunks]
          /\ UNCHANGED request
       \/ /\ request' = [request EXCEPT ![c] = "missing"]
          /\ UNCHANGED <<file, left>>
    /\ UNCHANGED <<tcp, asked, unread, main, connfd, history>>

(* send() on connfd: delivered, lost, refused, or fatal. *)
Delivered(c, o) ==
    /\ tcp[o] = "up"
    /\ unread[o] < SndBuf
    /\ unread' = [unread EXCEPT ![o] = @ + 1]
    /\ heard' = [heard EXCEPT ![o] = @ \cup {c}]
    /\ UNCHANGED <<tcp, main>>

NotDelivered(c, o) ==
    /\ \/ tcp[o] \in {"fin", "finsent"} /\ tcp' = [tcp EXCEPT ![o] = "finsent"]
       \/ tcp[o] = "rst" /\ tcp' = [tcp EXCEPT ![o] = "dead"]
    /\ UNCHANGED <<unread, heard, main>>

Sigpipe(o) ==
    /\ tcp[o] = "dead"
    /\ mpc' = "killed"
    /\ UNCHANGED <<tcp, unread, heard, tid, joined>>

send(c) ==
    /\ \/ \E o \in Conns : o = Object(c) /\ (Delivered(c, o) \/ NotDelivered(c, o) \/ Sigpipe(o))
       \/ Object(c) \notin Conns /\ UNCHANGED <<tcp, unread, heard, main>>
    /\ UNCHANGED <<asked, file, connfd, request>>

(* send() of 0 bytes sends nothing, but a connection that is gone is reported. *)
SendNothing(c) ==
    /\ \/ \E o \in Conns :
             /\ o = Object(c)
             /\ \/ tcp[o] \in {"up", "fin", "finsent"} /\ UNCHANGED <<tcp, unread, heard, main>>
                \/ tcp[o] = "rst" /\ NotDelivered(c, o)
                \/ Sigpipe(o)
       \/ Object(c) \notin Conns /\ UNCHANGED <<tcp, unread, heard, main>>
    /\ UNCHANGED <<asked, file, connfd, request>>

SendPage(c) ==
    /\ Step(c, "sendpage", "close")
    /\ send(c)
    /\ UNCHANGED left

SendHeader(c) ==
    /\ Step(c, "sendheader", IF request[c] = "missing" THEN "close" ELSE "stream")
    /\ send(c)
    /\ UNCHANGED left

(* Mutant of Stream: the end is noticed one turn too late. *)
StreamPastEnd(c) ==
    /\ Step(c, "stream", IF left[c] = 0 THEN "close" ELSE "stream")
    /\ request[c] = "image"
    /\ send(c)
    /\ left' = [left EXCEPT ![c] = @ - 1]

(* One turn of while (!feof(image_file)).  The last fread() finds nothing when *)
(* the size of the image is a multiple of that of the buffer.                  *)
Stream(c) ==
    /\ Step(c, "stream", IF left[c] = 1 THEN "close" ELSE "stream")
    /\ request[c] = "image"
    /\ send(c) \/ (left[c] = 1 /\ SendNothing(c))
    /\ left' = [left EXCEPT ![c] = @ - 1]

(* fread() of a directory fails and never reports the end of the file; 0 bytes *)
(* are sent, and the loop goes round.                                          *)
StreamFolder(c) ==
    /\ request[c] = "folder"
    /\ Step(c, "stream", "stream")
    /\ SendNothing(c)
    /\ UNCHANGED left

(* Mutant of CloseConnection: the descriptor stays open. *)
EndThread(c) ==
    /\ Step(c, "close", "ended")
    /\ UNCHANGED <<kernel, main, connfd, request, left, history>>

CloseConnection(c) ==
    /\ tpc[c] = "close"
    /\ Close(c)
    /\ Step(c, "close", "ended")
    /\ UNCHANGED <<asked, main, connfd, request, left, history>>

Thread(c) ==
    \/ RecvRequest(c) \/ RecvFails(c)
    \/ OpenDir(c) \/ SendPage(c)
    \/ Fopen(c) \/ SendHeader(c) \/ Stream(c) \/ StreamFolder(c)
    \/ CloseConnection(c)

Main == Accept \/ AcceptFails \/ Join \/ JoinStale

Next == Running /\ (Main \/ \E c \in Conns : Thread(c) \/ Browser(c))

Spec == Init /\ [][Next]_vars

(* main() and its threads are scheduled, accept() does not fail for ever while *)
(* a connection waits and a descriptor is free, nor need it fail at all, and a *)
(* browser that stays connected sends its request and reads what it is sent.   *)
FairSpec ==
    /\ Spec
    /\ WF_vars(Running /\ (Join \/ JoinStale))
    /\ SF_vars(Running /\ Accept)
    /\ \A c \in Conns : /\ WF_vars(Running /\ Thread(c))
                        /\ WF_vars(Running /\ Ask(c))
                        /\ WF_vars(Running /\ Read(c))
-------------------------------------------------------------------------------
(* Every variable stays in its type; a descriptor number is given out only     *)
(* within the table, and left counts down to 0 (server5.c 320-325, 395-398).   *)
TypeOK ==
    /\ tcp \in [Conns -> States]
    /\ asked \in [Conns -> Kinds \cup {Nothing}]
    /\ unread \in [Conns -> 0..SndBuf]
    /\ file \in [Fds -> Conns \cup {"dir", "image", Nothing}]
    /\ mpc \in {"accept", "join", "killed", "crashed", "hung"}
    /\ tid \in Conns \cup {Nothing}
    /\ joined \subseteq Conns
    /\ tpc \in [Conns -> TPCs]
    /\ connfd \in [Conns -> Fds \cup {0}]
    /\ request \in [Conns -> AllKinds \cup {Nothing}]
    /\ left \in [Conns -> 0..Chunks]
    /\ heard \in [Conns -> SUBSET Conns]

(* What a browser receives was sent by the thread that serves it.  A thread    *)
(* whose Recv() failed goes on with a descriptor number that is free again     *)
(* (239-246, 337-345); only the join keeps main() from giving that number to   *)
(* the next browser before the thread has sent to it and closed it.            *)
OwnAnswers == \A c \in Conns : heard[c] \subseteq {c}

(* And no thread closes the connection of another: until it ends, the          *)
(* descriptor of a thread is its connection, or is free or its own directory   *)
(* after a failed Recv() (239-246, 345).                                       *)
KeepsConnection ==
    \A c \in Conns : tpc[c] \notin {"none", "ended"} =>
        \/ Object(c) = c
        \/ tcp[c] = "over" /\ Object(c) \in {Nothing, "dir"}

(* An accept() always finds a descriptor, though each request may leave an     *)
(* image or the directory open for ever: it does so only if a descriptor is    *)
(* free beside that of its connection, which is then closed and is the one for *)
(* the next accept().  Without it the loop would spin on EMFILE, joining a tid *)
(* that was joined before (118, 177, 345, 394-401).                            *)
AcceptFindsDescriptor == mpc = "accept" => Free # {}

(* A browser that has connected is answered and its connection closed, as long *)
(* as every browser before it asks or hangs up, and reads (390-402).  Three    *)
(* weaknesses of the server are excepted, each of which ends the service for   *)
(* everybody: SIGPIPE, when a browser has gone and is sent to twice; a failed  *)
(* accept(), after which the join is on a tid that names no thread and may     *)
(* crash or hang (395-401); and a request for a folder that is named like an   *)
(* image, which is read for ever (322).                                        *)
KilledBySigpipe == mpc = "killed"

LostInStaleJoin == mpc \in {"crashed", "hung"}

ReadsFolder == \E d \in Conns : request[d] = "folder"

Served(c) == tcp[c] = "over" \/ KilledBySigpipe \/ LostInStaleJoin \/ ReadsFolder

Answered == \A c \in Conns : tcp[c] = "up" ~> Served(c)
===============================================================================

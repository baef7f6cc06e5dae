# Specifications of the network programs

The repository is a set of small C programs, one directory per subject
(`pus-01` sockets ... `pus-12` SSH).  Each program is independent; what they
share is the style: system calls in a loop, results tested now and then, state
in a few globals.  There is no documentation besides the comments, which hold
the assignment each program solves; where this project speaks of what a program
*should* do, it quotes one of those comments.

Two kinds of program are modelled in two ways.  Those that keep state and meet
other processes have a module each.  Those that are one sequence of library
calls, where all that can go wrong is a call that fails, are scripts for one
common machine, `CallSequence`.

## Inventory

`PROJECT.json` lists the parts with their sources and status, and under
`hazards` what can go wrong at which line.

| part | state | operations | hard parts | what makes it correct | module |
|---|---|---|---|---|---|
| TCP chat server (`server4.c`) | `clients_connfd[]`, `readset`, `maxfd`, two loop indices, the descriptor table of the process | accept, greet, refuse, announce, receive, relay, forget | `select()` results used after other work was done; entries freed and reused during a scan; peers that close, reset, stop reading; SIGPIPE; descriptors never closed | the table names each open descriptor once; everybody hears every event once, in one order; the dead are forgotten | `ChatServer`, `ChatRoom` |
| HTTP image gallery (`server5.c`) | `tid`, one `connfd` and one request per thread, opened files, the descriptor table | accept, create, join, receive, list the directory, open and stream an image, close | a thread goes on with a descriptor it has closed; descriptor numbers are reused; files are never closed; join of a stale `tid`; loops that end only at `feof()` | no answer reaches another browser; `accept()` always finds a descriptor; browsers are answered | `HttpServer` |
| palindrome check (`libpalindrome.c`) | `tmp`, two pointers | copy digits, skip zeros, compare | pointers that meet or cross; reuse of the index; bytes never written | the value described in the header comment | `Palindrome` |
| UDP palindrome service (`server3.c`, `client3.c`) | the client's buffer, the server's `flag_not_number`, `mess`, `client_addr` | type, send, check, answer, stop | several clients through one socket; dropped and refused datagrams; lines cut in two | each answer fits the last line | `PalindromeUdp` |
| SCTP time and date, stream echo (`pus-04/server2.c`, `server3.c`) | associations, `next_stream`, `client_addr` | send and receive on numbered streams | no order between streams; one socket for many associations; the stream and the address left from another client; an empty text | each kind of message told apart; the echo goes to who asked, on the stream that is due | `Sctp` |
| iptables tools (`pus-07/iptc.c`, `iptcmod.c`) | the parsed rule, a copy of the table | parse, check, append, delete, new chain, policy, commit | options in any order and number; the table changes between read and commit | one complete operation or none; a commit undoes nothing of others | `RuleTable` |
| servers that give up privileges (`pus-08`) | user ids, capabilities | bind, drop or raise, check, serve | calls whose result is not tested; ids of the three kinds; a port wider than 16 bits | nothing served while privileged; nobody with a right refused | `Privileges` |
| ping (`pus-03/ping.c`) | parent and child, one socket per reply | fork, send, receive, wait, kill | replies that come while the child has no socket; a reply that never comes; the parent giving up after `fork()` | the child is not left behind; it ends when nothing was lost | `IcmpPath` |
| netfilter queue (`pus-07/queue.c`, `queuemod.c`) | packet ids, verdicts | receive, change, set checksum, verdict | a bounded kernel queue read once a second; lengths; carries of the checksum | what is passed on has the checksum of its bytes | `IcmpPath`, `CaptureScripts` |
| SSH tools (`pus-12`) | session, channel, SFTP handles, terminal mode, signal mask | verify the host, authenticate, run, list, copy, tunnel | errors in the middle of a copy; Ctrl-C while the echo is off; clean-up on every path; the order of verification and password | nothing sent to an unverified server; everything released; the terminal restored | `SshScripts` |
| encrypted datagrams, OpenSSL exercises (`pus-09`) | contexts, keys, buffers | one library call after another | calls not tested, buffers not released | what is used is held | `CryptoScripts` |
| packet capture (`pus-11`) | the capture, its filter, the handler's global | open, filter, next packet, interrupt | SIGINT before the capture exists | the handler finds an open capture | `CaptureScripts` |
| first pairs (`pus-01`), greeting servers and address tools (`pus-02`), raw socket senders (`pus-03`), SCTP echo (`pus-04/server.c`), daemon (`pus-08`) | descriptors, address lists | resolve, open, send, receive, fork | lists used after release; descriptors never closed | what is used is held, what is acquired released | `SocketScripts` |
| ARP spoofing demonstration (`pus-11/arp_spoof.c`) | none between two frames | | | | not modelled |

The programs of one directory interact through sockets only.  `server3.c` calls
`libpalindrome.c`; `PalindromeUdp` uses its result, `Palindrome` models its
loops.  `ping` meets the queue programs when its requests are queued on the same
host: `IcmpPath` composes them.  The tools of `pus-12` share `libcommon.c`, whose
functions are subsequences in `SshScripts`.

## Modules

`Proofs` modules hold theorems, `MC` modules what only the model checker needs.
Where two components meet in one module, one of them has the names of
its specification prefixed: `Room...` (`ChatRoom`), `Service...` (`PalindromeUdp`)
and `Call...` (`CallSequence`).
`PROJECT.json` maps every definition to the lines it stands for.  A definition
directly above another one, with the same name and a suffix, is that one with a
plausible mistake: it is used by no specification and shows, substituted for its
neighbour, that a property notices (`mutants` in `PROJECT.json`).

### ChatServer and ChatRoom

`ChatServer` follows `server4.c` call by call.  Each call that may block, fail
or be overtaken by a peer is one action; the code up to the next call belongs to
it.  `pc` names the call the thread is about to make:

    update -> select -> accept -> hello -> join -> announce -> update
                     |         -> refuse -> close -> update
                     -> scan -> relay -> scan ... -> update

`slots` is `clients_connfd[]`, `slot` the `i` of `handle_client_action`, `dest`
the `i` of `send_message_to_other`, `cfd` the descriptor in hand.  A loop step
goes straight to the next entry that is not skipped.

The kernel and the telnet clients are external: the descriptor table `file`
hands out the lowest free number; a `send()` is delivered, blocks on a full
buffer, is lost after FIN (and answered by RST), fails once after a RST, and
raises SIGPIPE after that; `recv()` returns as many lines as fit, 0, or -1.
`select()` and `accept()` may fail at any time, which ends the server
(`SelectOrAcceptFails`).
`feed` and `got` are history: every event announced and who was sent it.

`Residues` stands for what `buf` holds behind the received bytes: it is cleared
by `memset(buf, 0, strlen(buf))` while uninitialised.  No property depends on
it, and the runs take the one value `"clean"`.

`ChatRoom` is the promise: a set of members, each event posted once to a set of
addressees and handed to each of them that has not hung up before the next event
is posted.  `ChatServer` maps its state to it (`Abs`): the room is what the table
holds.

### HttpServer

`main()` accepts, starts a thread and joins it; the thread of connection `c` is
called `c`.  `connfd[c]` is a *number*: what it denotes is looked up in `file`
at each call, because `Recv()` closes it on failure (239-246) and the thread goes
on, sends and closes again.  `file` also holds the directory and the images that
are never closed.  `accept()`, `opendir()` and `fopen()` may fail at any time, for want
of a descriptor or of memory.  A failed `accept()` is followed by a join of whatever
`tid` holds; on a thread already joined or never started that is undefined, and the
model lets it return, hang or crash.  The `send()` of 0 bytes behind the end of an
image or in a folder delivers nothing, and raises SIGPIPE like any other
(`SendNothing`).  The text of requests and pages is
abstract: a request is a page, an image, a missing file or a directory that is
named like an image.

### Palindrome and PalindromeUdp

`Palindrome` has one action per loop turn of `is_palindrome()`, on sequences of
abstract characters: digits, letters, white space (`Spaces`) and all others
(`Others`).  A read outside the copied digits may give anything (`MayDiffer`,
`MayEqual`).  When `malloc()` fails the process exits before the first loop.

`PalindromeUdp` has one action per blocking call of the clients and the server.
Client 3 leaves `sin_addr` zero whatever address it is given, so it always talks
to its own host: datagrams keep their order, are dropped when the queue is full,
and are refused when the server has stopped.  A frame is the class of the 256
bytes that are sent.  What one `fgets()` finds is a member of `Lines`: `full` is
255 digits of a longer line, whose rest, of whatever kind, is the next member;
`last` is what the input ends behind without a newline.

### Sctp

`server2.c` with `client2.c`, and `server3.c` with `client3.c` in two settings:
the echo on stream 0, or on the stream after the one the message came on.
`service` chooses.  A stream is a queue; a client receives from any stream that
has something, which is all the order SCTP gives.  `server3.c` has one socket
for all associations (`queue`), and `client_addr` and `next_stream` are globals:
they are variables of the server here, set by one client's message and read when
the answer is sent.  Of a text its length is kept, since `fgets()` cuts it,
`strlen()` decides what is sent, and a length of 0 ends the client or the server.
The last line may have no newline, and then loses its last character instead (65).
Without a server the one-to-many socket of `client3.c` either fails to send or
begins an association nobody answers; a client that waits for a server that ended
is told so (`Aborted`) or goes on waiting.

### RuleTable

Both tools are one machine: `parse()` meets one option at a time, chosen freely,
so that every command line is covered; then the table is read, checked, changed
in the handle `h[p]` and committed.  `iptables` is external and changes the table
at any time.  The kernel compares the number of entries only, not the contents.
`since[p]` is history: the kinds of changes others made since `p` read the table.

### Privileges

The four start-ups up to the first `accept()`, with the ids (`id.r`, `id.e`,
`id.s`) and the permitted and effective capabilities changed by the rules of the
kernel.  The file of `suidserver` and `rootserver` is plain or set-uid root, that of
the other two plain or with `cap_net_bind_service`, which is what each was written
for; a file set-uid to another user, started by root, and file capabilities on the
first two are outside the model.  Each call may also fail without effect.  `capserver.c` 90 tests a variable that was
never assigned: both outcomes are there.

### IcmpPath

`ping.c` as parent and child; the queue of the kernel; `queue.c` or `queuemod.c`
behind it; a network that loses and reorders; a host that answers a datagram
whose checksum is right.  Datagrams keep their bytes, of a smaller alphabet,
because the checksum is a property of them: `internet_checksum` adds words, folds
carries and complements as `checksum.h` does.  A packet that ends before the time
stamp, or right with it, ends `queuemod` (`Short`): the length of the rest, or in
`swap_bytes()` the place of its last byte, wraps around.  `Stray` is any other ICMP
message: it may come while the child waits, and `pong()` takes it for a reply.
`ResolveFails` is the three ways the parent gives up before it sends (86, 103, 115):
each kills the child and exits, and what differs is the message printed.

### CallSequence and its scripts

A program is a sequence of steps (`Script[p]`).  A step says what it needs, gives
and frees, where control goes after success and after failure, whether failure is
`exit(EXIT_FAILURE)`, and on what it is conditional.  The actions are the same
for all: `Succeed`, `Fail`, `Exit`, `PassOver`, `Crash` (something was used that
is not held) and `Interrupt` (SIGINT, unless blocked; with `icmp_sniff`'s handler
it ends in `handler()`).  `SshScripts`, `CryptoScripts`, `CaptureScripts` and
`SocketScripts` have one definition for each function, built from named
constructors: `Get` a tested acquisition, `GetOrGoOn` an untested one, `Try`,
`Release`, `IfHeld`, `OnError`.  A loop is an offset backwards.  `MCPrograms` puts
the 45 programs together.

`CallFlow` reads a program instead of running it: bounds on what is held before
each step, from below and from above (`Flows`), and the rules of `CallSequence`
as conditions on one step and its bounds (`KeepsRules`).  `ProgramProofs` proves
that reading is enough; `MCPrograms` computes the bounds of the 45 programs, going
round until nothing changes, and `ProgramsAreRead` says that they meet the
conditions.

`Careless` is part of each script: the calls that break a rule today.  It is a
list of exceptions to `UsesWhatItHolds` and `ReleasesOnSuccess`, found by the
model checker and confirmed in the source, and the properties say that there is
no other.  It holds untested `malloc()`s that are written to, `sftp_get.c` 158
(writes although the target could not be created), the use of BIOs, of a
decrypted length and, in both `hmac()`s, of a digest and a code that nobody tested
in `pus-09`, `client3.c` 65 of `pus-04` (a
text that was never read) and the connections of `pus-02` that are overwritten
unclosed.

## Runs

| run | shows | bounds |
|---|---|---|
| ChatServerTable | the table, `readset` and the descriptors stay consistent; no call blocks that `select()` said would not | 3 clients, 2 entries, 3 descriptors: a full table, a refusal, an entry and a number reused, and a table with a hole, all in one run |
| ChatServerRoom | the loop implements the room: each member hears each event once, in one order | 3 clients that all fit: a sender and two receivers, whose orders can differ |
| ChatServerLive | those who hung up are forgotten, lines are received | 2 clients, 2 lines each, received one at a time |
| Palindrome | for a buffer of digits, letters and white space the value the header comment describes, unless the number is zero or missing; what the comparison reads; the end of the loops | all buffers of up to 6 of 6 characters (zero, two digits, a letter, a space, a punctuation mark): odd and even numbers, leading zeros, characters in between |
| PalindromeUdp | answers fit, lock step, queued lines answered | 2 clients, 2 reads of a line each, a queue of one: drops and refusals happen |
| HttpServer | own answers, kept connections, `accept()` never starves, browsers answered while the server is not killed by SIGPIPE, lost in a stale join or reading a folder | 3 browsers, 3 descriptors, so the second request finds the table full |
| Sctp | own echo and own stream, date and time of one moment, ends only as asked, who waits is answered | 2 clients that can take turns at the one socket, 2 streams that can overtake, a buffer of 4 with lines of 0, 1 and 3 characters (empty, short, one whose newline is left), so that echoes of two lengths meet, 3 rounds so that the stream number wraps, 2 ticks of the clock |
| RuleTable | one complete operation or none; a commit undoes others' changes only when opposite changes cancel in the count, or a policy changed | 2 tools and iptables, a built-in and an own chain, rule numbers 0 and 2, one appended rule: enough for a deletion and an insertion to cancel |
| Privileges | who serves has given up what he had; a refused port was not his | root and 2 users (one to start, one to become), ports around 1024 and 65616, which wraps to 80 |
| IcmpPath | checksums survive the change of a packet; the child never outlives the parent; ping ends unless something was lost | bytes of 2 bits, messages that are too short for `queuemod`, as long as the time stamp, odd and even, with few and many carries, 3 requests, a queue of 2 so that it overflows |
| Programs | what is used is held, what is acquired released, the echo restored, no password before the host key; the same read off the text of each program (`ProgramsAreRead`), which is what the proofs assume | all 45 programs, every call succeeding and failing, Ctrl-C everywhere: no bound is needed |
| ChatServerSigpipe | a violation, see below | 2 clients |

The properties speak about several steps, most of them about several actors, and
for each there is a mutant of one mapped definition that it catches: a missing
`break`, an entry not zeroed, a `maxfd` that stays at the listener, a thread not
joined, one fold of the carry too few, an id not checked.

Bounds are constants: `MaxTyped`, `MaxLines`, `MaxRounds` (what a user types),
`SndBuf` and `RcvBuf` (the sockets' buffers; 1 is the smallest that lets a send
block or a datagram be dropped), `QueueMax`, `MaxFd`, `Chunks` (turns of the
image loop), `MaxLen`, `MaxClock`, `MaxSerial`.  Users have no more than these to
do and the servers then wait for ever, which is what servers do, and the other
programs end: `CHECK_DEADLOCK FALSE` throughout.  Symmetry is used for safety
only, never in a run with a liveness property.

### Fairness

* `ChatServer!LazySpec`: the one process is scheduled: a call that can return does,
  and an idle `select()` is not made to return by the chance that it fails.  Nothing more is
  justified by the code: a user who suspends telnet stops the whole server in
  `send()` (75) and nobody else is served.  `LinesRelayed` and `GoneIsForgotten`
  are therefore checked under `FairSpec`, which adds that clients still
  connected read what they are sent, and says nothing of typing, connecting or
  hanging up.
* `HttpServer!FairSpec`: `main()` and the threads are scheduled; a connected
  browser asks or hangs up, and reads.  Without it one silent browser stops all
  the others, as `main()` waits in `pthread_join()`.  Fairness of `accept()` is
  strong: each may fail, but not for ever while a connection waits, and none need.  `Answered`
  speaks of a server that goes on: whoever waits when it is killed by SIGPIPE
  (`KilledBySigpipe`), hangs or crashes in the join after a failed `accept()`
  (`LostInStaleJoin`), or reads a folder for ever (`ReadsFolder`) is not answered.
* `PalindromeUdp!ServiceSpec`: the server is scheduled, and so is a client whose
  `recv()` can return.  Users need not type.
* `Palindrome!Spec`: the function runs.
* `Sctp!FairSpec`: the server runs, and a client whose message has arrived reads
  it.  SCTP is reliable, so nothing is lost while the server lives.
* `IcmpPath!Spec`: the processes run, and the network loses or delivers what it
  holds.  `PingEnds` excepts the runs in which something was lost or came to a
  child without a socket: the code has no timeout.  Other ICMP messages may come
  and need not.

`Privileges`, `RuleTable` and `CallSequence` state no fairness and have no
liveness property: what they do next depends on users and servers that need not
act (a password loop has no bound).

## Where code and comments part

`ChatServerSigpipe` expects a violation of `SendErrorsAreHarmless`: `send()` to a
client that went away ends the server by SIGPIPE, where
`handle_error(..., FALSE)` says it must not.  `PROJECT.json` quotes the line.

Two more promises are not kept, by `is_palindrome()`; `ReturnsAsDescribed` excepts
both kinds of buffer, and the model shows either outcome for the second.

* The comment above the function promises -1 for characters that are neither digits
  nor white space ("znaki, ktore nie sa cyframi lub znakami bialymi",
  `libpalindrome.c` 24).  The code refuses letters and passes over all others (57),
  as the comment inside it has it (49).
* It promises 1 for a palindrome and 0 otherwise (25-26), leading zeros ignored
  (13-14).  For a number of zeros only, the first comparison reads a byte that was
  never written (74), and either is returned.

Noted while modelling, inside what the models allow and without a run:

* `pus-01/server4.c`: the text relayed may end with old bytes, as the buffer is
  cleared up to its own first zero (151); `disconect_client()` never closes the
  descriptor, so a long-lived server ends at `accept()` (137).
* `pus-01/client3.c`: a line of 255 characters is sent whole and its newline, left
  for the next `fgets()`, stops the server (55); the end of the input sends empty frames and then waits
  for ever.
* `pus-01/server5.c`: after a failed `accept()` the loop joins a thread that was
  joined before or never begun (401); a `send()` is not tested and may end the
  server by SIGPIPE (324); the directory and each image stay open (118, 177), so that
  later pages list nothing; a directory named like an image is streamed for ever
  (322); the extension check has `"jpge"` for `"jpeg"` (34).
* `pus-02/server.c`: no connection is ever closed (124).
* `pus-07/libqueue.c`: for a packet that ends with the time stamp, `swap_bytes()` is
  called with a length of 0 and takes `data[0u - 1]` for the last byte (30).
* `pus-09/client.c`, `server.c`: `hmac()` tests neither the digest nor `HMAC_Init()`
  nor `HMAC_Final()`, and what they leave is printed or copied.
* `pus-03/ping.c`: any ICMP message that reaches the raw socket counts as a
  reply; after a failed `fork()` the parent kills process -1.
* `pus-07/iptcmod.c`: a table is accepted by its number of entries; a deletion
  and an insertion by others cancel, and a changed policy does not count.
* `pus-08`: a port above 65535 is compared as an `int` and wraps afterwards
  (`suidserver.c` 48); `capserver.c` 90 tests a variable that was not assigned.
* `pus-12/sftp_get.c`: the copy goes on when the target could not be created
  (158); a read error ends it like the end of the file.

## Proofs

All are for any value of the constants that satisfies the `ASSUME` of the module.

* `ChatServerProofs`: `TypeCorrect`, `TableCorrect` and `NeverBlocks`.  None is
  inductive: that an accepted connection gets a number nobody else holds depends on the
  kernel's table naming each connection once, which depends on a connection
  being not begun, in the backlog, or behind one descriptor, never two of these.
  `Inv` adds this (`OnePlace`) and what the descriptor in hand is at each `pc`
  (`InHand`).  One lemma per action.  For `NeverBlocks`, while an event of one entry
  is relayed, what was reported of the entries behind it is still so (`Reported`).
  The same module proves `ServerImplementsRoom`, the refinement, and from it
  `ServerOrder` and `ServerGreets`, the two theorems of the room for `server4.c`.  The
  room posts an event only when everybody who still listens has the last one, so
  the invariant says who is owed it at each `pc`: nobody between two loops
  (`AllServed`), the one being answered, or exactly the entries the loop of
  `send_message_to_other` has still to visit and those who have left (`Owing`); that
  the last event is a greeting only while its join is not posted (`Greeting`); and
  that who was answered does not wait to be accepted (`AnsweredOnce`).  A refused
  connection that is closed has, for the room, hung up.  One lemma per step.  The
  same invariant gives `MembersCorrect` and `DescriptorsCorrect`, which count: the
  newcomer was never reported gone, and a connection nothing was sent to yet cannot
  kill the server (`Fresh`), so whoever is refused is closed.
  What `LinesRelayed` and `GoneIsForgotten` need beside fairness is proved too.
  `RoundsEnd` counts the calls left before the next `select()` (`CallsLeft`, which
  `RoundsBounded` bounds by `MaxClients * (MaxClients + 2) + 3`): each call of
  the server lowers the count, also when a scan stops to relay, and no peer raises
  it.  `NobodyPassedOver`: `select()` is asked about every member (`Polled`), reports each that has
  news unless a newcomer comes first, and none it reported leaves the set before
  `recv()` is called on it, unless the server is killed.  `OnlyMembersHoldUp`: apart
  from an idle `select()` the server waits only to announce or relay to a member
  whose buffer is full; a newcomer's buffer is empty (`Unsent`), and nobody behind
  an open descriptor has been closed (`NotOver`).
* `ChatRoomProofs`: `RoomOrder`, the order promised by the room, with the
  strengthening that only posted events were handed out (`Posted`); and
  `RoomGreets`, that the first thing anybody is handed is the greeting or the
  refusal, and nothing later is.  That needs three more facts: nothing is
  addressed to anybody before the greeting (`GreetedBefore`), the greeting is
  posted once and to its subject (`GreetedOnce`, `MembersGreeted`), and who still
  listens has everything but perhaps the last event (`UpToDate`).
* `HttpServerProofs`: `TypeCorrect`, `AnswersStayApart`, `ConnectionsKept` and
  `AcceptNeverStarves`.  The invariant: one thread lives at a time and `main()`
  is then in the join (`OneThread`); only that thread's descriptor denotes a
  connection (`Holder`); it is its own, or free, or its own directory after a
  failed receive (`Held`).  `AcceptNeverStarves` follows a second invariant: when a
  request leaves a file open, its connection's number is still there to be given
  back (`FreeForAccept`).  For `Answered`: `ThreadsEnd`, each step of a thread lowers
  what it has left, at most `Chunks + 4` (`StepsLeft`), but for the endless loop over a
  directory named like an image; and `MainWaitsForOneBrowser`, a `main()` that joins
  waits for one thread only, and a thread that cannot step waits for its own browser.
* `PalindromeProofs`, the function: `TypeCorrect`, `ReadsCopiedDigits`,
  `DecidesPalindromes` and `ReturnValue`, for buffers of any length.  The invariant
  of the comparison: the pointers are equally far from the two ends and what is
  outside them agrees; `HalfIsEnough` turns it into a verdict on `tmp`.
  `ReturnValue` carries it to a buffer of digits, letters and white space.  A digit at `m` is copied to the place
  that is its rank among the digits (`Rank`, `Copies`), and the zeros skipped are the
  first ranks (`Skipped`); so two digits of `buff` with as many before the one as
  behind the other are mirror images in `tmp`, and the reverse (`Reads`).
  `EveryStepCounts` bounds the steps that are left (`StepsLeft`): each step lowers
  it, so that no loop runs for ever.  The service: `OneQuestionAtATime` and
  `RightAnswer`, for any number of clients and any length of the queue.  What a
  client has under way is in one place (`OnePlace`), the server's queue, its hands,
  or the client's own socket, and nowhere while it reads a line; and what is there
  is its last line or the answer to it (`OfLastLine`).  For `QueuedIsAnswered`:
  `QueuedLinesAdvance`, each step of the server lowers what is left before a queued line
  is answered (`StepsToAnswer`, two steps for each line before it) and no client's
  step raises it; and `WaitIsBounded`, at most `2 * RcvBuf + 1` of them, in none of
  which the server blocks.
* `IcmpPathProofs`: `ChecksumsCorrect`, `NoChildLeft` and `NothingVanishes`, for
  words of any size, messages of any length and any number of requests.  The
  checksum is a recursive function.  The induction theorems of the library take an
  operator as their parameter; here induction is said of a *set* of numbers
  (`Induction`, from `LeastNumber`), which gives the recursion equations of
  `sum` and `fold` (`Recursion`) and what they compute: folding the carries keeps a sum
  modulo `Word - 1`, is zero only for zero, and fits a word; complemented and
  added to the rest it makes all ones.  `swap_bytes()` changes the sum, so the checksum
  is set again behind it.  The invariant is that what travels is sound
  (`Travelling`).  `NothingVanishes` is the safety half of `PingEnds`: the numbers
  that were sent and are nowhere any more, neither under way nor lost nor missed
  (`Consumed`), are at most as many as the replies the child has counted
  (`Accounted`), so that a `ping` that waits with nothing under way has lost
  something.
* `ProgramProofs`, the servers: `TypeCorrect`, `Unprivileged` and `Refused`, for any
  users and any ports.  The invariant follows the privileges from step to step:
  those the server was started with up to the change (`AsStarted`), none of root's
  in any of the three ids after the check (`Dropped`), and in between, after a
  `setuid()` that may have failed, an id that the check will notice
  (`IdServerInv`); for the other two what is permitted and what is raised at
  `bind()` (`CapServerInv`).  The sequences of calls: `ControlStaysInside`,
  `ReadingIsSound`, and from it `UsesByReading`, `ReleasesByReading`,
  `EchoByReading` and `ServerFirstByReading`.  They hold for any programs, however
  many and however long, whose steps stay inside (`WellFormed`) and whose reading flows and
  keeps the rules.  The invariant is that what is held lies between the bounds of
  the step control has come to (`HeldWithin`); the rules then look at one step.
  That the programs of the repository fulfil the hypotheses is `ScriptAssumption`
  and `ProgramsAreRead`, which the run evaluates: a new program needs that check
  only, no exploration of its states.
* `RuleTableProofs`: `TypeCorrect`, `Complete` and `LosesOnlyMixed`, for any number of
  tools, any chains and rule numbers.  For each tool the invariant says what it has
  taken from its arguments (`Args`), in which direction the number of entries has
  moved since it read the table (`Fresh`, `Moved`: changes of one direction only
  cannot bring it back), and what its own change does to that number (`Written`,
  `Delta`), which another tool needs when it is overtaken.
* `SctpProofs`: `TypeCorrect`, `OwnEchoes`, `OneMoment` and `EndsWell`, for any
  number of clients, streams and lines.  For `server3.c` the text a client sent last is in
  exactly one place: the queue, the server's hands, or the wire on the stream due
  (`InQueue`, `InHand`, `OnTheWay`), and the stream number is the count of the
  client's own exchanges modulo `MaxStreams` (`Counted`, with the arithmetic of
  `NextRemainder`).  For `server2.c` all that a client was told is of one moment,
  that of the reading in hand while it is served (`Served`, `OfOneMoment`), and
  before it was told nothing (`Waiting`, `ToldNothing`).  For `EndsWell`, what
  `fgets()` has taken of a line is a multiple of `BuffSize - 1` until its last piece
  (`Pieces`), and an empty text comes from a client whose input ended.
  For `Answered`: `NobodyWaitsInVain`, the message of a client that waits is queued or
  in hand, or its answer is under way or the association closed (`Told`), as SCTP
  loses nothing; `QueuedAdvance`, each step of the server brings it nearer to that and
  nobody's step puts it off; and `WaitIsBounded`, with finitely many clients there are at
  most as many steps as all of them together need, since each client is in
  the queue or in hand once (`QueueLength`).

Only model-checked: the liveness properties (`GoneIsForgotten`, `LinesRelayed`,
`Terminates`, `QueuedIsAnswered`, `PingEnds`, and `Answered` of `HttpServer` and of
`Sctp`), as fairness and ENABLED are out of the prover's reach, and so is the last
step of each argument: that a number which some step lowers, and which none
raises, comes to zero.  What these arguments need of the model is proved: that
whoever waits is accounted for, the measure with its bound, and what can hold the
scheduled process up.  Where a theorem says that a call can return or a thread move
(`CallReturns`, `Moves`), the guards of the actions are written out, in place of
ENABLED.  `QueuedIsAnswered` and its theorems speak of lines that reached the queue: a
datagram that a full queue drops leaves its client waiting for ever.
In `LinesRelayed` and `GoneIsForgotten` a newcomer goes before the members; each
such round takes one connection from the backlog.

`ProgramsAreRead` is a computation on 45 given programs, which is the model checker's work.
All other properties of the passing runs are theorems.

## Not modelled

* `pus-11/arp_spoof.c`: `arp_sniff.c` with an answer to every request.  It keeps
  nothing between two frames, and no comment promises more than that it sends.
* `server5.c` 53-236, the functions that cut the name out of a request and put a
  page together: a request is a page, an image, a missing file or a directory
  named like one.  What they could do wrong is in the string library.
* Memory safety of the string functions, the layout of messages, headers and
  pages, what ciphers and digests compute, and the texts printed.
* A parent of `ping` that is killed from outside, which leaves its child behind.
* Failures of `pthread_create()`; the failure of the set-up before the loops of
  the servers in modules of their own, which ends the program.

## Plan

The text of requests in `server5.c` as sequences of tokens, so that the name
cut out of a request (53-236) is modelled and not assumed.

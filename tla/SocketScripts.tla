---------------------------- MODULE SocketScripts ----------------------------
(***************************************************************************)
(* The first exercises with sockets as sequences of calls: the clients and *)
(* servers that meet once (pus-01), the greeting servers and the address   *)
(* tools (pus-02), the senders with raw sockets (pus-03), the SCTP pairs   *)
(* (pus-04; what the last two of them tell each other is in Sctp) and the  *)
(* daemon (pus-08).                                                        *)
(***************************************************************************)
EXTENDS CallSequence

Listening(n) == <<Get("socket", {}, n), Try("bind", {n}), Try("listen", {n})>>

(* pus-01: the date once, then the client closes first. *)
server1 ==
  <<Try("argc", {})>> \o Listening("listenfd")
  \o <<Get("accept", {"listenfd"}, "connfd"),
       Call("write", {"connfd"}), Call("read", {"connfd"}),
       Release("close connfd", "connfd"), Release("close listenfd", "listenfd")>>

client1 ==
  <<Try("argc", {}), Get("socket", {}, "sockfd"), Try("inet_pton", {}), Try("connect", {"sockfd"}),
    Call("read", {"sockfd"}), Release("close", "sockfd")>>

server2 ==
  <<Try("argc", {}), Get("socket", {}, "sockfd"), Try("bind", {"sockfd"}),
    Get("recvfrom", {"sockfd"}, "message"), Try("sendto", {"sockfd", "message"}),
    Release("close", "sockfd")>>

client2 ==
  <<Try("argc", {}), Get("socket", {}, "sockfd"), Try("inet_pton", {}), Try("sendto", {"sockfd"}),
    Get("recvfrom", {"sockfd"}, "message"), Call("terminate", {"message"}), Release("close", "sockfd")>>

(* pus-02: one greeting for each connection, which is not closed; a client  *)
(* that is gone before it is served ends the server.                        *)
server ==
  Listening("listen_fd")
  \o <<[Call("getsockname", {"listen_fd"}) EXCEPT !.err = {1}],
       Get("accept", {"listen_fd"}, "connfd"),
       [Try("send", {"connfd"}) EXCEPT !.ok = {-1}]>>

server4 == server
server6 == server

(* The three clients differ in how they come by the address. *)
GreetingClient(address) ==
  <<Try("argc", {})>> \o address
  \o <<Try("connect", {"client_fd"}), Call("recv", {"client_fd"}), Release("close", "client_fd")>>

client ==
  GreetingClient(<<Get("getaddrinfo", {}, "result"), Get("socket", {"result"}, "client_fd")>>)
  \o <<Release("freeaddrinfo", "result")>>

(* What cannot be converted is connected to as the address of zeros it was. *)
ConvertOrGoOn == [Call("inet_pton", {}) EXCEPT !.err = {1}]

client4 == GreetingClient(<<Get("socket", {}, "client_fd"), ConvertOrGoOn>>)

client6 == GreetingClient(<<Try("if_nametoindex", {}), Get("socket", {}, "client_fd"), ConvertOrGoOn>>)

hostname2ip ==
  <<Try("argc", {}), Get("getaddrinfo", {}, "result"),
    OrTo(Try("getnameinfo", {"result"}), 0), IfHeld(Release("freeaddrinfo", "result"), "result")>>

(* Three functions read an IPv4 address and do not take the same ones; it   *)
(* is valid when all of them do.  An address that is neither IPv4 nor IPv6  *)
(* ends the program, and what is not valid is not converted back.           *)
Valid4 == {"inet_aton", "inet_addr", "inet_pton4"}

ipaddr ==
  <<Try("argc", {}),
    GetOrGoOn("inet_aton", {}, "inet_aton"), GetOrGoOn("inet_addr", {}, "inet_addr"),
    [Get("inet_pton AF_INET", {}, "inet_pton4") EXCEPT !.err = {1}],
    [Get("inet_pton AF_INET6", {}, "inet_pton6") EXCEPT !.err = {1}],
    [Call("!invalid4", {}) EXCEPT !.test = Valid4, !.ok = {3}],
    [Call("!invalid6", {}) EXCEPT !.test = {"inet_pton6"}, !.ok = {2}],
    [Try("exit", {}) EXCEPT !.ok = {}],
    [Call("inet_ntop AF_INET", Valid4) EXCEPT !.test = Valid4],
    IfHeld(Call("inet_ntop AF_INET6", {"inet_pton6"}), "inet_pton6")>>

(* pus-03: the first address of the list for which a socket is to be had; *)
(* the address is read again for every datagram.                          *)
RawSocket ==
  <<Try("argc", {}), Get("getaddrinfo", {}, "result"),
    [Get("socket", {"result"}, "sockfd") EXCEPT !.err = {0}], Try("setsockopt", {"sockfd"})>>

udp == RawSocket \o <<[Call("sendto", {"sockfd", "result"}) EXCEPT !.ok = {0}]>>
tcp == udp
udpv6 == udp

ssrr_freed_early ==
  RawSocket
  \o <<Release("freeaddrinfo", "result"), Call("sendto", {"sockfd", "result"}), Release("close", "sockfd")>>

ssrr ==
  RawSocket
  \o <<Call("sendto", {"sockfd", "result"}), Release("freeaddrinfo", "result"), Release("close", "sockfd")>>

(* pus-04: echo until the other side closes, or until an empty line. *)
sctp_server1_keeps_connfd ==
  <<Try("argc", {})>> \o Listening("listenfd")
  \o <<Get("accept", {"listenfd"}, "connfd"),
       OrTo(Try("recv", {"connfd"}), 3),
       [Try("send", {"connfd"}) EXCEPT !.ok = {-1}],
       Release("close connfd", "connfd"), Release("close listenfd", "listenfd")>>

sctp_server1 ==
  <<Try("argc", {})>> \o Listening("listenfd")
  \o <<Get("accept", {"listenfd"}, "connfd"),
       OrTo(Try("recv", {"connfd"}), 2),
       [Try("send", {"connfd"}) EXCEPT !.ok = {-1}],
       Release("close connfd", "connfd"), Release("close listenfd", "listenfd")>>

sctp_client1 ==
  <<Try("argc", {}), Get("getaddrinfo", {}, "result"), Get("socket", {"result"}, "sockfd"),
    Try("connect", {"sockfd", "result"}), Release("freeaddrinfo", "result"),
    OrTo(Call("fgets", {}), 3), Try("send", {"sockfd"}), [Try("recv", {"sockfd"}) EXCEPT !.ok = {-2}],
    Release("close", "sockfd")>>

(* The date and the time to each client; a message that cannot be sent is left out. *)
sctp_server2 ==
  <<Try("argc", {})>> \o Listening("listenfd")
  \o <<Call("setsockopt", {"listenfd"}), Get("accept", {"listenfd"}, "connfd"),
       Call("sctp_sendmsg time", {"connfd"}), Call("sctp_sendmsg date", {"connfd"}),
       [Release("close connfd", "connfd") EXCEPT !.ok = {-3}]>>

SctpClient ==
  <<Try("argc", {}), Get("socket", {}, "sockfd"), Try("inet_pton", {}), Call("setsockopt", {"sockfd"})>>

sctp_client2 ==
  SctpClient
  \o <<Try("connect", {"sockfd"}), Try("getsockopt", {"sockfd"}), OrTo(Try("sctp_recvmsg", {"sockfd"}), 0)>>

sctp_server3 ==
  <<Try("argc", {})>> \o Listening("fd")
  \o <<Call("setsockopt", {"fd"}), Try("sctp_recvmsg", {"fd"}), [Try("sctp_sendmsg", {"fd"}) EXCEPT !.ok = {-1}]>>

(* The last character goes even when fgets() has read none. *)
sctp_client3 ==
  SctpClient
  \o <<[GetOrGoOn("fgets", {}, "text") EXCEPT !.ok = {1, 5}],
       Call("cut newline", {"text"}), Try("sctp_sendmsg", {"sockfd"}),
       [Call("memset", {}) EXCEPT !.frees = {"text"}], [Try("sctp_recvmsg", {"sockfd"}) EXCEPT !.ok = {-4}],
       [Release("close", "sockfd") EXCEPT !.frees = {"sockfd", "text"}]>>

(* pus-08: the child's view; the parent has ended when fork() returned.  The *)
(* file opened in between is closed unless it is one of the first three.     *)
daemonize ==
  <<Try("fork", {}), Try("setsid", {}), Try("chdir", {}), Get("open /dev/null", {}, "null"),
    Call("dup2", {"null"}), Release("close null", "null")>>

daemon ==
  <<Try("argc", {}), Get("socket", {}, "listenfd"), Try("setsockopt", {"listenfd"}),
    Try("bind", {"listenfd"}), Try("listen", {"listenfd"})>>
  \o daemonize
  \o <<Get("accept", {"listenfd"}, "connfd"), Try("send", {"connfd"}),
       Release("close connfd", "connfd"), Release("close listenfd", "listenfd")>>

SocketPrograms ==
  [server1 |-> server1, client1 |-> client1, server2 |-> server2, client2 |-> client2,
   server |-> server, server4 |-> server4, server6 |-> server6, client |-> client, client4 |-> client4, client6 |-> client6,
   hostname2ip |-> hostname2ip, ipaddr |-> ipaddr, udp |-> udp, tcp |-> tcp, udpv6 |-> udpv6,
   ssrr |-> ssrr, sctp_server1 |-> sctp_server1, sctp_client1 |-> sctp_client1,
   sctp_server2 |-> sctp_server2, sctp_client2 |-> sctp_client2,
   sctp_server3 |-> sctp_server3, sctp_client3 |-> sctp_client3, daemon |-> daemon]

(* The greeting servers lose the descriptor of every connection but the    *)
(* last, and client3 takes a character from the line it may not have read. *)
SocketCareless ==
  {<<p, "accept">> : p \in {"server", "server4", "server6"}} \cup {<<"sctp_client3", "cut newline">>}
=============================================================================

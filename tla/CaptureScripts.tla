--------------------------- MODULE CaptureScripts ---------------------------
(***************************************************************************)
(* The packet capture tools (pus-11) and the life of the netfilter queue    *)
(* tools (pus-07; what they do to a packet is in IcmpPath) as sequences of  *)
(* calls.  They run until they are interrupted; only the ICMP tools catch   *)
(* SIGINT, and their handler() reads the capture from a global variable.    *)
(***************************************************************************)
EXTENDS CallSequence

Filter ==
  <<Get("pcap_compile", {"capture"}, "filter"), Try("pcap_setfilter", {"capture", "filter"})>>

(* pcap_loop() calls callback() for every packet and ends with an error only. *)
arp_sniff ==
  <<Try("argc", {}), Get("pcap_open_live", {}, "capture"), Try("pcap_datalink", {"capture"})>>
  \o Filter
  \o <<Release("pcap_freecode", "filter"), OrTo(Try("pcap_loop", {"capture"}), 0)>>

(* One packet of the loop: none yet, not of interest, or its sender is shown. *)
NextPacket ==
  <<[Get("pcap_next_ex", {"capture"}, "packet") EXCEPT !.ok = {0, 1}],
    OrTo(Call("caplen and type", {"packet"}), -1),
    OrTo([Try("inet_ntop", {"packet"}) EXCEPT !.ok = {}], -2)>>

(* handler() may run from here on, and finds the capture open. *)
CaughtCapture ==
  <<Get("pcap_open_live", {}, "capture"),
    [Try("sigaction", {}) EXCEPT !.gives = {"handler"}]>>

icmp_sniff ==
  <<Try("argc", {})>> \o CaughtCapture
  \o <<Try("pcap_datalink", {"capture"})>> \o NextPacket

(* The filter program lies where malloc() said, which is not tested. *)
icmp_filter ==
  <<Try("argc", {}), GetOrGoOn("malloc", {}, "program")>> \o CaughtCapture
  \o <<Try("pcap_datalink", {"capture"}), Call("write filter", {"program"})>> \o Filter \o NextPacket

(* Every address of every interface; a name that is not found ends it all. *)
devices ==
  <<Get("pcap_findalldevs", {}, "list"),
    [Call("next address", {"list"}) EXCEPT !.ok = {0, 1, 2}],
    [Try("getnameinfo", {"list"}) EXCEPT !.ok = {-1}],
    Release("pcap_freealldevs", "list")>>

pf_packet ==
  <<Get("socket", {}, "socket"), [Try("recvfrom", {"socket"}) EXCEPT !.ok = {0}]>>

(* A packet that cannot be received ends the loop and is no failure; an      *)
(* interface without a name, met while a packet is printed, is one.          *)
queue ==
  <<Get("nfq_open", {}, "h"), Try("nfq_unbind_pf", {"h"}), Try("nfq_bind_pf", {"h"}),
    Get("nfq_create_queue", {"h"}, "qh"), Try("nfq_set_mode", {"qh"}),
    [Call("recv", {"h", "qh"}) EXCEPT !.err = {2}],
    [Try("nfq_handle_packet", {"h", "qh"}) EXCEPT !.ok = {-1}],
    Release("nfq_destroy_queue", "qh"), Release("nfq_close", "h")>>

queuemod == queue

CapturePrograms ==
  [arp_sniff |-> arp_sniff, icmp_sniff |-> icmp_sniff, icmp_filter |-> icmp_filter,
   devices |-> devices, pf_packet |-> pf_packet, queue |-> queue, queuemod |-> queuemod]

CaptureCareless == {<<"icmp_filter", "write filter">>}
=============================================================================

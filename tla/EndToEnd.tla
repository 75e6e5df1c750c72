------------------------------ MODULE EndToEnd ------------------------------
(***************************************************************************)
(* The network side of apps/endtoend.cpp, run as the server: the host's    *)
(* NetworkInterfaceAdapter (used by the TCP thread), the network thread    *)
(* with its router of two interfaces, and, across the Internet, the other  *)
(* program's router, which is one more NetworkInterface with clients       *)
(* behind it.  That other program may be restarted with a new (random)     *)
(* Ethernet address.                                                       *)
(*                                                                         *)
(*   host <-- socket pair --> host_side [router] internet_side <-- UDP --> *)
(*                                                                remote   *)
(*                                                                         *)
(* The network thread ticks the router's interfaces after every event,     *)
(* whatever time has passed.                                               *)
(***************************************************************************)
EXTENDS Router, TCPOverIP

CONSTANTS
    HostIP, HostSideIP, InternetSideIP, RemoteIP,
    HostEther, HostSideEther, InternetSideEther,
    RemoteEthers,       \* bound: the addresses of the other program's runs
    Server,             \* the endpoint the host listens on
    Arrivals,           \* bound: what clients send: [client, SYN, ttl]
    Routes,             \* the calls of add_route
    MaxFaults,          \* bound: frames the Internet loses
    WireCap             \* bound: endpoints send while fewer places hold frames

HostSide     == 0       \* the interface numbers add_interface returns
InternetSide == 1
TickMs       == 1       \* the 10 ms of the network thread

ASSUME EndToEndAssumption ==
    /\ RemoteEthers \in Seq(STRING) /\ RemoteEthers # << >>
    /\ \A a \in Arrivals : a.ttl \in 1 .. DEFAULT_TTL
    /\ {Server.ip} \cup {a.client.ip : a \in Arrivals} \subseteq Address
    /\ {Server.port} \cup {a.client.port : a \in Arrivals} \subseteq Nat
    /\ MaxFaults \in Nat /\ WireCap \in Nat

(***************************************************************************)
(* The four interfaces have an address each.                               *)
(***************************************************************************)
ASSUME AddressAssumption ==
    /\ {HostIP, HostSideIP, InternetSideIP, RemoteIP} \subseteq Address
    /\ HostIP \notin {HostSideIP, InternetSideIP, RemoteIP}
    /\ HostSideIP \notin {InternetSideIP, RemoteIP}
    /\ InternetSideIP # RemoteIP

(***************************************************************************)
(* What the program passes to add_route: one route for each network, given *)
(* by an address without host bits; and the host is in the network behind  *)
(* the host's side.                                                        *)
(***************************************************************************)
Covers(r, addr) ==
    addr \div TwoTo[AddrBits - r.prefix_length] = r.route_prefix \div TwoTo[AddrBits - r.prefix_length]

Longest(rs, addr) ==
    {r \in rs : /\ Covers(r, addr)
                /\ \A s \in rs : Covers(s, addr) => s.prefix_length <= r.prefix_length}

ASSUME RoutesAssumption ==
    /\ \A r \in Routes :
           /\ r.prefix_length \in PrefixLengths
           /\ r.route_prefix \in Address /\ r.route_prefix % TwoTo[AddrBits - r.prefix_length] = 0
           /\ r.interface_num \in {HostSide, InternetSide}
           /\ r.next_hop \in Address \cup {None}
    /\ \A r, s \in Routes :
           r.prefix_length = s.prefix_length /\ r.route_prefix = s.route_prefix => r = s
    /\ \A r \in Longest(Routes, HostIP) : r.interface_num = HostSide

VARIABLES
    host,       \* the adapter and its interface
    router,     \* the Router
    pending,    \* the routes still to be added
    remote,     \* the other program's interface
    wire,       \* the frames at each place, in order
    runs,       \* how often the other program has been started
    faults,
    accepted,   \* the clients of whom a segment was handed to TCP
    answered    \* the clients to whom the remote interface got a datagram

vars == << host, router, pending, remote, wire, runs, faults, accepted, answered >>

(***************************************************************************)
(* The places of a frame: the two directions of the socket pair, the       *)
(* router's two FramesOut queues, and the two directions of the Internet.  *)
(***************************************************************************)
Places == {"host to router", "frames to host", "router to host",
           "frames to internet", "router to remote", "remote to router"}

(***************************************************************************)
(* Frames put into a queue.  A frame equal to one that is still there      *)
(* counts as one: a retransmission changes nothing.                        *)
(***************************************************************************)
Enqueue(queue, frames) ==
    LET put[k \in 0 .. Len(frames)] ==
            IF k = 0 THEN queue
            ELSE LET q == put[k - 1]
                 IN  IF Contains(q, frames[k]) THEN q ELSE Append(q, frames[k])
    IN  put[Len(frames)]

Occupied == {p \in Places : wire[p] # << >>}

Init ==
    /\ host = [iface |-> NewInterface(HostEther, HostIP), adapter |-> ListeningAdapter(Server)]
    /\ router = NewRouter([num \in {HostSide, InternetSide} |->
                              IF num = HostSide THEN NewInterface(HostSideEther, HostSideIP)
                              ELSE NewInterface(InternetSideEther, InternetSideIP)])
    /\ pending = Routes
    /\ remote = NewInterface(RemoteEthers[1], RemoteIP)
    /\ wire = [p \in Places |-> << >>]
    /\ runs = 1 /\ faults = 0
    /\ accepted = {} /\ answered = {}

-----------------------------------------------------------------------------
(***************************************************************************)
(* The main thread sets up the router before it starts the others.         *)
(***************************************************************************)
SetUpRoute(route) ==
    /\ UNCHANGED << host, remote, wire, runs, faults, accepted, answered >>
    /\ router' = AddRoute(router, route)
    /\ pending' = pending \ {route}

Running == pending = {}

(***************************************************************************)
(* NetworkInterfaceAdapter::write, for a segment of the connected peer.    *)
(***************************************************************************)
HostWrite ==
    LET out == SendDatagram(host.iface, Wrapped(host.adapter, TRUE, FALSE), HostSideIP)
    IN  /\ ~host.adapter.listening /\ Cardinality(Occupied) < WireCap
        /\ UNCHANGED << router, pending, remote, runs, faults, accepted, answered >>
        /\ host' = [host EXCEPT !.iface = out.iface]
        /\ wire' = [wire EXCEPT !["host to router"] = Enqueue(@, out.sent)]

(***************************************************************************)
(* NetworkInterfaceAdapter::read: one frame, then at most one datagram.    *)
(***************************************************************************)
HostRead ==
    /\ wire["router to host"] # << >>
    /\ UNCHANGED << router, pending, remote, runs, faults, answered >>
    /\ \E c \in RecvFrame(host.iface, Head(wire["router to host"])) :
        LET got   == c.iface.datagrams_received
            rest  == [c.iface EXCEPT !.datagrams_received = IF @ = << >> THEN @ ELSE Tail(@)]
            taken == got # << >> /\ Accepts(host.adapter, Head(got))
        IN  /\ wire' = [wire EXCEPT !["router to host"] = Tail(@),
                                    !["host to router"] = Enqueue(@, c.sent)]
            /\ host' = [iface |-> rest,
                        adapter |-> IF taken THEN Bound(host.adapter, Head(got)) ELSE host.adapter]
            /\ accepted' = IF taken
                           THEN accepted \cup {[ip |-> Head(got).src, port |-> Head(got).payload.src_port]}
                           ELSE accepted

(***************************************************************************)
(* NetworkInterfaceAdapter::tick, from the TCP thread's loop.              *)
(***************************************************************************)
HostTick ==
    /\ UNCHANGED << router, pending, remote, wire, runs, faults, accepted, answered >>
    /\ host' = [host EXCEPT !.iface = TickInterface(@, TickMs)]

-----------------------------------------------------------------------------
(***************************************************************************)
(* The end of a pass of the network thread's loop.                         *)
(***************************************************************************)
Ticked(r) == [r EXCEPT !.interfaces = [num \in DOMAIN @ |-> TickInterface(@[num], TickMs)]]

(***************************************************************************)
(* A frame for the router: recv_frame, route, and the tick.                *)
(***************************************************************************)
RouterReceives(from, num) ==
    /\ Running /\ wire[from] # << >>
    /\ UNCHANGED << host, pending, remote, runs, faults, accepted, answered >>
    /\ \E c \in RecvFrame(router.interfaces[num], Head(wire[from])) :
        \E routed \in Route([router EXCEPT !.interfaces[num] = c.iface]) :
            LET sent(n) == (IF n = num THEN c.sent ELSE << >>) \o routed.sent[n]
            IN  /\ router' = Ticked(routed.router)
                /\ wire' = [wire EXCEPT ![from] = Tail(@),
                                        !["frames to host"] = Enqueue(@, sent(HostSide)),
                                        !["frames to internet"] = Enqueue(@, sent(InternetSide))]

FramesFromHost     == RouterReceives("host to router", HostSide)
FramesFromInternet == RouterReceives("remote to router", InternetSide)

(***************************************************************************)
(* A frame of a FramesOut queue is written to the socket it is for.        *)
(***************************************************************************)
RouterWrites(from, to) ==
    /\ Running /\ wire[from] # << >>
    /\ UNCHANGED << host, pending, remote, runs, faults, accepted, answered >>
    /\ wire' = [wire EXCEPT ![from] = Tail(@), ![to] = Enqueue(@, << Head(wire[from]) >>)]
    /\ router' = Ticked(router)

FramesToHost     == RouterWrites("frames to host", "router to host")
FramesToInternet == RouterWrites("frames to internet", "router to remote")

(***************************************************************************)
(* wait_next_event times out.                                              *)
(***************************************************************************)
LoopTimeout ==
    /\ Running
    /\ UNCHANGED << host, pending, remote, wire, runs, faults, accepted, answered >>
    /\ router' = Ticked(router)

-----------------------------------------------------------------------------
(***************************************************************************)
(* The other program's router: a client's segment is forwarded to us, a    *)
(* frame of ours arrives, time passes, the program is started anew.        *)
(***************************************************************************)
RemoteSends(a) ==
    LET dgram == ComputeChecksum(
                    [ttl |-> a.ttl, proto |-> PROTO_TCP, cksum |-> 0,
                     src |-> a.client.ip, dst |-> HostIP,
                     payload |-> [src_port |-> a.client.port, dst_port |-> Server.port,
                                  SYN |-> a.SYN, RST |-> FALSE]])
        out   == SendDatagram(remote, dgram, InternetSideIP)
    IN  /\ Running /\ Cardinality(Occupied) < WireCap
        /\ UNCHANGED << host, router, pending, runs, faults, accepted, answered >>
        /\ remote' = out.iface
        /\ wire' = [wire EXCEPT !["remote to router"] = Enqueue(@, out.sent)]

RemoteReceives ==
    /\ wire["router to remote"] # << >>
    /\ UNCHANGED << host, router, pending, runs, faults, accepted >>
    /\ \E c \in RecvFrame(remote, Head(wire["router to remote"])) :
        LET got == c.iface.datagrams_received
        IN  /\ remote' = [c.iface EXCEPT !.datagrams_received = << >>]
            /\ wire' = [wire EXCEPT !["router to remote"] = Tail(@),
                                    !["remote to router"] = Enqueue(@, c.sent)]
            /\ answered' = answered \cup {[ip |-> d.dst, port |-> d.payload.dst_port] : d \in ToSet(got)}

RemoteTick ==
    /\ UNCHANGED << host, router, pending, wire, runs, faults, accepted, answered >>
    /\ remote' = TickInterface(remote, TickMs)

RemoteRestart ==
    /\ Running /\ runs < Len(RemoteEthers)
    /\ UNCHANGED << host, router, pending, wire, faults, accepted, answered >>
    /\ remote' = NewInterface(RemoteEthers[runs + 1], RemoteIP)
    /\ runs' = runs + 1

(***************************************************************************)
(* The Internet loses a frame, or delays it behind later ones.             *)
(***************************************************************************)
Internet == {"router to remote", "remote to router"}

Lose(p) ==
    /\ wire[p] # << >> /\ faults < MaxFaults
    /\ UNCHANGED << host, router, pending, remote, runs, accepted, answered >>
    /\ wire' = [wire EXCEPT ![p] = Tail(@)]
    /\ faults' = faults + 1

Delay(p) ==
    /\ Len(wire[p]) > 1
    /\ UNCHANGED << host, router, pending, remote, runs, faults, accepted, answered >>
    /\ wire' = [wire EXCEPT ![p] = Append(Tail(@), Head(@))]

Next ==
    \/ \E route \in pending : SetUpRoute(route)
    \/ HostWrite
    \/ HostRead
    \/ HostTick
    \/ FramesFromHost
    \/ FramesFromInternet
    \/ FramesToHost
    \/ FramesToInternet
    \/ LoopTimeout
    \/ \E a \in Arrivals : RemoteSends(a)
    \/ RemoteReceives
    \/ RemoteTick
    \/ RemoteRestart
    \/ \E p \in Internet : Lose(p)
    \/ \E p \in Internet : Delay(p)

Spec == Init /\ [][Next]_vars

(***************************************************************************)
(* Both threads and the other program run; clients retransmit their SYN,   *)
(* and TCP its answer.                                                     *)
(***************************************************************************)
Fairness ==
    /\ WF_vars(\E route \in pending : SetUpRoute(route))
    /\ SF_vars(HostWrite) /\ WF_vars(HostRead) /\ WF_vars(HostTick)
    /\ WF_vars(FramesFromHost) /\ WF_vars(FramesFromInternet)
    /\ WF_vars(FramesToHost) /\ WF_vars(FramesToInternet)
    /\ WF_vars(LoopTimeout)
    /\ \A a \in Arrivals : SF_vars(RemoteSends(a))
    /\ WF_vars(RemoteReceives) /\ WF_vars(RemoteTick)

FairSpec == Spec /\ Fairness

-----------------------------------------------------------------------------
Waiting == host.iface.datagrams_waiting \cup remote.datagrams_waiting
               \cup UNION {router.interfaces[num].datagrams_waiting : num \in {HostSide, InternetSide}}

DatagramsUnderWay ==
    {f.payload : f \in {g \in UNION {ToSet(wire[p]) : p \in Places} : g.type = "IPv4"}}

(***************************************************************************)
(* No receiver's parser rejects a datagram of the stack: although routers  *)
(* change headers on the way, every one that is on the wire or waits for a *)
(* mapping has a valid checksum and has not run out of hops.               *)
(***************************************************************************)
HeadersAccepted ==
    \A d \in DatagramsUnderWay \cup {w.dgram : w \in Waiting} : HeaderParses(d) /\ d.ttl > 0

(***************************************************************************)
(* The listening adapter serves one client: TCP is only ever handed the    *)
(* segments of the one whose SYN came first, whatever others send, and     *)
(* only that client is answered.                                           *)
(***************************************************************************)
OneConnection == Cardinality(accepted) <= 1 /\ answered \subseteq accepted

(***************************************************************************)
(* Whatever any interface has learned, from requests, replies and frames   *)
(* that come late, an IP address is mapped to an Ethernet address that its *)
(* owner really had.                                                       *)
(***************************************************************************)
EtherOf(ip) ==
    CASE ip = HostIP         -> {HostEther}
      [] ip = HostSideIP     -> {HostSideEther}
      [] ip = InternetSideIP -> {InternetSideEther}
      [] ip = RemoteIP       -> {RemoteEthers[k] : k \in 1 .. runs}
      [] OTHER               -> {}

MappingsTrue ==
    \A i \in {host.iface, remote, router.interfaces[HostSide], router.interfaces[InternetSide]} :
        \A ip \in DOMAIN i.arp_addr_table : i.arp_addr_table[ip].ether \in EtherOf(ip)

(***************************************************************************)
(* The rotated keys and the shifted lookups of the 32 tables find, for     *)
(* every address and in whatever order the routes were added, the route of *)
(* the longest prefix the address has, and none if it has none.            *)
(***************************************************************************)
LongestPrefix ==
    \A addr \in Address :
        LET added == Routes \ pending
        IN  /\ Hits(router, addr) = {r.prefix_length : r \in {s \in added : Covers(s, addr)}}
            /\ \A r \in Longest(added, addr) :
                   Match(router, addr) = [interface_num |-> r.interface_num, next_hop |-> r.next_hop]

(***************************************************************************)
(* A client that keeps sending its SYN gets through to the host and is     *)
(* answered: whatever ARP has to find out on three links, whichever        *)
(* requests and replies are lost, whenever mappings expire, and although   *)
(* the other program comes back with another address.                      *)
(***************************************************************************)
Conversation == <>(accepted # {}) /\ (accepted # {} ~> answered = accepted)
=============================================================================

--------------------------- MODULE EndToEndProofs ---------------------------
(***************************************************************************)
(* Proofs about the network side of the end-to-end application, for every  *)
(* configuration: what is on the wire, what the interfaces know, what the  *)
(* router does with a datagram, and whom the host talks to.                *)
(***************************************************************************)
EXTENDS EndToEnd, TCPMessagesProofs, FiniteSetTheorems

(***************************************************************************)
(* The Ethernet addresses an IP address has had once the other program has *)
(* been started n times.                                                   *)
(***************************************************************************)
EthersOf(n, ip) ==
    CASE ip = HostIP         -> {HostEther}
      [] ip = HostSideIP     -> {HostSideEther}
      [] ip = InternetSideIP -> {InternetSideEther}
      [] ip = RemoteIP       -> {RemoteEthers[k] : k \in 1 .. n}
      [] OTHER               -> {}

(***************************************************************************)
(* Datagrams the parsers accept, and which of them are where: on the way   *)
(* to the host, or from it (to one of the clients it has accepted).        *)
(***************************************************************************)
DatagramOf(ttl, proto, cksum, src, dst, payload) ==
    [ttl |-> ttl, proto |-> proto, cksum |-> cksum, src |-> src, dst |-> dst, payload |-> payload]

GoodDatagram(d) ==
    /\ d = DatagramOf(d.ttl, d.proto, d.cksum, d.src, d.dst, d.payload)
    /\ d.ttl \in Nat /\ d.ttl > 0
    /\ HeaderParses(d)

ToHost(d)        == d.dst = HostIP
FromHost(acc, d) == [ip |-> d.dst, port |-> d.payload.dst_port] \in acc

OnWay(acc, way, d) ==
    /\ way = "to host" => ToHost(d)
    /\ way = "from host" => FromHost(acc, d)
    /\ way = "either" => ToHost(d) \/ FromHost(acc, d)

(***************************************************************************)
(* An ARP message, request or reply, tells the truth about its sender.     *)
(***************************************************************************)
GoodFrame(n, acc, way, f) ==
    /\ f.type \in {"IPv4", "ARP"}
    /\ f.type = "IPv4" => GoodDatagram(f.payload) /\ OnWay(acc, way, f.payload)
    /\ f.type = "ARP" => f.payload.sender_ethernet_address \in EthersOf(n, f.payload.sender_ip_address)

GoodFrames(n, acc, way, q) ==
    /\ q \in Seq(ToSet(q))
    /\ \A f \in ToSet(q) : GoodFrame(n, acc, way, f)

GoodQueue(acc, way, q) ==
    /\ q \in Seq(ToSet(q))
    /\ \A d \in ToSet(q) : GoodDatagram(d) /\ OnWay(acc, way, d)

(***************************************************************************)
(* An interface: its own address is true, so is all it has learned, and    *)
(* what waits is good and on its way.                                      *)
(***************************************************************************)
InterfaceOf(ether, ip, table, requests, waiting, received) ==
    [ether |-> ether, ip |-> ip, arp_addr_table |-> table, arp_requests |-> requests,
     datagrams_waiting |-> waiting, datagrams_received |-> received]

TrueTable(n, table) ==
    \A ip \in DOMAIN table :
        /\ table[ip] = [ether |-> table[ip].ether, timer |-> table[ip].timer]
        /\ table[ip].ether \in EthersOf(n, ip)

GoodWaiting(acc, way, waiting) ==
    /\ IsFiniteSet(waiting)
    /\ \A w \in waiting : GoodDatagram(w.dgram) /\ OnWay(acc, way, w.dgram)

GoodInterface(n, acc, way, i, ip) ==
    /\ i = InterfaceOf(i.ether, i.ip, i.arp_addr_table, i.arp_requests,
                       i.datagrams_waiting, i.datagrams_received)
    /\ i.ip = ip
    /\ i.ether \in EthersOf(n, ip)
    /\ TrueTable(n, i.arp_addr_table)
    /\ GoodWaiting(acc, way, i.datagrams_waiting)

(***************************************************************************)
(* The routing table holds the routes added, each at its key.              *)
(***************************************************************************)
Key(r)   == r.route_prefix \div TwoTo[AddrBits - r.prefix_length]
Entry(r) == [interface_num |-> r.interface_num, next_hop |-> r.next_hop]

HoldsRoutes(table, added) ==
    /\ table = [len \in PrefixLengths |-> table[len]]
    /\ \A len \in PrefixLengths :
           DOMAIN table[len] = {Key(r) : r \in {s \in added : s.prefix_length = len}}
    /\ \A r \in added : table[r.prefix_length][Key(r)] = Entry(r)

RouterWay(num) == IF num = InternetSide THEN "from host" ELSE "either"
RouterIP(num)  == IF num = InternetSide THEN InternetSideIP ELSE HostSideIP
Sides          == {HostSide, InternetSide}

GoodRouter(n, acc, r) ==
    /\ r = [interfaces |-> r.interfaces, routing_table |-> r.routing_table]
    /\ r.interfaces = [num \in Sides |-> r.interfaces[num]]
    /\ \A num \in Sides : GoodInterface(n, acc, RouterWay(num), r.interfaces[num], RouterIP(num))

WayOf(p) ==
    IF p \in {"host to router", "frames to internet", "router to remote"} THEN "from host"
    ELSE IF p = "remote to router" THEN "to host" ELSE "either"

GoodWire(n, acc, w) ==
    /\ w = [p \in Places |-> w[p]]
    /\ \A p \in Places : GoodFrames(n, acc, WayOf(p), w[p])

(***************************************************************************)
(* The inductive invariant.                                                *)
(***************************************************************************)
RunsSound == runs \in 1 .. Len(RemoteEthers)

HostSound ==
    /\ host = [iface |-> host.iface, adapter |-> host.adapter]
    /\ GoodInterface(runs, accepted, "from host", host.iface, HostIP)
    /\ host.iface.datagrams_received = << >>

RemoteSound ==
    /\ GoodInterface(runs, accepted, "to host", remote, RemoteIP)
    /\ remote.datagrams_received = << >>

RouterSound ==
    /\ GoodRouter(runs, accepted, router)
    /\ \A num \in Sides : router.interfaces[num].datagrams_received = << >>

TablesSound == pending \subseteq Routes /\ HoldsRoutes(router.routing_table, Routes \ pending)

WireSound == GoodWire(runs, accepted, wire)

ClientOf(a) == [ip |-> a.destination.ip, port |-> a.destination.port]

ConnectionSound ==
    /\ host.adapter.listening \in BOOLEAN
    /\ accepted = IF host.adapter.listening THEN {} ELSE {ClientOf(host.adapter)}
    /\ answered \subseteq accepted

IInv ==
    /\ RunsSound /\ HostSound /\ RemoteSound /\ RouterSound
    /\ TablesSound /\ WireSound /\ ConnectionSound

-----------------------------------------------------------------------------
(***************************************************************************)
(* Queues of frames: none, one, and the parts and sums of good ones.       *)
(***************************************************************************)
LEMMA SequenceOfRange ==
    ASSUME NEW S, NEW q \in Seq(S)
    PROVE  q \in Seq(ToSet(q)) /\ ToSet(q) \subseteq S
BY DEF ToSet

(***************************************************************************)
(* A sequence of good frames is a good queue.                              *)
(***************************************************************************)
LEMMA GoodFramesFrom ==
    ASSUME NEW n, NEW acc, NEW way, NEW S, NEW q \in Seq(S),
           \A f \in S : GoodFrame(n, acc, way, f)
    PROVE  GoodFrames(n, acc, way, q)
BY SequenceOfRange DEF GoodFrames

(***************************************************************************)
(* The empty queue and a single good frame.                                *)
(***************************************************************************)
LEMMA ShortQueues ==
    ASSUME NEW n, NEW acc, NEW way
    PROVE  /\ GoodFrames(n, acc, way, << >>)
           /\ \A f : GoodFrame(n, acc, way, f) => GoodFrames(n, acc, way, << f >>)
<1>1. GoodFrames(n, acc, way, << >>)
  <2>1. << >> \in Seq(ToSet(<< >>)) /\ ToSet(<< >>) = {}
    BY DEF ToSet
  <2> QED BY <2>1 DEF GoodFrames
<1>2. ASSUME NEW f, GoodFrame(n, acc, way, f)
      PROVE  GoodFrames(n, acc, way, << f >>)
  <2>1. << f >> \in Seq(ToSet(<< f >>)) /\ ToSet(<< f >>) = {f}
    BY DEF ToSet
  <2> QED BY <2>1, <1>2 DEF GoodFrames
<1> QED BY <1>1, <1>2

(***************************************************************************)
(* The head and the tail of a good queue.                                  *)
(***************************************************************************)
LEMMA QueueParts ==
    ASSUME NEW n, NEW acc, NEW way, NEW q, GoodFrames(n, acc, way, q), q # << >>
    PROVE  /\ GoodFrame(n, acc, way, Head(q))
           /\ GoodFrames(n, acc, way, Tail(q))
           /\ GoodFrames(n, acc, way, Append(Tail(q), Head(q)))
<1> DEFINE S == ToSet(q)
<1>1. q \in Seq(S) /\ \A f \in S : GoodFrame(n, acc, way, f)
  BY DEF GoodFrames
<1> HIDE DEF S
<1>2. Head(q) \in S /\ Tail(q) \in Seq(S)
  BY <1>1
<1>3. Append(Tail(q), Head(q)) \in Seq(S)
  BY <1>2
<1> QED BY <1>1, <1>2, <1>3, GoodFramesFrom

(***************************************************************************)
(* One good queue after another.                                           *)
(***************************************************************************)
LEMMA QueuesJoined ==
    ASSUME NEW n, NEW acc, NEW way, NEW p, NEW q,
           GoodFrames(n, acc, way, p), GoodFrames(n, acc, way, q)
    PROVE  GoodFrames(n, acc, way, p \o q)
<1> DEFINE S == ToSet(p)
           T == ToSet(q)
           U == S \cup T
<1>1. p \in Seq(S) /\ q \in Seq(T)
  BY DEF GoodFrames
<1>2. \A f \in U : GoodFrame(n, acc, way, f)
  BY DEF GoodFrames
<1> HIDE DEF S, T
<1>3. p \in Seq(U) /\ q \in Seq(U)
  BY <1>1
<1> HIDE DEF U
<1>4. p \o q \in Seq(U)
  BY <1>3
<1> QED BY <1>2, <1>4, GoodFramesFrom

(***************************************************************************)
(* The value of put in Enqueue after k frames.                             *)
(***************************************************************************)
IsPutting(g, queue, frames, m) ==
    g = [k \in 0 .. m |->
            IF k = 0 THEN queue
            ELSE LET q == g[k - 1]
                 IN  IF Contains(q, frames[k]) THEN q ELSE Append(q, frames[k])]

(***************************************************************************)
(* The recursion of Enqueue has a solution.                                *)
(***************************************************************************)
LEMMA PuttingExists ==
    ASSUME NEW queue, NEW frames, NEW m \in Nat
    PROVE  \E g : IsPutting(g, queue, frames, m)
<1> DEFINE S == {k \in 0 .. m : \E g : IsPutting(g, queue, frames, k)}
<1>1. 0 \in S
  <2> DEFINE g == [k \in 0 .. 0 |-> queue]
  <2>1. IsPutting(g, queue, frames, 0)
    BY DEF IsPutting
  <2> HIDE DEF g
  <2> QED BY <2>1
<1>2. ASSUME NEW i \in S, i < m
      PROVE  i + 1 \in S
  <2>1. PICK g : IsPutting(g, queue, frames, i)
    OBVIOUS
  <2> DEFINE q == g[i]
             last == IF Contains(q, frames[i + 1]) THEN q ELSE Append(q, frames[i + 1])
             h == [k \in 0 .. i + 1 |-> IF k = i + 1 THEN last ELSE g[k]]
  <2>2. i \in 0 .. m /\ i + 1 \in 0 .. m
    BY <1>2
  <2>3. \A k \in 0 .. i : g[k] = IF k = 0 THEN queue
                                 ELSE LET r == g[k - 1]
                                      IN  IF Contains(r, frames[k]) THEN r ELSE Append(r, frames[k])
    BY <2>1 DEF IsPutting
  <2>4. ASSUME NEW k \in 0 .. i + 1
        PROVE  h[k] = IF k = 0 THEN queue
                      ELSE LET r == h[k - 1]
                           IN  IF Contains(r, frames[k]) THEN r ELSE Append(r, frames[k])
    <3>1. CASE k = i + 1
      <4>1. h[k] = last /\ h[k - 1] = g[i] /\ k # 0 /\ k = i + 1
        BY <2>2, <3>1
      <4> HIDE DEF h
      <4> QED BY <4>1
    <3>2. CASE k # i + 1
      <4>1. k \in 0 .. i /\ h[k] = g[k] /\ (k # 0 => h[k - 1] = g[k - 1])
        BY <2>2, <3>2
      <4> HIDE DEF h
      <4> QED BY <4>1, <2>3
    <3> QED BY <3>1, <3>2
  <2>5. DOMAIN h = 0 .. i + 1 /\ h = [k \in 0 .. i + 1 |-> h[k]]
    BY <2>2
  <2> HIDE DEF h, last, q
  <2>6. IsPutting(h, queue, frames, i + 1)
    BY <2>4, <2>5 DEF IsPutting
  <2> QED BY <2>2, <2>6
<1>3. S = 0 .. m
  <2> HIDE DEF S
  <2>1. S \in SUBSET (0 .. m)
    BY DEF S
  <2> QED BY <1>1, <1>2, <2>1, BoundedInduction
<1> QED BY <1>3

(***************************************************************************)
(* Good frames put into a good queue leave it good.                        *)
(***************************************************************************)
LEMMA EnqueueGood ==
    ASSUME NEW n, NEW acc, NEW way, NEW queue, NEW frames,
           GoodFrames(n, acc, way, queue), GoodFrames(n, acc, way, frames)
    PROVE  GoodFrames(n, acc, way, Enqueue(queue, frames))
<1> DEFINE m == Len(frames)
           U == ToSet(queue) \cup ToSet(frames)
           put == CHOOSE g : IsPutting(g, queue, frames, m)
<1>1. m \in Nat /\ queue \in Seq(U) /\ \A k \in 1 .. m : frames[k] \in U
  <2>1. frames \in Seq(ToSet(frames)) /\ queue \in Seq(ToSet(queue))
    BY DEF GoodFrames
  <2> QED BY <2>1 DEF ToSet
<1>2. \A f \in U : GoodFrame(n, acc, way, f)
  BY DEF GoodFrames
<1>3. Enqueue(queue, frames) = put[m]
  BY DEF Enqueue, IsPutting
<1>4. IsPutting(put, queue, frames, m)
  <2> HIDE DEF m
  <2> QED BY <1>1, PuttingExists
<1> HIDE DEF m, U, put
<1> DEFINE S == {k \in 0 .. m : put[k] \in Seq(U)}
<1>5. 0 \in S
  BY <1>1, <1>4 DEF IsPutting
<1>6. ASSUME NEW i \in S, i < m
      PROVE  i + 1 \in S
  <2>1. i + 1 \in 1 .. m /\ put[i] \in Seq(U) /\ frames[i + 1] \in U
    BY <1>1, <1>6
  <2>2. \A k \in 0 .. m : put[k] = IF k = 0 THEN queue
                                 ELSE LET q == put[k - 1]
                                      IN  IF Contains(q, frames[k]) THEN q ELSE Append(q, frames[k])
    BY <1>4 DEF IsPutting
  <2>3. i + 1 \in 0 .. m /\ i + 1 # 0 /\ (i + 1) - 1 = i
    BY <1>1, <2>1
  <2>4. put[i + 1] = put[i] \/ put[i + 1] = Append(put[i], frames[i + 1])
    BY <2>2, <2>3
  <2>5. Append(put[i], frames[i + 1]) \in Seq(U)
    BY <2>1
  <2>6. put[i + 1] \in Seq(U)
    BY <2>1, <2>4, <2>5
  <2> QED BY <2>3, <2>6
<1>7. S = 0 .. m
  <2>1. S \in SUBSET (0 .. m)
    OBVIOUS
  <2>2. m \in Nat
    BY <1>1
  <2> HIDE DEF S
  <2> QED BY <1>5, <1>6, <2>1, <2>2, BoundedInduction
<1>8. put[m] \in Seq(U)
  BY <1>1, <1>7
<1> QED BY <1>2, <1>3, <1>8, GoodFramesFrom

-----------------------------------------------------------------------------
(***************************************************************************)
(* A header whose checksum was just computed is one the parser accepts:    *)
(* the checksum field is not part of the sum.                              *)
(***************************************************************************)
LEMMA ChecksumGood ==
    ASSUME NEW ttl \in Nat, ttl > 0, NEW proto, NEW cksum, NEW src, NEW dst, NEW payload
    PROVE  LET d == ComputeChecksum(DatagramOf(ttl, proto, cksum, src, dst, payload))
           IN  GoodDatagram(d) /\ d.dst = dst /\ d.payload = payload
<1> DEFINE b  == DatagramOf(ttl, proto, cksum, src, dst, payload)
           v  == Value(HeaderSum(b))
           d  == DatagramOf(ttl, proto, v, src, dst, payload)
<1>1. HeaderSum(d) = HeaderSum(b)
  BY DEF HeaderSum, DatagramOf
<1>2. ComputeChecksum(b) = d
  <2> HIDE DEF v
  <2>1. [b EXCEPT !.cksum = v] = d
    BY DEF DatagramOf
  <2> QED BY <2>1 DEF ComputeChecksum, v
<1>3. ComputeChecksum(d) = d
  <2>1. Value(HeaderSum(d)) = v
    BY <1>1
  <2> HIDE DEF v
  <2>2. [d EXCEPT !.cksum = v] = d
    BY DEF DatagramOf
  <2> QED BY <2>1, <2>2 DEF ComputeChecksum
<1> HIDE DEF v
<1>4. d.ttl = ttl /\ d.dst = dst /\ d.payload = payload /\ d = DatagramOf(d.ttl, d.proto, d.cksum, d.src, d.dst, d.payload)
  BY DEF DatagramOf
<1> HIDE DEF d
<1>5. GoodDatagram(d)
  BY <1>3, <1>4 DEF GoodDatagram, HeaderParses
<1> QED BY <1>2, <1>4, <1>5

(***************************************************************************)
(* What a router forwards is good and has the same way to go.              *)
(***************************************************************************)
LEMMA ForwardedGood ==
    ASSUME NEW acc, NEW way, NEW d, GoodDatagram(d), OnWay(acc, way, d), d.ttl > 1
    PROVE  GoodDatagram(Forwarded(d)) /\ OnWay(acc, way, Forwarded(d)) /\ Forwarded(d).dst = d.dst
<1> DEFINE b == DatagramOf(d.ttl - 1, d.proto, d.cksum, d.src, d.dst, d.payload)
<1>1. d = DatagramOf(d.ttl, d.proto, d.cksum, d.src, d.dst, d.payload) /\ d.ttl \in Nat
  BY DEF GoodDatagram
<1>2. [d EXCEPT !.ttl = @ - 1] = b
  BY <1>1 DEF DatagramOf
<1>3. d.ttl - 1 \in Nat /\ d.ttl - 1 > 0
  BY <1>1
<1> DEFINE e == ComputeChecksum(b)
           t == d.ttl - 1
<1>4. GoodDatagram(e) /\ e.dst = d.dst /\ e.payload = d.payload
  <2> HIDE DEF t
  <2> QED BY <1>3, ChecksumGood DEF t
<1>5. Forwarded(d) = e
  BY <1>2 DEF Forwarded
<1> HIDE DEF e
<1>6. OnWay(acc, way, e)
  BY <1>4 DEF OnWay, ToHost, FromHost
<1> QED BY <1>4, <1>5, <1>6

-----------------------------------------------------------------------------
(***************************************************************************)
(* A new interface is good if its address is its owner's.                  *)
(***************************************************************************)
LEMMA NewInterfaceGood ==
    ASSUME NEW n, NEW acc, NEW way, NEW ip, NEW ether \in EthersOf(n, ip)
    PROVE  /\ GoodInterface(n, acc, way, NewInterface(ether, ip), ip)
           /\ NewInterface(ether, ip).datagrams_received = << >>
<1> DEFINE i == InterfaceOf(ether, ip, << >>, << >>, {}, << >>)
<1>1. NewInterface(ether, ip) = i
  BY DEF NewInterface, InterfaceOf
<1>2. /\ i.ether = ether /\ i.ip = ip /\ i.arp_addr_table = << >> /\ i.arp_requests = << >>
      /\ i.datagrams_waiting = {} /\ i.datagrams_received = << >>
  BY DEF InterfaceOf
<1>3. i = InterfaceOf(i.ether, i.ip, i.arp_addr_table, i.arp_requests,
                      i.datagrams_waiting, i.datagrams_received)
  BY <1>2
<1>4. TrueTable(n, << >>) /\ GoodWaiting(acc, way, {})
  BY FS_EmptySet DEF TrueTable, GoodWaiting
<1> HIDE DEF i
<1> QED BY <1>1, <1>2, <1>3, <1>4 DEF GoodInterface

(***************************************************************************)
(* An interface with another table of true mappings.                       *)
(***************************************************************************)
LEMMA TableChanged ==
    ASSUME NEW n, NEW acc, NEW way, NEW ip, NEW i, GoodInterface(n, acc, way, i, ip),
           NEW table, TrueTable(n, table)
    PROVE  LET j == [i EXCEPT !.arp_addr_table = table]
           IN  /\ GoodInterface(n, acc, way, j, ip)
               /\ j.ether = i.ether /\ j.ip = i.ip /\ j.arp_requests = i.arp_requests
               /\ j.datagrams_waiting = i.datagrams_waiting /\ j.datagrams_received = i.datagrams_received /\ j.arp_addr_table = table
<1> DEFINE j == InterfaceOf(i.ether, i.ip, table, i.arp_requests, i.datagrams_waiting, i.datagrams_received)
<1>1. i = InterfaceOf(i.ether, i.ip, i.arp_addr_table, i.arp_requests,
                      i.datagrams_waiting, i.datagrams_received)
  BY DEF GoodInterface
<1>2. [i EXCEPT !.arp_addr_table = table] = j
  BY <1>1 DEF InterfaceOf
<1>3. /\ j.ether = i.ether /\ j.ip = i.ip /\ j.arp_requests = i.arp_requests
      /\ j.datagrams_waiting = i.datagrams_waiting /\ j.datagrams_received = i.datagrams_received /\ j.arp_addr_table = table
  BY DEF InterfaceOf
<1>4. j = InterfaceOf(j.ether, j.ip, j.arp_addr_table, j.arp_requests,
                      j.datagrams_waiting, j.datagrams_received)
  BY <1>3
<1> HIDE DEF j
<1>5. GoodInterface(n, acc, way, j, ip)
  BY <1>3, <1>4 DEF GoodInterface
<1> QED BY <1>2, <1>3, <1>5

(***************************************************************************)
(* An interface with other requests.                                       *)
(***************************************************************************)
LEMMA RequestsChanged ==
    ASSUME NEW n, NEW acc, NEW way, NEW ip, NEW i, GoodInterface(n, acc, way, i, ip),
           NEW requests
    PROVE  LET j == [i EXCEPT !.arp_requests = requests]
           IN  /\ GoodInterface(n, acc, way, j, ip)
               /\ j.ether = i.ether /\ j.ip = i.ip /\ j.arp_addr_table = i.arp_addr_table
               /\ j.datagrams_waiting = i.datagrams_waiting /\ j.datagrams_received = i.datagrams_received /\ j.arp_requests = requests
<1> DEFINE j == InterfaceOf(i.ether, i.ip, i.arp_addr_table, requests, i.datagrams_waiting, i.datagrams_received)
<1>1. i = InterfaceOf(i.ether, i.ip, i.arp_addr_table, i.arp_requests,
                      i.datagrams_waiting, i.datagrams_received)
  BY DEF GoodInterface
<1>2. [i EXCEPT !.arp_requests = requests] = j
  BY <1>1 DEF InterfaceOf
<1>3. /\ j.ether = i.ether /\ j.ip = i.ip /\ j.arp_addr_table = i.arp_addr_table
      /\ j.datagrams_waiting = i.datagrams_waiting /\ j.datagrams_received = i.datagrams_received /\ j.arp_requests = requests
  BY DEF InterfaceOf
<1>4. j = InterfaceOf(j.ether, j.ip, j.arp_addr_table, j.arp_requests,
                      j.datagrams_waiting, j.datagrams_received)
  BY <1>3
<1> HIDE DEF j
<1>5. GoodInterface(n, acc, way, j, ip)
  BY <1>3, <1>4 DEF GoodInterface
<1> QED BY <1>2, <1>3, <1>5

(***************************************************************************)
(* An interface for which other good datagrams wait.                       *)
(***************************************************************************)
LEMMA WaitingChanged ==
    ASSUME NEW n, NEW acc, NEW way, NEW ip, NEW i, GoodInterface(n, acc, way, i, ip),
           NEW waiting, GoodWaiting(acc, way, waiting)
    PROVE  LET j == [i EXCEPT !.datagrams_waiting = waiting]
           IN  /\ GoodInterface(n, acc, way, j, ip)
               /\ j.ether = i.ether /\ j.ip = i.ip /\ j.arp_addr_table = i.arp_addr_table
               /\ j.arp_requests = i.arp_requests /\ j.datagrams_received = i.datagrams_received /\ j.datagrams_waiting = waiting
<1> DEFINE j == InterfaceOf(i.ether, i.ip, i.arp_addr_table, i.arp_requests, waiting, i.datagrams_received)
<1>1. i = InterfaceOf(i.ether, i.ip, i.arp_addr_table, i.arp_requests,
                      i.datagrams_waiting, i.datagrams_received)
  BY DEF GoodInterface
<1>2. [i EXCEPT !.datagrams_waiting = waiting] = j
  BY <1>1 DEF InterfaceOf
<1>3. /\ j.ether = i.ether /\ j.ip = i.ip /\ j.arp_addr_table = i.arp_addr_table
      /\ j.arp_requests = i.arp_requests /\ j.datagrams_received = i.datagrams_received /\ j.datagrams_waiting = waiting
  BY DEF InterfaceOf
<1>4. j = InterfaceOf(j.ether, j.ip, j.arp_addr_table, j.arp_requests,
                      j.datagrams_waiting, j.datagrams_received)
  BY <1>3
<1> HIDE DEF j
<1>5. GoodInterface(n, acc, way, j, ip)
  BY <1>3, <1>4 DEF GoodInterface
<1> QED BY <1>2, <1>3, <1>5

(***************************************************************************)
(* An interface with another queue for its owner.                          *)
(***************************************************************************)
LEMMA ReceivedChanged ==
    ASSUME NEW n, NEW acc, NEW way, NEW ip, NEW i, GoodInterface(n, acc, way, i, ip),
           NEW received
    PROVE  LET j == [i EXCEPT !.datagrams_received = received]
           IN  /\ GoodInterface(n, acc, way, j, ip)
               /\ j.ether = i.ether /\ j.ip = i.ip /\ j.arp_addr_table = i.arp_addr_table
               /\ j.arp_requests = i.arp_requests /\ j.datagrams_waiting = i.datagrams_waiting /\ j.datagrams_received = received
<1> DEFINE j == InterfaceOf(i.ether, i.ip, i.arp_addr_table, i.arp_requests, i.datagrams_waiting, received)
<1>1. i = InterfaceOf(i.ether, i.ip, i.arp_addr_table, i.arp_requests,
                      i.datagrams_waiting, i.datagrams_received)
  BY DEF GoodInterface
<1>2. [i EXCEPT !.datagrams_received = received] = j
  BY <1>1 DEF InterfaceOf
<1>3. /\ j.ether = i.ether /\ j.ip = i.ip /\ j.arp_addr_table = i.arp_addr_table
      /\ j.arp_requests = i.arp_requests /\ j.datagrams_waiting = i.datagrams_waiting /\ j.datagrams_received = received
  BY DEF InterfaceOf
<1>4. j = InterfaceOf(j.ether, j.ip, j.arp_addr_table, j.arp_requests,
                      j.datagrams_waiting, j.datagrams_received)
  BY <1>3
<1> HIDE DEF j
<1>5. GoodInterface(n, acc, way, j, ip)
  BY <1>3, <1>4 DEF GoodInterface
<1> QED BY <1>2, <1>3, <1>5

(***************************************************************************)
(* send_datagram: the interface stays good, nothing is received, and what  *)
(* it sends is good.                                                       *)
(***************************************************************************)
LEMMA SendGood ==
    ASSUME NEW n, NEW acc, NEW way, NEW ip, NEW i, GoodInterface(n, acc, way, i, ip),
           NEW dgram, GoodDatagram(dgram), OnWay(acc, way, dgram), NEW next_hop
    PROVE  LET out == SendDatagram(i, dgram, next_hop)
           IN  /\ GoodInterface(n, acc, way, out.iface, ip)
               /\ out.iface.datagrams_received = i.datagrams_received
               /\ GoodFrames(n, acc, way, out.sent)
<1> DEFINE more   == i.datagrams_waiting \cup {[ip |-> next_hop, dgram |-> dgram]}
           waits  == [i EXCEPT !.datagrams_waiting = more]
           asked  == Assigned(i.arp_requests, next_hop, 0)
           asks   == [waits EXCEPT !.arp_requests = asked]
           ask    == ARPMessage(i, "REQUEST", next_hop, None)
           direct == Frame(i, "IPv4", dgram, i.arp_addr_table[next_hop].ether)
           arp    == Frame(i, "ARP", ask, BROADCAST)
           out    == SendDatagram(i, dgram, next_hop)
<1>2. GoodWaiting(acc, way, more)
  <2>1. IsFiniteSet(i.datagrams_waiting) /\ \A w \in i.datagrams_waiting : GoodDatagram(w.dgram) /\ OnWay(acc, way, w.dgram)
    BY DEF GoodInterface, GoodWaiting
  <2>2. IsFiniteSet(more)
    BY <2>1, FS_AddElement
  <2>3. \A w \in more : GoodDatagram(w.dgram) /\ OnWay(acc, way, w.dgram)
    BY <2>1
  <2> QED BY <2>2, <2>3 DEF GoodWaiting
<1> HIDE DEF more, asked
<1>3. GoodInterface(n, acc, way, waits, ip) /\ waits.datagrams_received = i.datagrams_received
      /\ waits.arp_requests = i.arp_requests
  BY <1>2, WaitingChanged
<1> HIDE DEF waits
<1>4. GoodInterface(n, acc, way, asks, ip) /\ asks.datagrams_received = i.datagrams_received
  BY <1>3, RequestsChanged
<1>8. GoodFrame(n, acc, way, direct)
  <2>1. direct.type = "IPv4" /\ direct.payload = dgram
    BY DEF Frame
  <2> QED BY <2>1 DEF GoodFrame
<1>9. GoodFrame(n, acc, way, arp)
  <2>1. arp.type = "ARP" /\ arp.payload = ask
    BY DEF Frame
  <2>2. ask.sender_ethernet_address = i.ether /\ ask.sender_ip_address = i.ip
    BY DEF ARPMessage
  <2>3. i.ether \in EthersOf(n, i.ip)
    BY DEF GoodInterface
  <2> QED BY <2>1, <2>2, <2>3 DEF GoodFrame
<1>10. out = IF next_hop \in DOMAIN i.arp_addr_table THEN Outcome(i, << direct >>)
             ELSE IF next_hop \in DOMAIN i.arp_requests THEN Outcome(waits, << >>)
             ELSE Outcome(asks, << arp >>)
  BY <1>3 DEF SendDatagram, waits, more, asked
<1> HIDE DEF asks, direct, arp, out
<1>11. GoodFrames(n, acc, way, << >>) /\ GoodFrames(n, acc, way, << direct >>) /\ GoodFrames(n, acc, way, << arp >>)
  BY <1>8, <1>9, ShortQueues
<1>12. \A j, s : Outcome(j, s).iface = j /\ Outcome(j, s).sent = s
  BY DEF Outcome
<1>13. \/ out.iface = i /\ out.sent = << direct >>
       \/ out.iface = waits /\ out.sent = << >>
       \/ out.iface = asks /\ out.sent = << arp >>
  BY <1>10, <1>12
<1> QED BY <1>3, <1>4, <1>11, <1>13 DEF out

(***************************************************************************)
(* tick: mappings go or grow older, they do not change.                    *)
(***************************************************************************)
LEMMA TickGood ==
    ASSUME NEW n, NEW acc, NEW way, NEW ip, NEW i, GoodInterface(n, acc, way, i, ip), NEW ms
    PROVE  /\ GoodInterface(n, acc, way, TickInterface(i, ms), ip)
           /\ TickInterface(i, ms).datagrams_received = i.datagrams_received
<1> DEFINE old    == i.arp_addr_table
           mapped == {a \in DOMAIN old : old[a].timer + ms <= RTO_map}
           table  == [a \in mapped |-> [old[a] EXCEPT !.timer = @ + ms]]
           req    == i.arp_requests
           asked  == {a \in DOMAIN req : req[a] + ms <= RTO_arp}
           left   == [a \in asked |-> req[a] + ms]
           aged   == [i EXCEPT !.arp_addr_table = table]
           j      == [aged EXCEPT !.arp_requests = left]
<1>1. TickInterface(i, ms) = j
  <2> DEFINE ager == [a \in mapped |-> [i.arp_addr_table[a] EXCEPT !.timer = @ + ms]]
             kept == [a \in asked |-> i.arp_requests[a] + ms]
  <2>1. i = InterfaceOf(i.ether, i.ip, i.arp_addr_table, i.arp_requests,
                        i.datagrams_waiting, i.datagrams_received)
    BY DEF GoodInterface
  <2>2. TickInterface(i, ms) = [i EXCEPT !.arp_addr_table = ager, !.arp_requests = kept]
    BY DEF TickInterface
  <2> HIDE DEF ager, kept
  <2>3. [i EXCEPT !.arp_addr_table = ager, !.arp_requests = kept]
            = [[i EXCEPT !.arp_addr_table = ager] EXCEPT !.arp_requests = kept]
    BY <2>1 DEF InterfaceOf
  <2> QED BY <2>2, <2>3 DEF ager, kept
<1>2. TrueTable(n, old)
  BY DEF GoodInterface
<1>3. TrueTable(n, table)
  <2>1. ASSUME NEW a \in DOMAIN table
        PROVE  /\ table[a] = [ether |-> table[a].ether, timer |-> table[a].timer]
               /\ table[a].ether \in EthersOf(n, a)
    <3>1. a \in DOMAIN old
      BY <2>1
    <3>2. old[a] = [ether |-> old[a].ether, timer |-> old[a].timer] /\ old[a].ether \in EthersOf(n, a)
      BY <1>2, <3>1 DEF TrueTable
    <3>3. table[a] = [ether |-> old[a].ether, timer |-> old[a].timer + ms]
      BY <2>1, <3>2
    <3> QED BY <3>2, <3>3
  <2> HIDE DEF table
  <2> QED BY <2>1 DEF TrueTable
<1> HIDE DEF table, left
<1>4. GoodInterface(n, acc, way, aged, ip) /\ aged.datagrams_received = i.datagrams_received
  BY <1>3, TableChanged
<1> HIDE DEF aged
<1>5. GoodInterface(n, acc, way, j, ip) /\ j.datagrams_received = aged.datagrams_received
  BY <1>4, RequestsChanged
<1> QED BY <1>1, <1>4, <1>5

(***************************************************************************)
(* An ARP message that is true teaches the truth.                          *)
(***************************************************************************)
LEMMA LearnGood ==
    ASSUME NEW n, NEW acc, NEW way, NEW ip, NEW i, GoodInterface(n, acc, way, i, ip), NEW arp,
           arp.sender_ethernet_address \in EthersOf(n, arp.sender_ip_address)
    PROVE  LET j == Learn(i, arp)
           IN  /\ GoodInterface(n, acc, way, j, ip)
               /\ j.datagrams_received = i.datagrams_received
<1> DEFINE old   == i.arp_addr_table
           who   == arp.sender_ip_address
           entry == [ether |-> arp.sender_ethernet_address, timer |-> 0]
           table == Assigned(old, who, entry)
<1>1. TrueTable(n, old)
  BY DEF GoodInterface
<1>2. entry = [ether |-> entry.ether, timer |-> entry.timer] /\ entry.ether \in EthersOf(n, who)
  OBVIOUS
<1>3. Learn(i, arp) = [i EXCEPT !.arp_addr_table = table]
  BY DEF Learn
<1> HIDE DEF entry, who
<1>4. TrueTable(n, table)
  <2>1. ASSUME NEW a \in DOMAIN table
        PROVE  /\ table[a] = [ether |-> table[a].ether, timer |-> table[a].timer]
               /\ table[a].ether \in EthersOf(n, a)
    <3>1. CASE a = who
      <4>1. table[a] = entry
        BY <2>1, <3>1 DEF Assigned
      <4> QED BY <1>2, <3>1, <4>1
    <3>2. CASE a # who
      <4>1. a \in DOMAIN old /\ table[a] = old[a]
        BY <2>1, <3>2 DEF Assigned
      <4> QED BY <1>1, <4>1 DEF TrueTable
    <3> QED BY <3>1, <3>2
  <2> HIDE DEF table
  <2> QED BY <2>1 DEF TrueTable
<1> HIDE DEF table
<1> QED BY <1>3, <1>4, TableChanged

(***************************************************************************)
(* What an ARP reply releases is good, and so is what still waits.         *)
(***************************************************************************)
LEMMA FlushGood ==
    ASSUME NEW n, NEW acc, NEW way, NEW ip, NEW i, GoodInterface(n, acc, way, i, ip), NEW arp,
           NEW c \in Flush(i, arp)
    PROVE  /\ GoodInterface(n, acc, way, c.iface, ip)
           /\ c.iface.datagrams_received = i.datagrams_received
           /\ GoodFrames(n, acc, way, c.sent)
<1> DEFINE waiting == i.datagrams_waiting
           ready   == {w \in waiting : w.ip = arp.sender_ip_address}
           rest    == waiting \ ready
           left    == [i EXCEPT !.datagrams_waiting = rest]
           sent(ws) == [k \in DOMAIN ws |->
                           Frame(i, "IPv4", ws[k].dgram, arp.sender_ethernet_address)]
<1>1. PICK ws \in SetToSeqs(ready) : c = Outcome(left, sent(ws))
  BY DEF Flush
<1>2. c.iface = left /\ c.sent = sent(ws)
  BY <1>1 DEF Outcome
<1>3. GoodWaiting(acc, way, waiting)
  BY DEF GoodInterface
<1>4. IsFiniteSet(ready) /\ GoodWaiting(acc, way, rest)
  <2>1. IsFiniteSet(waiting) /\ ready \subseteq waiting /\ rest \subseteq waiting
    BY <1>3 DEF GoodWaiting
  <2>2. IsFiniteSet(ready) /\ IsFiniteSet(rest)
    BY <2>1, FS_Subset
  <2> QED BY <1>3, <2>1, <2>2 DEF GoodWaiting
<1>5. ws \in [1 .. Cardinality(ready) -> ready] /\ Cardinality(ready) \in Nat
  BY <1>1, <1>4, FS_CardinalityType DEF SetToSeqs
<1>6. \A w \in ready : GoodDatagram(w.dgram) /\ OnWay(acc, way, w.dgram)
  BY <1>3 DEF GoodWaiting
<1> HIDE DEF ready, rest
<1>7. GoodInterface(n, acc, way, left, ip) /\ left.datagrams_received = i.datagrams_received
  BY <1>4, WaitingChanged
<1> DEFINE FrameTo(w) == Frame(i, "IPv4", w.dgram, arp.sender_ethernet_address)
           T == {FrameTo(w) : w \in ready}
<1>8. \A f \in T : GoodFrame(n, acc, way, f)
  <2>1. ASSUME NEW w \in ready
        PROVE  GoodFrame(n, acc, way, FrameTo(w))
    <3>1. FrameTo(w).type = "IPv4" /\ FrameTo(w).payload = w.dgram
      BY DEF Frame
    <3> QED BY <1>6, <3>1 DEF GoodFrame
  <2> QED BY <2>1
<1>9. sent(ws) \in Seq(T)
  <2>1. DOMAIN ws = 1 .. Cardinality(ready) /\ \A k \in 1 .. Cardinality(ready) : ws[k] \in ready
    BY <1>5
  <2>2. sent(ws) = [k \in 1 .. Cardinality(ready) |-> FrameTo(ws[k])]
    BY <2>1
  <2>3. \A k \in 1 .. Cardinality(ready) : FrameTo(ws[k]) \in T
    BY <2>1
  <2> HIDE DEF FrameTo, T
  <2>4. [k \in 1 .. Cardinality(ready) |-> FrameTo(ws[k])] \in Seq(T)
    BY <2>3, <1>5
  <2> QED BY <2>2, <2>4
<1>10. GoodFrames(n, acc, way, sent(ws))
  <2> HIDE DEF T, sent
  <2> QED BY <1>8, <1>9, GoodFramesFrom
<1> QED BY <1>2, <1>7, <1>10

(***************************************************************************)
(* What recv_frame does for a good frame: the interface stays good, what   *)
(* it sends is good, and the owner gets nothing, or the datagram of a      *)
(* frame of type IPv4.                                                     *)
(***************************************************************************)
LEMMA RecvGood ==
    ASSUME NEW n, NEW acc, NEW way, NEW ip, NEW i, GoodInterface(n, acc, way, i, ip),
           i.datagrams_received = << >>,
           NEW from, NEW f, GoodFrame(n, acc, from, f), NEW c \in RecvFrame(i, f)
    PROVE  /\ GoodInterface(n, acc, way, c.iface, ip)
           /\ GoodFrames(n, acc, way, c.sent)
           /\ \/ c.iface.datagrams_received = << >>
              \/ /\ c.iface.datagrams_received = << f.payload >>
                 /\ GoodDatagram(f.payload) /\ OnWay(acc, from, f.payload)
<1>1. GoodFrames(n, acc, way, << >>)
  BY ShortQueues
<1>2. \A j, s : Outcome(j, s).iface = j /\ Outcome(j, s).sent = s
  BY DEF Outcome
<1>3. CASE f.dst \notin {BROADCAST, i.ether}
  <2>1. c = Outcome(i, << >>)
    BY <1>3 DEF RecvFrame
  <2> QED BY <1>1, <1>2, <2>1
<1>4. CASE f.dst \in {BROADCAST, i.ether} /\ f.type = "ARP"
  <2> DEFINE arp     == f.payload
             learned == Learn(i, arp)
             answer  == ARPMessage(i, "REPLY", arp.sender_ip_address, arp.sender_ethernet_address)
             reply   == Frame(i, "ARP", answer, arp.sender_ethernet_address)
  <2>1. c \in ReceiveARP(i, arp)
    BY <1>4 DEF RecvFrame
  <2>2. arp.sender_ethernet_address \in EthersOf(n, arp.sender_ip_address)
    BY <1>4 DEF GoodFrame
  <2>3. GoodInterface(n, acc, way, learned, ip) /\ learned.datagrams_received = << >>
    <3> HIDE DEF arp
    <3> QED BY <2>2, LearnGood
  <2>4. GoodFrame(n, acc, way, reply)
    <3>1. reply.type = "ARP" /\ reply.payload = answer
      BY DEF Frame
    <3>2. answer.sender_ethernet_address = i.ether /\ answer.sender_ip_address = i.ip
      BY DEF ARPMessage
    <3>3. i.ether \in EthersOf(n, i.ip)
      BY DEF GoodInterface
    <3> HIDE DEF reply, answer
    <3> QED BY <3>1, <3>2, <3>3 DEF GoodFrame
  <2>5. c \in Flush(learned, arp) \/ c = Outcome(learned, << reply >>) \/ c = Outcome(learned, << >>)
    BY <2>1 DEF ReceiveARP
  <2> HIDE DEF learned, reply, arp
  <2>6. GoodFrames(n, acc, way, << reply >>)
    BY <2>4, ShortQueues
  <2>7. CASE c \in Flush(learned, arp)
    BY <2>3, <2>7, FlushGood
  <2>8. CASE c = Outcome(learned, << reply >>) \/ c = Outcome(learned, << >>)
    BY <1>1, <1>2, <2>3, <2>6, <2>8
  <2> QED BY <2>5, <2>7, <2>8
<1>5. CASE f.dst \in {BROADCAST, i.ether} /\ f.type # "ARP"
  <2> DEFINE d   == f.payload
             got == << d >>
             j   == [i EXCEPT !.datagrams_received = got]
  <2>1. GoodDatagram(d) /\ OnWay(acc, from, d)
    BY <1>5 DEF GoodFrame
  <2>2. [i EXCEPT !.datagrams_received = Append(@, d)] = j
    BY DEF j
  <2>3. c = Outcome(j, << >>)
    <3>1. c \in ReceiveIPv4(i, d)
      BY <1>5 DEF RecvFrame
    <3>2. HeaderParses(d)
      BY <2>1 DEF GoodDatagram
    <3> QED BY <2>2, <3>1, <3>2 DEF ReceiveIPv4
  <2>4. GoodInterface(n, acc, way, j, ip) /\ j.datagrams_received = got
    <3> HIDE DEF got
    <3> QED BY ReceivedChanged
  <2> HIDE DEF j
  <2> QED BY <1>1, <1>2, <2>1, <2>3, <2>4
<1> QED BY <1>3, <1>4, <1>5

-----------------------------------------------------------------------------
(***************************************************************************)
(* The powers of two exist and are positive.                               *)
(***************************************************************************)
LEMMA TwoToPositive ==
    ASSUME NEW n \in Nat
    PROVE  TwoTo[n] \in Nat \ {0}
<1> DEFINE G == Nat \ {0}
           f == [i \in Nat |-> [x \in G |-> 2 * x]]
<1>1. f \in [Nat -> [G -> G]] /\ 1 \in G
  OBVIOUS
<1>2. PICK g \in [Nat -> G] : IsEndlessIteration(g, f, 1)
  <2> HIDE DEF f, G
  <2> QED BY <1>1, IteratesForever
<1>3. g = [k \in Nat |-> IF k = 0 THEN 1 ELSE 2 * g[k - 1]]
  <2>1. \A k \in Nat : g[k] = IF k = 0 THEN 1 ELSE 2 * g[k - 1]
    <3>1. \A k \in Nat : g[k] \in G /\ g[k] = IF k = 0 THEN 1 ELSE f[k][g[k - 1]]
      BY <1>2 DEF IsEndlessIteration
    <3>2. ASSUME NEW k \in Nat, k # 0
          PROVE  f[k][g[k - 1]] = 2 * g[k - 1]
      <4>1. g[k - 1] \in G
        BY <3>1, <3>2
      <4> QED BY <4>1
    <3> QED BY <3>1, <3>2
  <2> QED BY <1>2, <2>1
<1>4. TwoTo = [k \in Nat |-> IF k = 0 THEN 1 ELSE 2 * TwoTo[k - 1]]
  <2> DEFINE T == CHOOSE t : t = [k \in Nat |-> IF k = 0 THEN 1 ELSE 2 * t[k - 1]]
  <2>1. T = [k \in Nat |-> IF k = 0 THEN 1 ELSE 2 * T[k - 1]]
    BY <1>3
  <2> QED BY <2>1 DEF TwoTo
<1> DEFINE S == {k \in Nat : TwoTo[k] \in G}
<1>5. 0 \in S
  BY <1>4
<1>6. ASSUME NEW k \in S
      PROVE  k + 1 \in S
  <2>1. TwoTo[k + 1] = 2 * TwoTo[k]
    BY <1>4
  <2> QED BY <2>1
<1>7. S = Nat
  <2>1. S \in SUBSET Nat
    OBVIOUS
  <2> HIDE DEF S
  <2> QED BY <1>5, <1>6, <2>1, SetInduction
<1> QED BY <1>7

(***************************************************************************)
(* The shifts of the router's tables are by positive numbers.              *)
(***************************************************************************)
LEMMA Shifts ==
    /\ AddrBits \in Nat \ {0}
    /\ \A len \in PrefixLengths : TwoTo[AddrBits - len] \in Nat \ {0} /\ TwoTo[len] \in Nat \ {0}
<1>1. AddrBits \in Nat \ {0}
  BY RouterAssumption
<1>2. \A len \in PrefixLengths : AddrBits - len \in Nat /\ len \in Nat
  BY <1>1 DEF PrefixLengths
<1> QED BY <1>1, <1>2, TwoToPositive

(***************************************************************************)
(* The rotation by which add_route makes a key is the shift by which match *)
(* looks it up, as a route's address has no host bits; and two routes of a *)
(* length have different keys.                                             *)
(***************************************************************************)
LEMMA KeysAreShifts ==
    ASSUME NEW r \in Routes
    PROVE  /\ Rotr(r.route_prefix, AddrBits - r.prefix_length) = Key(r)
           /\ \A s \in Routes : s.prefix_length = r.prefix_length /\ Key(s) = Key(r) => s = r
<1> DEFINE len == r.prefix_length
           a == r.route_prefix
           t == TwoTo[AddrBits - len]
           u == TwoTo[AddrBits - (AddrBits - len)]
<1>1. /\ len \in PrefixLengths
      /\ a \in Nat
      /\ a % t = 0
      /\ \A s \in Routes :
             /\ s.prefix_length = len => s.route_prefix \in Nat /\ s.route_prefix % t = 0
             /\ s.prefix_length = len /\ s.route_prefix = a => s = r
  BY RoutesAssumption, WidthAssumption DEF Address
<1>2. t \in Nat \ {0} /\ u \in Nat
  <2>1. AddrBits - (AddrBits - len) = len
    BY <1>1, Shifts DEF PrefixLengths
  <2> QED BY <1>1, <2>1, Shifts
<1>3. Rotr(a, AddrBits - len) = Key(r)
  <2>1. Rotr(a, AddrBits - len) = (a \div t) + (a % t) * u
    BY DEF Rotr
  <2>2. a \div t \in Int
    BY <1>1, <1>2, Remainder
  <2> HIDE DEF t, u
  <2>3. (a \div t) + (a % t) * u = a \div t
    BY <1>1, <1>2, <2>2
  <2> QED BY <2>1, <2>3 DEF Key, t
<1>4. ASSUME NEW s \in Routes, s.prefix_length = len, Key(s) = Key(r)
      PROVE  s = r
  <2> DEFINE b == s.route_prefix
  <2>1. b \in Nat /\ b % t = 0
    BY <1>1, <1>4
  <2>2. b \div t = a \div t
    BY <1>4 DEF Key
  <2> HIDE DEF t, a, b, len
  <2>3. a = t * (a \div t) + (a % t)
    BY <1>1, <1>2, Remainder
  <2>4. b = t * (b \div t) + (b % t)
    BY <1>2, <2>1, Remainder
  <2>5. a = b
    BY <1>1, <2>1, <2>2, <2>3, <2>4
  <2> QED BY <1>1, <1>4, <2>5 DEF b
<1> QED BY <1>3, <1>4

(***************************************************************************)
(* The new tables hold no route, and add_route adds one, losing none.      *)
(***************************************************************************)
LEMMA EmptyTables ==
    HoldsRoutes([len \in PrefixLengths |-> << >>], {})
BY DEF HoldsRoutes

(***************************************************************************)
(* add_route adds the route to what the tables hold.                       *)
(***************************************************************************)
LEMMA RouteAdded ==
    ASSUME NEW r, r = [interfaces |-> r.interfaces, routing_table |-> r.routing_table],
           NEW added \in SUBSET Routes, HoldsRoutes(r.routing_table, added), NEW route \in Routes
    PROVE  /\ AddRoute(r, route) = [interfaces |-> r.interfaces,
                                    routing_table |-> AddRoute(r, route).routing_table]
           /\ HoldsRoutes(AddRoute(r, route).routing_table, added \cup {route})
<1> DEFINE table == r.routing_table
           len   == route.prefix_length
           one   == Assigned(table[len], Key(route), Entry(route))
           next  == [table EXCEPT ![len] = one]
<1>1. len \in PrefixLengths /\ \A s \in Routes : s.prefix_length \in PrefixLengths
  BY RoutesAssumption
<1>2. AddRoute(r, route) = [interfaces |-> r.interfaces, routing_table |-> next]
  <2>1. Rotr(route.route_prefix, AddrBits - len) = Key(route)
    BY KeysAreShifts
  <2>2. AddRoute(r, route) = [r EXCEPT !.routing_table[len] = one]
    BY <2>1 DEF AddRoute, Entry
  <2> HIDE DEF one
  <2> QED BY <2>2
<1>3. table = [l \in PrefixLengths |-> table[l]]
  BY DEF HoldsRoutes
<1>4. /\ next = [l \in PrefixLengths |-> next[l]]
      /\ \A l \in PrefixLengths : next[l] = IF l = len THEN one ELSE table[l]
  <2> HIDE DEF one
  <2> QED BY <1>1, <1>3
<1>5. /\ DOMAIN one = {Key(route)} \cup DOMAIN table[len]
      /\ \A k \in DOMAIN one : one[k] = IF k = Key(route) THEN Entry(route) ELSE table[len][k]
  BY DEF Assigned
<1> HIDE DEF one, next
<1>6. ASSUME NEW l \in PrefixLengths
      PROVE  DOMAIN next[l] = {Key(s) : s \in {x \in added \cup {route} : x.prefix_length = l}}
  <2>1. DOMAIN table[l] = {Key(s) : s \in {x \in added : x.prefix_length = l}}
    BY DEF HoldsRoutes
  <2> QED BY <1>4, <1>5, <2>1
<1>7. ASSUME NEW s \in added \cup {route}
      PROVE  next[s.prefix_length][Key(s)] = Entry(s)
  <2> DEFINE l == s.prefix_length
             k == Key(s)
  <2>1. s \in Routes /\ l \in PrefixLengths
    BY <1>1
  <2>2. CASE s = route
    <3>1. k \in DOMAIN one /\ l = len /\ k = Key(route)
      BY <1>5, <2>2
    <3> HIDE DEF k, l, len
    <3>2. next[l] = one /\ one[k] = Entry(route)
      BY <1>4, <1>5, <2>1, <3>1
    <3> QED BY <2>2, <3>2 DEF k, l
  <2>3. CASE s # route
    <3>1. s \in added /\ table[l][k] = Entry(s)
      BY <2>3 DEF HoldsRoutes
    <3>2. CASE l # len
      BY <1>4, <2>1, <3>1, <3>2
    <3>3. CASE l = len
      <4>1. k # Key(route)
        BY <2>1, <2>3, <3>3, KeysAreShifts
      <4>2. k \in DOMAIN table[len]
        <5>1. DOMAIN table[len] = {Key(x) : x \in {y \in added : y.prefix_length = len}}
          BY <1>1 DEF HoldsRoutes
        <5> QED BY <3>1, <3>3, <5>1
      <4>3. k \in DOMAIN one /\ one[k] = table[len][k]
        BY <1>5, <4>1, <4>2
      <4>4. next[l] = one
        BY <1>4, <2>1, <3>3
      <4> QED BY <3>1, <3>3, <4>3, <4>4
    <3> QED BY <3>2, <3>3
  <2> QED BY <2>2, <2>3
<1>8. HoldsRoutes(next, added \cup {route})
  BY <1>4, <1>6, <1>7 DEF HoldsRoutes
<1> QED BY <1>2, <1>8

(***************************************************************************)
(* What match finds in tables that hold some routes: for an address that   *)
(* some of them cover, the entry of the longest one.                       *)
(***************************************************************************)
LEMMA MatchFinds ==
    ASSUME NEW r, NEW added \in SUBSET Routes, HoldsRoutes(r.routing_table, added), NEW addr
    PROVE  /\ Hits(r, addr) = {s.prefix_length : s \in {x \in added : Covers(x, addr)}}
           /\ \A s \in Longest(added, addr) : Match(r, addr) = Entry(s)
           /\ Hits(r, addr) # {} => \E s \in Longest(added, addr) : Match(r, addr) = Entry(s)
<1> DEFINE table == r.routing_table
           key(len) == addr \div TwoTo[AddrBits - len]
           covering == {x \in added : Covers(x, addr)}
           hits == Hits(r, addr)
<1>1. hits = {s.prefix_length : s \in covering}
  <2>1. \A len \in PrefixLengths : DOMAIN table[len] = {Key(s) : s \in {x \in added : x.prefix_length = len}}
    BY DEF HoldsRoutes
  <2>2. \A s \in added : s.prefix_length \in PrefixLengths
    BY RoutesAssumption
  <2>3. \A s \in added : Covers(s, addr) <=> key(s.prefix_length) = Key(s)
    BY DEF Covers, Key
  <2>4. hits = {len \in PrefixLengths : key(len) \in DOMAIN table[len]}
    BY DEF Hits
  <2> HIDE DEF key, hits
  <2> QED BY <2>1, <2>2, <2>3, <2>4
<1>2. hits \subseteq PrefixLengths
  BY DEF Hits
<1>3. ASSUME NEW s \in Longest(added, addr)
      PROVE  Match(r, addr) = Entry(s)
  <2> DEFINE len == s.prefix_length
  <2>1. s \in covering /\ \A x \in covering : x.prefix_length <= len
    BY <1>3 DEF Longest
  <2>2. len \in hits /\ \A l \in hits : l <= len
    BY <1>1, <2>1
  <2>3. Max(hits) = len
    <3>1. \A l \in hits : l \in Int
      BY <1>2, Shifts DEF PrefixLengths
    <3> HIDE DEF hits, len
    <3>2. \A m \in hits : (\A l \in hits : m >= l) => m = len
      BY <2>2, <3>1
    <3>3. \A l \in hits : len >= l
      BY <2>2, <3>1
    <3> QED BY <2>2, <3>2, <3>3 DEF Max
  <2>4. Match(r, addr) = table[len][key(len)]
    BY <2>3 DEF Match
  <2>5. key(len) = Key(s) /\ table[len][Key(s)] = Entry(s)
    <3>1. key(len) = Key(s)
      BY <2>1 DEF Covers, Key
    <3>2. table[len][Key(s)] = Entry(s)
      BY <2>1 DEF HoldsRoutes
    <3> QED BY <3>1, <3>2
  <2> QED BY <2>4, <2>5
<1>4. hits # {} => \E s \in Longest(added, addr) : TRUE
  <2> SUFFICES ASSUME hits # {}
               PROVE  \E s \in Longest(added, addr) : TRUE
    OBVIOUS
  <2> DEFINE gap == {AddrBits - len : len \in hits}
  <2>1. gap \in SUBSET Nat /\ gap # {}
    BY <1>2, Shifts DEF PrefixLengths
  <2>2. PICK g \in gap : \A y \in gap : g <= y
    <3> HIDE DEF gap
    <3> QED BY <2>1, LeastNumber
  <2>3. PICK len \in hits : g = AddrBits - len
    OBVIOUS
  <2>4. \A l \in hits : l <= len
    <3>1. \A l \in hits : g <= AddrBits - l
      BY <2>2
    <3>2. len \in Int /\ AddrBits \in Int /\ \A l \in hits : l \in Int
      BY <1>2, Shifts DEF PrefixLengths
    <3> HIDE DEF hits
    <3> QED BY <2>3, <3>1, <3>2
  <2>5. PICK s \in covering : s.prefix_length = len
    BY <1>1, <2>3
  <2>6. s \in Longest(added, addr)
    BY <1>1, <2>4, <2>5 DEF Longest
  <2> QED BY <2>6
<1> QED BY <1>1, <1>3, <1>4

-----------------------------------------------------------------------------
(***************************************************************************)
(* The queues an interface's owner finds: none, or one good datagram.      *)
(***************************************************************************)
LEMMA DatagramQueues ==
    ASSUME NEW acc, NEW way
    PROVE  /\ GoodQueue(acc, way, << >>)
           /\ \A d : GoodDatagram(d) /\ OnWay(acc, way, d) => GoodQueue(acc, way, << d >>)
<1>1. << >> \in Seq(ToSet(<< >>)) /\ ToSet(<< >>) = {}
  BY DEF ToSet
<1>2. GoodQueue(acc, way, << >>)
  BY <1>1 DEF GoodQueue
<1>3. ASSUME NEW d, GoodDatagram(d) /\ OnWay(acc, way, d)
      PROVE  GoodQueue(acc, way, << d >>)
  <2>1. << d >> \in Seq(ToSet(<< d >>)) /\ ToSet(<< d >>) = {d}
    BY DEF ToSet
  <2> QED BY <1>3, <2>1 DEF GoodQueue
<1> QED BY <1>2, <1>3

(***************************************************************************)
(* A router with another good interface in the place of one.               *)
(***************************************************************************)
LEMMA RouterChanged ==
    ASSUME NEW n, NEW acc, NEW r, GoodRouter(n, acc, r), NEW num \in Sides, NEW i,
           GoodInterface(n, acc, RouterWay(num), i, RouterIP(num))
    PROVE  LET q == [r EXCEPT !.interfaces[num] = i]
           IN  /\ GoodRouter(n, acc, q)
               /\ q.routing_table = r.routing_table
               /\ \A m \in Sides : q.interfaces[m] = IF m = num THEN i ELSE r.interfaces[m]
<1> DEFINE ifs == [r.interfaces EXCEPT ![num] = i]
           q   == [interfaces |-> ifs, routing_table |-> r.routing_table]
<1>1. r = [interfaces |-> r.interfaces, routing_table |-> r.routing_table]
      /\ r.interfaces = [m \in Sides |-> r.interfaces[m]]
  BY DEF GoodRouter
<1>2. [r EXCEPT !.interfaces[num] = i] = q
  BY <1>1
<1>3. ifs = [m \in Sides |-> ifs[m]] /\ \A m \in Sides : ifs[m] = IF m = num THEN i ELSE r.interfaces[m]
  BY <1>1
<1> HIDE DEF ifs
<1>4. \A m \in Sides : GoodInterface(n, acc, RouterWay(m), ifs[m], RouterIP(m))
  BY <1>3 DEF GoodRouter
<1>5. q.interfaces = ifs /\ q.routing_table = r.routing_table /\ q = [interfaces |-> q.interfaces, routing_table |-> q.routing_table]
  OBVIOUS
<1> HIDE DEF q
<1> QED BY <1>2, <1>3, <1>4, <1>5 DEF GoodRouter

(***************************************************************************)
(* The end of a pass of the loop leaves the router good.                   *)
(***************************************************************************)
LEMMA TickedGood ==
    ASSUME NEW n, NEW acc, NEW r, GoodRouter(n, acc, r)
    PROVE  /\ GoodRouter(n, acc, Ticked(r))
           /\ Ticked(r).routing_table = r.routing_table
           /\ \A num \in Sides : Ticked(r).interfaces[num].datagrams_received
                                     = r.interfaces[num].datagrams_received
<1> DEFINE ifs == [num \in Sides |-> TickInterface(r.interfaces[num], TickMs)]
           q   == [interfaces |-> ifs, routing_table |-> r.routing_table]
<1>1. r = [interfaces |-> r.interfaces, routing_table |-> r.routing_table]
      /\ DOMAIN r.interfaces = Sides
  BY DEF GoodRouter
<1>2. Ticked(r) = q
  <2>1. Ticked(r) = [r EXCEPT !.interfaces = ifs]
    BY <1>1 DEF Ticked
  <2> HIDE DEF ifs
  <2> QED BY <1>1, <2>1
<1>3. ASSUME NEW num \in Sides
      PROVE  /\ GoodInterface(n, acc, RouterWay(num), ifs[num], RouterIP(num))
             /\ ifs[num].datagrams_received = r.interfaces[num].datagrams_received
  <2>1. GoodInterface(n, acc, RouterWay(num), r.interfaces[num], RouterIP(num))
    BY DEF GoodRouter
  <2> DEFINE way == RouterWay(num)
             ip  == RouterIP(num)
             i   == r.interfaces[num]
  <2>2. ifs[num] = TickInterface(i, TickMs)
    OBVIOUS
  <2> HIDE DEF way, ip, i, ifs
  <2>3. GoodInterface(n, acc, way, i, ip)
    BY <2>1 DEF way, ip, i
  <2>4. /\ GoodInterface(n, acc, way, TickInterface(i, TickMs), ip)
        /\ TickInterface(i, TickMs).datagrams_received = i.datagrams_received
    BY <2>3, TickGood
  <2> QED BY <2>2, <2>4 DEF way, ip, i
<1>4. ifs = [num \in Sides |-> ifs[num]]
  OBVIOUS
<1> HIDE DEF ifs
<1>5. q.interfaces = ifs /\ q.routing_table = r.routing_table /\ q = [interfaces |-> q.interfaces, routing_table |-> q.routing_table]
  OBVIOUS
<1> HIDE DEF q
<1> QED BY <1>2, <1>3, <1>4, <1>5 DEF GoodRouter

(***************************************************************************)
(* What route's loops work on: a good router with its tables, and good     *)
(* frames sent by each interface.                                          *)
(***************************************************************************)
GoodRouting(n, acc, table, c) ==
    /\ c = [router |-> c.router, sent |-> c.sent]
    /\ GoodRouter(n, acc, c.router)
    /\ c.router.routing_table = table
    /\ c.sent = [num \in Sides |-> c.sent[num]]
    /\ \A num \in Sides : GoodFrames(n, acc, RouterWay(num), c.sent[num])

Received(c, num) == c.router.interfaces[num].datagrams_received

(***************************************************************************)
(* One interface has sent good frames.                                     *)
(***************************************************************************)
LEMMA SentByGood ==
    ASSUME NEW n, NEW acc, NEW table, NEW c, GoodRouting(n, acc, table, c), NEW num \in Sides, NEW out,
           GoodInterface(n, acc, RouterWay(num), out.iface, RouterIP(num)),
           out.iface.datagrams_received = Received(c, num),
           GoodFrames(n, acc, RouterWay(num), out.sent)
    PROVE  /\ GoodRouting(n, acc, table, SentBy(num, c, out))
           /\ \A m \in Sides : Received(SentBy(num, c, out), m) = Received(c, m)
<1> DEFINE r    == [c.router EXCEPT !.interfaces[num] = out.iface]
           both == c.sent[num] \o out.sent
           sent == [c.sent EXCEPT ![num] = both]
           x    == [router |-> r, sent |-> sent]
           way  == RouterWay(num)
<1>1. SentBy(num, c, out) = x
  BY DEF SentBy
<1>2. GoodRouter(n, acc, r) /\ r.routing_table = table
      /\ \A m \in Sides : r.interfaces[m] = IF m = num THEN out.iface ELSE c.router.interfaces[m]
  <2> DEFINE cr == c.router
             i  == out.iface
  <2>1. GoodRouter(n, acc, cr) /\ cr.routing_table = table
    BY DEF GoodRouting
  <2>2. GoodInterface(n, acc, RouterWay(num), i, RouterIP(num)) /\ r = [cr EXCEPT !.interfaces[num] = i]
    OBVIOUS
  <2> HIDE DEF cr, i, r
  <2>3. /\ GoodRouter(n, acc, r)
        /\ r.routing_table = cr.routing_table
        /\ \A m \in Sides : r.interfaces[m] = IF m = num THEN i ELSE cr.interfaces[m]
    BY <2>1, <2>2, RouterChanged
  <2> QED BY <2>1, <2>3 DEF cr, i
<1>3. GoodFrames(n, acc, way, both)
  <2>1. GoodFrames(n, acc, way, c.sent[num]) /\ GoodFrames(n, acc, way, out.sent)
    BY DEF GoodRouting
  <2> QED BY <2>1, QueuesJoined
<1> HIDE DEF r, both
<1>4. /\ sent = [m \in Sides |-> sent[m]]
      /\ \A m \in Sides : sent[m] = IF m = num THEN both ELSE c.sent[m]
  BY DEF GoodRouting
<1> HIDE DEF sent
<1>5. \A m \in Sides : GoodFrames(n, acc, RouterWay(m), sent[m])
  BY <1>3, <1>4 DEF GoodRouting
<1>6. x.router = r /\ x.sent = sent /\ x = [router |-> x.router, sent |-> x.sent]
  OBVIOUS
<1> HIDE DEF x
<1>7. GoodRouting(n, acc, table, x)
  BY <1>2, <1>4, <1>5, <1>6 DEF GoodRouting
<1>8. \A m \in Sides : Received(x, m) = Received(c, m)
  BY <1>2, <1>6 DEF Received
<1> QED BY <1>1, <1>7, <1>8

(***************************************************************************)
(* One datagram is forwarded.  What goes to the Internet is on its way     *)
(* from the host, since the longest route for the host's address leads to  *)
(* the host's side.                                                        *)
(***************************************************************************)
LEMMA ForwardGood ==
    ASSUME NEW n, NEW acc, NEW table, HoldsRoutes(table, Routes),
           NEW c, GoodRouting(n, acc, table, c),
           NEW d, GoodDatagram(d), OnWay(acc, "either", d), NEW x \in Forward(c, d)
    PROVE  /\ GoodRouting(n, acc, table, x)
           /\ \A m \in Sides : Received(x, m) = Received(c, m)
<1>1. CASE d.ttl <= 1 \/ Hits(c.router, d.dst) = {}
  <2>1. x = c
    BY <1>1 DEF Forward
  <2> QED BY <2>1
<1>2. CASE ~(d.ttl <= 1 \/ Hits(c.router, d.dst) = {})
  <2> DEFINE r     == c.router
             route == Match(r, d.dst)
             num   == route.interface_num
             f     == Forwarded(d)
             hop   == NextHop(route, d)
             i     == r.interfaces[num]
             out   == SendDatagram(i, f, hop)
             way   == RouterWay(num)
             ip    == RouterIP(num)
  <2>1. x = SentBy(num, c, out)
    BY <1>2 DEF Forward
  <2>2. PICK s \in Longest(Routes, d.dst) : route = Entry(s)
    <3> DEFINE addr == d.dst
    <3>1. HoldsRoutes(r.routing_table, Routes)
      BY DEF GoodRouting
    <3>2. Hits(r, addr) # {}
      BY <1>2
    <3> HIDE DEF r, addr
    <3>3. \E s \in Longest(Routes, addr) : Match(r, addr) = Entry(s)
      BY <3>1, <3>2, MatchFinds
    <3> QED BY <3>3 DEF addr
  <2>3. num = s.interface_num /\ num \in Sides
    BY <2>2, RoutesAssumption DEF Entry, Longest, Sides
  <2>4. d.dst = HostIP => num = HostSide
    BY <2>2, <2>3, RoutesAssumption
  <2>5. d.ttl > 1
    BY <1>2 DEF GoodDatagram
  <2>6. OnWay(acc, way, d)
    <3>1. HostSide # InternetSide
      BY DEF HostSide, InternetSide
    <3>2. CASE num = InternetSide
      <4>1. ~ToHost(d)
        BY <2>4, <3>1, <3>2 DEF ToHost
      <4>2. FromHost(acc, d)
        BY <4>1 DEF OnWay
      <4> QED BY <4>2, <3>2 DEF OnWay, RouterWay
    <3>3. CASE num # InternetSide
      BY <3>3 DEF RouterWay
    <3> QED BY <3>2, <3>3
  <2>7. GoodInterface(n, acc, way, i, ip)
    BY <2>3 DEF GoodRouting, GoodRouter
  <2> HIDE DEF route, num, hop, i, way, ip, f
  <2>8. GoodDatagram(f) /\ OnWay(acc, way, f)
    BY <2>5, <2>6, ForwardedGood DEF f
  <2>9. /\ GoodInterface(n, acc, way, out.iface, ip)
        /\ out.iface.datagrams_received = i.datagrams_received
        /\ GoodFrames(n, acc, way, out.sent)
    BY <2>7, <2>8, SendGood
  <2> HIDE DEF out
  <2>10. out.iface.datagrams_received = Received(c, num)
    BY <2>9 DEF Received, i
  <2>11. /\ GoodRouting(n, acc, table, SentBy(num, c, out))
         /\ \A m \in Sides : Received(SentBy(num, c, out), m) = Received(c, m)
    BY <2>3, <2>9, <2>10, SentByGood DEF way, ip
  <2> QED BY <2>1, <2>11
<1> QED BY <1>1, <1>2

(***************************************************************************)
(* The value of turn in ForwardAll after k datagrams.                      *)
(***************************************************************************)
IsForwarding(g, c, queue, m) ==
    g = [k \in 0 .. m |-> IF k = 0 THEN {c} ELSE UNION {Forward(d, queue[k]) : d \in g[k - 1]}]

(***************************************************************************)
(* The recursion of ForwardAll has a solution.                             *)
(***************************************************************************)
LEMMA ForwardingExists ==
    ASSUME NEW c, NEW queue, NEW m \in Nat
    PROVE  \E g : IsForwarding(g, c, queue, m)
<1> DEFINE S == {k \in 0 .. m : \E g : IsForwarding(g, c, queue, k)}
<1>1. 0 \in S
  <2> DEFINE g == [k \in 0 .. 0 |-> {c}]
  <2>1. IsForwarding(g, c, queue, 0)
    BY DEF IsForwarding
  <2> HIDE DEF g
  <2> QED BY <2>1
<1>2. ASSUME NEW i \in S, i < m
      PROVE  i + 1 \in S
  <2>1. PICK g : IsForwarding(g, c, queue, i)
    OBVIOUS
  <2> DEFINE last == UNION {Forward(d, queue[i + 1]) : d \in g[i]}
             h == [k \in 0 .. i + 1 |-> IF k = i + 1 THEN last ELSE g[k]]
  <2>2. i \in 0 .. m /\ i + 1 \in 0 .. m
    BY <1>2
  <2>3. \A k \in 0 .. i : g[k] = IF k = 0 THEN {c} ELSE UNION {Forward(d, queue[k]) : d \in g[k - 1]}
    BY <2>1 DEF IsForwarding
  <2>4. ASSUME NEW k \in 0 .. i + 1
        PROVE  h[k] = IF k = 0 THEN {c} ELSE UNION {Forward(d, queue[k]) : d \in h[k - 1]}
    <3>1. CASE k = i + 1
      <4>1. h[k] = last /\ h[k - 1] = g[i] /\ k # 0 /\ k = i + 1
        BY <2>2, <3>1
      <4> HIDE DEF h
      <4> QED BY <4>1
    <3>2. CASE k # i + 1
      <4>1. k \in 0 .. i /\ h[k] = g[k] /\ (k # 0 => h[k - 1] = g[k - 1])
        BY <2>2, <3>2
      <4> HIDE DEF h
      <4> QED BY <4>1, <2>3
    <3> QED BY <3>1, <3>2
  <2>5. DOMAIN h = 0 .. i + 1 /\ h = [k \in 0 .. i + 1 |-> h[k]]
    BY <2>2
  <2> HIDE DEF h, last
  <2>6. IsForwarding(h, c, queue, i + 1)
    BY <2>4, <2>5 DEF IsForwarding
  <2> QED BY <2>2, <2>6
<1>3. S = 0 .. m
  <2> HIDE DEF S
  <2>1. S \in SUBSET (0 .. m)
    BY DEF S
  <2> QED BY <1>1, <1>2, <2>1, BoundedInduction
<1> QED BY <1>3

(***************************************************************************)
(* A queue of good datagrams is forwarded: the router stays good, and no   *)
(* interface's own queue changes.                                          *)
(***************************************************************************)
LEMMA ForwardAllGood ==
    ASSUME NEW n, NEW acc, NEW table, HoldsRoutes(table, Routes),
           NEW c, GoodRouting(n, acc, table, c),
           NEW queue, GoodQueue(acc, "either", queue), NEW x \in ForwardAll(c, queue)
    PROVE  /\ GoodRouting(n, acc, table, x)
           /\ \A num \in Sides : Received(x, num) = Received(c, num)
<1> DEFINE m    == Len(queue)
           turn == CHOOSE g : IsForwarding(g, c, queue, m)
           Ok(e) == /\ GoodRouting(n, acc, table, e)
                    /\ \A num \in Sides : Received(e, num) = Received(c, num)
<1>1. m \in Nat /\ \A k \in 1 .. m : GoodDatagram(queue[k]) /\ OnWay(acc, "either", queue[k])
  <2>1. queue \in Seq(ToSet(queue)) /\ \A d \in ToSet(queue) : GoodDatagram(d) /\ OnWay(acc, "either", d)
    BY DEF GoodQueue
  <2>2. m \in Nat /\ \A k \in 1 .. m : queue[k] \in ToSet(queue)
    BY <2>1 DEF ToSet
  <2> QED BY <2>1, <2>2
<1>2. x \in turn[m]
  BY DEF ForwardAll, IsForwarding
<1>3. IsForwarding(turn, c, queue, m)
  <2> HIDE DEF m
  <2> QED BY <1>1, ForwardingExists
<1>4. \A k \in 0 .. m : turn[k] = IF k = 0 THEN {c}
                                  ELSE UNION {Forward(d, queue[k]) : d \in turn[k - 1]}
  <2> HIDE DEF turn, m
  <2> QED BY <1>3 DEF IsForwarding
<1> HIDE DEF m, turn
<1> DEFINE S == {k \in 0 .. m : \A e \in turn[k] : Ok(e)}
<1>5. 0 \in S
  <2>1. 0 \in 0 .. m
    BY <1>1
  <2>2. turn[0] = {c}
    BY <1>4, <2>1
  <2>3. Ok(c)
    OBVIOUS
  <2> HIDE DEF Ok
  <2> QED BY <2>1, <2>2, <2>3
<1>6. ASSUME NEW i \in S, i < m
      PROVE  i + 1 \in S
  <2>1. i + 1 \in 1 .. m /\ i + 1 \in 0 .. m /\ \A e \in turn[i] : Ok(e)
    BY <1>1, <1>6
  <2> DEFINE d == queue[i + 1]
  <2>2. GoodDatagram(d) /\ OnWay(acc, "either", d)
    BY <1>1, <2>1
  <2>3. turn[i + 1] = UNION {Forward(e, d) : e \in turn[i]}
    <3>1. i + 1 # 0 /\ (i + 1) - 1 = i
      BY <1>1, <2>1
    <3> QED BY <1>4, <2>1, <3>1
  <2>4. ASSUME NEW y \in turn[i + 1]
        PROVE  Ok(y)
    <3>1. PICK e \in turn[i] : y \in Forward(e, d)
      BY <2>3
    <3>2. GoodRouting(n, acc, table, e) /\ \A num \in Sides : Received(e, num) = Received(c, num)
      BY <2>1
    <3> HIDE DEF d
    <3>3. GoodRouting(n, acc, table, y) /\ \A num \in Sides : Received(y, num) = Received(e, num)
      BY <2>2, <3>1, <3>2, ForwardGood
    <3> QED BY <3>2, <3>3
  <2> HIDE DEF Ok
  <2> QED BY <2>1, <2>4
<1>7. S = 0 .. m
  <2>1. S \in SUBSET (0 .. m)
    OBVIOUS
  <2>2. m \in Nat
    BY <1>1
  <2> HIDE DEF S
  <2> QED BY <1>5, <1>6, <2>1, <2>2, BoundedInduction
<1>8. m \in S
  BY <1>1, <1>7
<1> QED BY <1>2, <1>8

(***************************************************************************)
(* What one interface has received is forwarded: its queue is empty then,  *)
(* the others' are what they were.                                         *)
(***************************************************************************)
LEMMA RouteReceivedGood ==
    ASSUME NEW n, NEW acc, NEW table, HoldsRoutes(table, Routes),
           NEW c, GoodRouting(n, acc, table, c),
           NEW num \in Sides, GoodQueue(acc, "either", Received(c, num)), NEW x \in RouteReceived(c, num)
    PROVE  /\ GoodRouting(n, acc, table, x)
           /\ \A m \in Sides : Received(x, m) = IF m = num THEN << >> ELSE Received(c, m)
<1> DEFINE r     == c.router
           i     == r.interfaces[num]
           none  == << >>
           j     == [i EXCEPT !.datagrams_received = none]
           q     == [r EXCEPT !.interfaces[num] = j]
           sent  == c.sent
           e     == [router |-> q, sent |-> sent]
           queue == Received(c, num)
           way   == RouterWay(num)
           ip    == RouterIP(num)
<1>1. GoodRouter(n, acc, r) /\ r.routing_table = table /\ c = [router |-> r, sent |-> sent]
  BY DEF GoodRouting
<1>2. [c EXCEPT !.router.interfaces[num].datagrams_received = << >>] = e
  <2>1. r.interfaces = [m \in Sides |-> r.interfaces[m]] /\ r = [interfaces |-> r.interfaces, routing_table |-> r.routing_table]
    BY <1>1 DEF GoodRouter
  <2> QED BY <1>1, <2>1
<1>3. GoodInterface(n, acc, way, i, ip)
  BY <1>1 DEF GoodRouter
<1> HIDE DEF i, way, ip, none
<1>4. GoodInterface(n, acc, way, j, ip) /\ j.datagrams_received = none
  BY <1>3, ReceivedChanged
<1> HIDE DEF j, r
<1>5. /\ GoodRouter(n, acc, q)
      /\ q.routing_table = r.routing_table
      /\ \A m \in Sides : q.interfaces[m] = IF m = num THEN j ELSE r.interfaces[m]
  BY <1>1, <1>4, RouterChanged DEF way, ip
<1> HIDE DEF q
<1>6. e.router = q /\ e.sent = sent /\ e = [router |-> e.router, sent |-> e.sent]
  OBVIOUS
<1>7. /\ sent = [m \in Sides |-> sent[m]]
      /\ \A m \in Sides : GoodFrames(n, acc, RouterWay(m), sent[m])
  BY DEF GoodRouting
<1> HIDE DEF e, sent
<1>8. GoodRouting(n, acc, table, e)
  BY <1>1, <1>5, <1>6, <1>7 DEF GoodRouting
<1>9. \A m \in Sides : Received(e, m) = IF m = num THEN << >> ELSE Received(c, m)
  BY <1>4, <1>5, <1>6 DEF Received, r, none
<1>10. x \in ForwardAll(e, queue)
  BY <1>2 DEF RouteReceived, Received
<1> HIDE DEF queue
<1>11. GoodRouting(n, acc, table, x) /\ \A m \in Sides : Received(x, m) = Received(e, m)
  BY <1>8, <1>10, ForwardAllGood DEF queue
<1> QED BY <1>9, <1>11

(***************************************************************************)
(* A router has two interfaces, so route's outer loop makes two turns.     *)
(***************************************************************************)
LEMMA RouteInTurns ==
    ASSUME NEW n, NEW acc, NEW r, GoodRouter(n, acc, r), NEW c \in Route(r)
    PROVE  \E d \in RouteReceived([router |-> r, sent |-> [num \in Sides |-> << >>]], HostSide) :
               c \in RouteReceived(d, InternetSide)
<1> DEFINE start == [router |-> r, sent |-> [num \in Sides |-> << >>]]
           one   == UNION {RouteReceived(d, HostSide) : d \in {start}}
           two   == UNION {RouteReceived(d, InternetSide) : d \in one}
           IsAfter(g, m) == g = [k \in 0 .. m |-> IF k = 0 THEN {start}
                                    ELSE UNION {RouteReceived(d, k - 1) : d \in g[k - 1]}]
           after == CHOOSE g : IsAfter(g, 2)
<1>1. DOMAIN r.interfaces = Sides
  BY DEF GoodRouter
<1>2. Cardinality(Sides) = 2
  <2>1. Sides = {0} \cup {1} /\ 1 \notin {0}
    BY DEF Sides, HostSide, InternetSide
  <2>2. IsFiniteSet({0}) /\ Cardinality({0}) = 1
    BY FS_Singleton
  <2>3. Cardinality({0} \cup {1}) = Cardinality({0}) + 1
    BY <2>1, <2>2, FS_AddElement
  <2> QED BY <2>1, <2>2, <2>3
<1>3. c \in after[2]
  BY <1>1, <1>2 DEF Route
<1>4. IsAfter(after, 2)
  <2> DEFINE g == [k \in 0 .. 2 |-> IF k = 0 THEN {start} ELSE IF k = 1 THEN one ELSE two]
  <2>1. g[0] = {start} /\ g[1] = one /\ g[2] = two
    OBVIOUS
  <2>2. ASSUME NEW k \in 0 .. 2
        PROVE  g[k] = IF k = 0 THEN {start} ELSE UNION {RouteReceived(d, k - 1) : d \in g[k - 1]}
    <3>1. k = 0 \/ k = 1 \/ k = 2
      OBVIOUS
    <3> HIDE DEF g, start
    <3>2. CASE k = 0
      BY <2>1, <3>2
    <3>3. CASE k = 1
      BY <2>1, <3>3 DEF HostSide
    <3>4. CASE k = 2
      BY <2>1, <3>4 DEF InternetSide
    <3> QED BY <3>1, <3>2, <3>3, <3>4
  <2>3. g = [k \in 0 .. 2 |-> g[k]]
    OBVIOUS
  <2> HIDE DEF g, start
  <2>4. IsAfter(g, 2)
    <3> HIDE DEF start
    <3> QED BY <2>2, <2>3
  <2> HIDE DEF IsAfter
  <2> QED BY <2>4
<1>5. after[2] = two
  <2>1. \A k \in 0 .. 2 : after[k] = IF k = 0 THEN {start}
                                      ELSE UNION {RouteReceived(d, k - 1) : d \in after[k - 1]}
    <3> HIDE DEF after, start
    <3> QED BY <1>4
  <2> HIDE DEF after, start
  <2>2. after[0] = {start}
    BY <2>1
  <2>3. after[1] = one
    BY <2>1, <2>2 DEF HostSide
  <2>4. after[2] = UNION {RouteReceived(d, 1) : d \in after[1]}
    BY <2>1
  <2> QED BY <2>3, <2>4 DEF InternetSide
<1> HIDE DEF after, start
<1>6. c \in two
  BY <1>3, <1>5
<1> QED BY <1>6 DEF start

(***************************************************************************)
(* route: the router stays good with the same tables and with nothing left *)
(* in any interface's queue, and what it sends is good.                    *)
(***************************************************************************)
LEMMA RouteGood ==
    ASSUME NEW n, NEW acc, NEW r, GoodRouter(n, acc, r), HoldsRoutes(r.routing_table, Routes),
           \A num \in Sides : GoodQueue(acc, "either", r.interfaces[num].datagrams_received),
           NEW c \in Route(r)
    PROVE  /\ GoodRouting(n, acc, r.routing_table, c)
           /\ \A num \in Sides : Received(c, num) = << >>
<1> DEFINE none  == [num \in Sides |-> << >>]
           start == [router |-> r, sent |-> none]
           table == r.routing_table
<1>1. start.router = r /\ start.sent = none /\ none = [num \in Sides |-> none[num]]
      /\ \A num \in Sides : none[num] = << >>
  OBVIOUS
<1>2. PICK d \in RouteReceived(start, HostSide) : c \in RouteReceived(d, InternetSide)
  BY RouteInTurns
<1>3. start = [router |-> start.router, sent |-> start.sent]
  OBVIOUS
<1> HIDE DEF none, start, table
<1>4. GoodRouting(n, acc, table, start)
  BY <1>1, <1>3, ShortQueues DEF GoodRouting, table
<1>5. \A num \in Sides : GoodQueue(acc, "either", Received(start, num))
  BY <1>1 DEF Received
<1>6. HostSide \in Sides /\ InternetSide \in Sides /\ HostSide # InternetSide /\ \A m \in Sides : m = HostSide \/ m = InternetSide
  BY DEF Sides, HostSide, InternetSide
<1> DEFINE h == HostSide
           s == InternetSide
<1> HIDE DEF h, s
<1>7. HoldsRoutes(table, Routes)
  BY DEF table
<1>8. /\ GoodRouting(n, acc, table, d)
      /\ \A m \in Sides : Received(d, m) = IF m = h THEN << >> ELSE Received(start, m)
  BY <1>2, <1>4, <1>5, <1>6, <1>7, RouteReceivedGood DEF h
<1>9. GoodQueue(acc, "either", Received(d, s))
  BY <1>5, <1>6, <1>8 DEF h, s
<1>10. /\ GoodRouting(n, acc, table, c)
       /\ \A m \in Sides : Received(c, m) = IF m = s THEN << >> ELSE Received(d, m)
  BY <1>2, <1>6, <1>7, <1>8, <1>9, RouteReceivedGood DEF s
<1> QED BY <1>6, <1>8, <1>10 DEF h, s, table

-----------------------------------------------------------------------------
(***************************************************************************)
(* What is true stays true when the other program is started again, and    *)
(* when the host accepts a client.                                         *)
(***************************************************************************)
Later(n, m, acc, more) == n \in Nat /\ m \in Nat /\ n <= m /\ acc \subseteq more

(***************************************************************************)
(* An address keeps the Ethernet addresses it has had.                     *)
(***************************************************************************)
LEMMA EthersGrow ==
    ASSUME NEW n \in Nat, NEW m \in Nat, n <= m, NEW ip
    PROVE  EthersOf(n, ip) \subseteq EthersOf(m, ip)
<1>1. \A k \in 1 .. n : k \in 1 .. m
  OBVIOUS
<1> DEFINE few  == {RemoteEthers[k] : k \in 1 .. n}
           many == {RemoteEthers[k] : k \in 1 .. m}
<1>2. few \subseteq many
  BY <1>1
<1> HIDE DEF few, many
<1>3. /\ ip = HostIP => EthersOf(n, ip) = EthersOf(m, ip)
      /\ ip = HostSideIP => EthersOf(n, ip) = EthersOf(m, ip)
      /\ ip = InternetSideIP => EthersOf(n, ip) = EthersOf(m, ip)
      /\ ip = RemoteIP => EthersOf(n, ip) = few /\ EthersOf(m, ip) = many
      /\ ip \notin {HostIP, HostSideIP, InternetSideIP, RemoteIP} => EthersOf(n, ip) = {}
  BY AddressAssumption DEF EthersOf, few, many
<1> QED BY <1>2, <1>3

(***************************************************************************)
(* A good frame and a good queue of frames stay good.                      *)
(***************************************************************************)
LEMMA FramesStayGood ==
    ASSUME NEW n, NEW m, NEW acc, NEW more, Later(n, m, acc, more), NEW way
    PROVE  /\ \A f : GoodFrame(n, acc, way, f) => GoodFrame(m, more, way, f)
           /\ \A q : GoodFrames(n, acc, way, q) => GoodFrames(m, more, way, q)
<1>1. \A d : OnWay(acc, way, d) => OnWay(more, way, d)
  BY DEF Later, OnWay, FromHost
<1>2. \A ip : EthersOf(n, ip) \subseteq EthersOf(m, ip)
  BY EthersGrow DEF Later
<1>3. \A f : GoodFrame(n, acc, way, f) => GoodFrame(m, more, way, f)
  BY <1>1, <1>2 DEF GoodFrame
<1> QED BY <1>3 DEF GoodFrames

(***************************************************************************)
(* So do interfaces, the router and the wire.                              *)
(***************************************************************************)
LEMMA InterfaceStaysGood ==
    ASSUME NEW n, NEW m, NEW acc, NEW more, Later(n, m, acc, more), NEW way, NEW i, NEW ip,
           GoodInterface(n, acc, way, i, ip)
    PROVE  GoodInterface(m, more, way, i, ip)
<1>1. \A d : OnWay(acc, way, d) => OnWay(more, way, d)
  BY DEF Later, OnWay, FromHost
<1>2. \A a : EthersOf(n, a) \subseteq EthersOf(m, a)
  BY EthersGrow DEF Later
<1>3. TrueTable(m, i.arp_addr_table)
  BY <1>2 DEF GoodInterface, TrueTable
<1>4. GoodWaiting(more, way, i.datagrams_waiting)
  BY <1>1 DEF GoodInterface, GoodWaiting
<1> QED BY <1>2, <1>3, <1>4 DEF GoodInterface

(***************************************************************************)
(* The router.                                                             *)
(***************************************************************************)
LEMMA RouterStaysGood ==
    ASSUME NEW n, NEW m, NEW acc, NEW more, Later(n, m, acc, more), NEW r, GoodRouter(n, acc, r)
    PROVE  GoodRouter(m, more, r)
<1>1. ASSUME NEW num \in Sides
      PROVE  GoodInterface(m, more, RouterWay(num), r.interfaces[num], RouterIP(num))
  <2>1. GoodInterface(n, acc, RouterWay(num), r.interfaces[num], RouterIP(num))
    BY DEF GoodRouter
  <2> QED BY <2>1, InterfaceStaysGood
<1> QED BY <1>1 DEF GoodRouter

(***************************************************************************)
(* The wire.                                                               *)
(***************************************************************************)
LEMMA WireStaysGood ==
    ASSUME NEW n, NEW m, NEW acc, NEW more, Later(n, m, acc, more), NEW w, GoodWire(n, acc, w)
    PROVE  GoodWire(m, more, w)
<1>1. ASSUME NEW p \in Places
      PROVE  GoodFrames(m, more, WayOf(p), w[p])
  <2>1. GoodFrames(n, acc, WayOf(p), w[p])
    BY DEF GoodWire
  <2> QED BY <2>1, FramesStayGood
<1> QED BY <1>1 DEF GoodWire

(***************************************************************************)
(* Another queue at one place.                                             *)
(***************************************************************************)
LEMMA PlaceChanged ==
    ASSUME NEW n, NEW acc, NEW w, GoodWire(n, acc, w), NEW p \in Places,
           NEW q, GoodFrames(n, acc, WayOf(p), q)
    PROVE  LET v == [w EXCEPT ![p] = q]
           IN  GoodWire(n, acc, v) /\ \A o \in Places : v[o] = IF o = p THEN q ELSE w[o]
<1> DEFINE v == [w EXCEPT ![p] = q]
<1>1. v = [o \in Places |-> v[o]] /\ \A o \in Places : v[o] = IF o = p THEN q ELSE w[o]
  BY DEF GoodWire
<1> HIDE DEF v
<1>2. \A o \in Places : GoodFrames(n, acc, WayOf(o), v[o])
  BY <1>1 DEF GoodWire
<1> QED BY <1>1, <1>2 DEF GoodWire

(***************************************************************************)
(* A frame is taken from one place, and others are put into another one,   *)
(* or only put.                                                            *)
(***************************************************************************)
LEMMA PutIntoPlace ==
    ASSUME NEW n, NEW acc, NEW w, GoodWire(n, acc, w), NEW p \in Places,
           NEW frames, GoodFrames(n, acc, WayOf(p), frames)
    PROVE  GoodWire(n, acc, [w EXCEPT ![p] = Enqueue(@, frames)])
<1> DEFINE q == Enqueue(w[p], frames)
<1>1. GoodFrames(n, acc, WayOf(p), q)
  <2> DEFINE way == WayOf(p)
             queue == w[p]
  <2>1. GoodFrames(n, acc, way, queue) /\ GoodFrames(n, acc, way, frames)
    BY DEF GoodWire
  <2> HIDE DEF way, queue
  <2>2. GoodFrames(n, acc, way, Enqueue(queue, frames))
    BY <2>1, EnqueueGood
  <2> QED BY <2>2 DEF way, queue
<1>2. [w EXCEPT ![p] = Enqueue(@, frames)] = [w EXCEPT ![p] = q]
  OBVIOUS
<1> HIDE DEF q
<1> QED BY <1>1, <1>2, PlaceChanged

(***************************************************************************)
(* A frame is taken from one place.                                        *)
(***************************************************************************)
LEMMA TakeFromPlace ==
    ASSUME NEW n, NEW acc, NEW w, GoodWire(n, acc, w), NEW p \in Places, w[p] # << >>
    PROVE  /\ GoodFrame(n, acc, WayOf(p), Head(w[p]))
           /\ GoodWire(n, acc, [w EXCEPT ![p] = Tail(@)])
           /\ GoodWire(n, acc, [w EXCEPT ![p] = Append(Tail(@), Head(@))])
<1> DEFINE queue == w[p]
           way   == WayOf(p)
<1>1. GoodFrames(n, acc, way, queue)
  BY DEF GoodWire
<1> HIDE DEF way
<1>2. /\ GoodFrame(n, acc, way, Head(queue))
      /\ GoodFrames(n, acc, way, Tail(queue))
      /\ GoodFrames(n, acc, way, Append(Tail(queue), Head(queue)))
  <2>1. queue # << >>
    OBVIOUS
  <2> HIDE DEF queue
  <2> QED BY <1>1, <2>1, QueueParts
<1> DEFINE tail == Tail(queue)
           last == Append(Tail(queue), Head(queue))
<1>3. /\ [w EXCEPT ![p] = Tail(@)] = [w EXCEPT ![p] = tail]
      /\ [w EXCEPT ![p] = Append(Tail(@), Head(@))] = [w EXCEPT ![p] = last]
  OBVIOUS
<1>4. GoodFrames(n, acc, WayOf(p), tail) /\ GoodFrames(n, acc, WayOf(p), last)
  BY <1>2 DEF way
<1>5. GoodFrame(n, acc, WayOf(p), Head(w[p]))
  BY <1>2 DEF way
<1> HIDE DEF tail, last, queue
<1>6. GoodWire(n, acc, [w EXCEPT ![p] = tail])
  BY <1>4, PlaceChanged
<1>7. GoodWire(n, acc, [w EXCEPT ![p] = last])
  BY <1>4, PlaceChanged
<1> QED BY <1>3, <1>5, <1>6, <1>7

-----------------------------------------------------------------------------
(***************************************************************************)
(* Every interface's own address is its own.                               *)
(***************************************************************************)
LEMMA OwnEthers ==
    ASSUME NEW n \in 1 .. Len(RemoteEthers)
    PROVE  /\ HostEther \in EthersOf(n, HostIP)
           /\ HostSideEther \in EthersOf(n, HostSideIP)
           /\ InternetSideEther \in EthersOf(n, InternetSideIP)
           /\ RemoteEthers[n] \in EthersOf(n, RemoteIP)
<1>1. n \in 1 .. n
  BY EndToEndAssumption
<1> QED BY <1>1, AddressAssumption DEF EthersOf

(***************************************************************************)
(* The initial states.                                                     *)
(***************************************************************************)
LEMMA InitSound == Init => IInv
<1> SUFFICES ASSUME Init
             PROVE  IInv
  OBVIOUS
<1>1. runs = 1 /\ accepted = {} /\ answered = {} /\ pending = Routes
  BY DEF Init
<1>2. 1 \in 1 .. Len(RemoteEthers)
  BY EndToEndAssumption
<1>3. RunsSound
  BY <1>1, <1>2 DEF RunsSound
<1> DEFINE hi  == NewInterface(HostEther, HostIP)
           hs  == NewInterface(HostSideEther, HostSideIP)
           is  == NewInterface(InternetSideEther, InternetSideIP)
           ri  == NewInterface(RemoteEthers[1], RemoteIP)
           ifs == [num \in Sides |-> IF num = HostSide THEN hs ELSE is]
           ad  == ListeningAdapter(Server)
<1>4. \A acc, way : /\ GoodInterface(1, acc, way, hi, HostIP) /\ GoodInterface(1, acc, way, hs, HostSideIP)
                    /\ GoodInterface(1, acc, way, is, InternetSideIP)
                    /\ GoodInterface(1, acc, way, ri, RemoteIP)
  BY <1>2, OwnEthers, NewInterfaceGood
<1>5. /\ hi.datagrams_received = << >> /\ hs.datagrams_received = << >>
      /\ is.datagrams_received = << >> /\ ri.datagrams_received = << >>
  BY DEF NewInterface
<1>6. host = [iface |-> hi, adapter |-> ad] /\ remote = ri /\ router = NewRouter(ifs)
  BY DEF Init, Sides
<1>7. ad.listening = TRUE
  BY DEF ListeningAdapter
<1> HIDE DEF hi, hs, is, ri, ad
<1>8. HostSound /\ RemoteSound
  BY <1>1, <1>4, <1>5, <1>6 DEF HostSound, RemoteSound
<1> DEFINE tables == [len \in PrefixLengths |-> << >>]
<1>9. router = [interfaces |-> ifs, routing_table |-> tables]
  BY <1>6 DEF NewRouter
<1>10. HoldsRoutes(tables, {})
  BY EmptyTables
<1>11. ifs = [num \in Sides |-> ifs[num]] /\ ifs[HostSide] = hs /\ ifs[InternetSide] = is
       /\ \A num \in Sides : num = HostSide \/ num = InternetSide
  BY DEF Sides, HostSide, InternetSide
<1> HIDE DEF ifs, tables
<1>12. router.interfaces = ifs /\ router.routing_table = tables
  BY <1>9
<1>13. HostSide # InternetSide
  BY DEF HostSide, InternetSide
<1>14. \A num \in Sides : /\ GoodInterface(1, {}, RouterWay(num), ifs[num], RouterIP(num))
                          /\ ifs[num].datagrams_received = << >>
  BY <1>4, <1>5, <1>11, <1>13 DEF RouterIP
<1>15. RouterSound
  BY <1>1, <1>9, <1>11, <1>12, <1>14 DEF RouterSound, GoodRouter
<1>16. TablesSound
  BY <1>1, <1>10, <1>12 DEF TablesSound
<1>17. WireSound
  <2>1. wire = [p \in Places |-> << >>]
    BY DEF Init
  <2> QED BY <1>1, <2>1, ShortQueues DEF WireSound, GoodWire
<1>18. ConnectionSound
  BY <1>1, <1>6, <1>7 DEF ConnectionSound
<1> QED BY <1>3, <1>8, <1>15, <1>16, <1>17, <1>18 DEF IInv

(***************************************************************************)
(* A route is added before anything else happens to the router.            *)
(***************************************************************************)
LEMMA SetUpRouteSound ==
    ASSUME IInv, NEW route \in pending, SetUpRoute(route)
    PROVE  IInv'
<1>1. UNCHANGED << host, remote, wire, runs, faults, accepted, answered >>
      /\ router' = AddRoute(router, route) /\ pending' = pending \ {route}
  BY DEF SetUpRoute
<1>2. RunsSound' /\ HostSound' /\ RemoteSound' /\ WireSound' /\ ConnectionSound'
  BY <1>1 DEF IInv, RunsSound, HostSound, RemoteSound, WireSound, ConnectionSound
<1>3. /\ router = [interfaces |-> router.interfaces, routing_table |-> router.routing_table]
      /\ GoodRouter(runs, accepted, router)
      /\ \A num \in Sides : router.interfaces[num].datagrams_received = << >>
      /\ pending \subseteq Routes /\ HoldsRoutes(router.routing_table, Routes \ pending)
  BY DEF IInv, RouterSound, GoodRouter, TablesSound
<1> DEFINE added == Routes \ pending
           next  == AddRoute(router, route)
           table == next.routing_table
<1>4. added \in SUBSET Routes /\ route \in Routes /\ Routes \ (pending \ {route}) = added \cup {route}
  BY <1>3
<1>5. next = [interfaces |-> router.interfaces, routing_table |-> table] /\ HoldsRoutes(table, added \cup {route})
  <2> HIDE DEF added
  <2> QED BY <1>3, <1>4, RouteAdded DEF added
<1>6. TablesSound'
  BY <1>1, <1>3, <1>4, <1>5 DEF TablesSound
<1> HIDE DEF next
<1>7. next.interfaces = router.interfaces
  BY <1>5
<1>8. GoodRouter(runs, accepted, next)
  BY <1>3, <1>5, <1>7 DEF GoodRouter
<1>9. RouterSound'
  BY <1>1, <1>3, <1>7, <1>8 DEF RouterSound, next
<1> QED BY <1>2, <1>6, <1>9 DEF IInv

(***************************************************************************)
(* The host's adapter writes a segment to the client it is bound to.       *)
(***************************************************************************)
LEMMA HostWriteSound ==
    ASSUME IInv, HostWrite
    PROVE  IInv'
<1> DEFINE i     == host.iface
           dgram == Wrapped(host.adapter, TRUE, FALSE)
           out   == SendDatagram(i, dgram, HostSideIP)
           j     == out.iface
           frames == out.sent
<1>1. /\ UNCHANGED << router, pending, remote, runs, faults, accepted, answered >>
      /\ ~host.adapter.listening
      /\ host' = [host EXCEPT !.iface = j]
      /\ wire' = [wire EXCEPT !["host to router"] = Enqueue(@, frames)]
  BY DEF HostWrite
<1>2. RunsSound' /\ RouterSound' /\ RemoteSound' /\ TablesSound'
  BY <1>1 DEF IInv, RunsSound, RouterSound, RemoteSound, TablesSound
<1>3. /\ host = [iface |-> host.iface, adapter |-> host.adapter]
      /\ GoodInterface(runs, accepted, "from host", i, HostIP)
      /\ i.datagrams_received = << >>
      /\ accepted = {ClientOf(host.adapter)}
  BY <1>1 DEF IInv, HostSound, ConnectionSound
<1>4. GoodDatagram(dgram) /\ OnWay(accepted, "from host", dgram)
  <2> DEFINE a == host.adapter
             payload == [src_port |-> a.source.port, dst_port |-> a.destination.port,
                         SYN |-> TRUE, RST |-> FALSE]
             dst == a.destination.ip
             src == a.source.ip
             d == ComputeChecksum(DatagramOf(DEFAULT_TTL, PROTO_TCP, 0, src, dst, payload))
  <2>1. dgram = d
    BY DEF Wrapped, DatagramOf
  <2>2. DEFAULT_TTL \in Nat /\ DEFAULT_TTL > 0
    BY DatagramAssumption
  <2>3. payload.dst_port = a.destination.port
    OBVIOUS
  <2> HIDE DEF payload, dst, src
  <2>4. GoodDatagram(d) /\ d.dst = dst /\ d.payload = payload
    BY <2>2, ChecksumGood
  <2> HIDE DEF d
  <2>5. [ip |-> d.dst, port |-> d.payload.dst_port] = ClientOf(a)
    BY <2>3, <2>4 DEF ClientOf, dst
  <2>6. OnWay(accepted, "from host", d)
    BY <1>3, <2>5 DEF OnWay, FromHost
  <2> HIDE DEF dgram
  <2> QED BY <2>1, <2>4, <2>6
<1> HIDE DEF dgram, i
<1>5. /\ GoodInterface(runs, accepted, "from host", j, HostIP)
      /\ j.datagrams_received = i.datagrams_received
      /\ GoodFrames(runs, accepted, "from host", frames)
  <2> DEFINE way == "from host"
             ip  == HostIP
             hop == HostSideIP
  <2>1. GoodInterface(runs, accepted, way, i, ip) /\ OnWay(accepted, way, dgram)
    BY <1>3, <1>4
  <2> HIDE DEF way, ip, hop
  <2>2. LET o == SendDatagram(i, dgram, hop)
        IN  /\ GoodInterface(runs, accepted, way, o.iface, ip)
            /\ o.iface.datagrams_received = i.datagrams_received
            /\ GoodFrames(runs, accepted, way, o.sent)
    BY <1>4, <2>1, SendGood
  <2> QED BY <2>2 DEF way, ip, hop
<1> HIDE DEF j, frames
<1>6. host' = [iface |-> j, adapter |-> host.adapter]
  BY <1>1, <1>3
<1>7. HostSound' /\ ConnectionSound'
  BY <1>1, <1>3, <1>5, <1>6 DEF IInv, HostSound, ConnectionSound
<1>8. WireSound'
  <2> DEFINE p == "host to router"
  <2>1. p \in Places /\ WayOf(p) = "from host"
    BY DEF Places, WayOf
  <2>2. GoodWire(runs, accepted, wire)
    BY DEF IInv, WireSound
  <2> HIDE DEF p
  <2>3. GoodFrames(runs, accepted, WayOf(p), frames)
    BY <1>5, <2>1
  <2>4. GoodWire(runs, accepted, [wire EXCEPT ![p] = Enqueue(@, frames)])
    BY <2>1, <2>2, <2>3, PutIntoPlace
  <2> QED BY <1>1, <2>4 DEF WireSound, p
<1> QED BY <1>2, <1>7, <1>8 DEF IInv

(***************************************************************************)
(* The host's adapter reads: a frame may teach its interface, release what *)
(* waits, or bring a segment, which TCP is handed if it is from the client *)
(* the adapter is bound to, or binds it.                                   *)
(***************************************************************************)
LEMMA HostReadSound ==
    ASSUME IInv, HostRead
    PROVE  IInv'
<1> DEFINE from == "router to host"
           to   == "host to router"
           i    == host.iface
           a    == host.adapter
           f    == Head(wire[from])
<1>1. PICK c \in RecvFrame(i, f) :
          LET got   == c.iface.datagrams_received
              rest  == [c.iface EXCEPT !.datagrams_received = IF @ = << >> THEN @ ELSE Tail(@)]
              taken == got # << >> /\ Accepts(a, Head(got))
          IN  /\ wire' = [wire EXCEPT ![from] = Tail(@), ![to] = Enqueue(@, c.sent)]
              /\ host' = [iface |-> rest, adapter |-> IF taken THEN Bound(a, Head(got)) ELSE a]
              /\ accepted' = IF taken
                             THEN accepted \cup {[ip |-> Head(got).src, port |-> Head(got).payload.src_port]}
                             ELSE accepted
  BY DEF HostRead
<1>2. UNCHANGED << router, pending, remote, runs, faults, answered >> /\ wire[from] # << >>
  BY DEF HostRead
<1> DEFINE got   == c.iface.datagrams_received
           left  == IF got = << >> THEN got ELSE Tail(got)
           rest  == [c.iface EXCEPT !.datagrams_received = left]
           d     == Head(got)
           taken == got # << >> /\ Accepts(a, d)
           client == [ip |-> d.src, port |-> d.payload.src_port]
           bound == IF taken THEN Bound(a, d) ELSE a
           sent  == c.sent
           taking == [wire EXCEPT ![from] = Tail(@)]
<1>3. /\ host' = [iface |-> rest, adapter |-> bound]
      /\ accepted' = IF taken THEN accepted \cup {client} ELSE accepted
      /\ wire' = [taking EXCEPT ![to] = Enqueue(@, sent)]
  <2>1. host' = [iface |-> rest, adapter |-> bound] /\ accepted' = IF taken THEN accepted \cup {client} ELSE accepted
    BY <1>1
  <2>2. wire' = [wire EXCEPT ![from] = Tail(@), ![to] = Enqueue(@, sent)]
    BY <1>1
  <2>3. from # to
    OBVIOUS
  <2> HIDE DEF sent, rest, bound, taken, client, from, to
  <2> QED BY <2>1, <2>2, <2>3
<1> DEFINE way == "from host"
           in  == "either"
           ip  == HostIP
<1>4. /\ GoodInterface(runs, accepted, way, i, ip) /\ i.datagrams_received = << >>
      /\ GoodWire(runs, accepted, wire)
      /\ from \in Places /\ to \in Places /\ WayOf(from) = in /\ WayOf(to) = way
      /\ answered \subseteq accepted /\ a.listening \in BOOLEAN
      /\ accepted = IF a.listening THEN {} ELSE {ClientOf(a)}
  BY DEF IInv, HostSound, WireSound, ConnectionSound, Places, WayOf
<1>5. GoodFrame(runs, accepted, in, f) /\ GoodWire(runs, accepted, taking)
  <2> HIDE DEF from
  <2> QED BY <1>2, <1>4, TakeFromPlace
<1> HIDE DEF i, f, way, in, ip, from, to, taking
<1>6. /\ GoodInterface(runs, accepted, way, c.iface, ip)
      /\ GoodFrames(runs, accepted, way, sent)
      /\ got = << >> \/ got = << f.payload >>
  BY <1>1, <1>4, <1>5, RecvGood
<1>7. left = << >>
  <2> DEFINE p == f.payload
  <2> HIDE DEF p, got
  <2>1. got = << >> \/ got = << p >>
    BY <1>6 DEF p
  <2>2. Tail(<< p >>) = << >>
    OBVIOUS
  <2> QED BY <2>1, <2>2
<1> HIDE DEF left, sent
<1>8. GoodInterface(runs, accepted, way, rest, ip) /\ rest.datagrams_received = << >>
  <2> DEFINE j == c.iface
  <2>1. GoodInterface(runs, accepted, way, j, ip) /\ rest = [j EXCEPT !.datagrams_received = left]
    BY <1>6
  <2> HIDE DEF j, rest
  <2> QED BY <1>7, <2>1, ReceivedChanged
<1> HIDE DEF got, rest
<1>9. GoodWire(runs, accepted, wire')
  <2>1. GoodFrames(runs, accepted, WayOf(to), sent)
    BY <1>4, <1>6
  <2> QED BY <1>3, <1>4, <1>5, <2>1, PutIntoPlace
<1>10. /\ bound.listening \in BOOLEAN
       /\ accepted' = IF bound.listening THEN {} ELSE {ClientOf(bound)}
       /\ accepted \subseteq accepted'
  <2>1. CASE ~taken
    <3>1. bound = a /\ accepted' = accepted
      BY <1>3, <2>1
    <3> QED BY <1>4, <3>1
  <2>2. CASE taken /\ a.listening
    <3>1. accepted' = {client}
      BY <1>3, <1>4, <2>2
    <3>2. bound = [listening |-> FALSE, source |-> [a.source EXCEPT !.ip = d.dst],
                   destination |-> [ip |-> d.src, port |-> d.payload.src_port]]
      BY <2>2 DEF Bound
    <3>3. bound.listening = FALSE /\ bound.destination.ip = d.src /\ bound.destination.port = d.payload.src_port
      BY <3>2
    <3>4. ClientOf(bound) = client
      BY <3>3 DEF ClientOf
    <3> HIDE DEF bound
    <3> QED BY <1>4, <2>2, <3>1, <3>3, <3>4
  <2>3. CASE taken /\ ~a.listening
    <3>1. d.src = a.destination.ip /\ d.payload.src_port = a.destination.port
      BY <2>3 DEF Accepts
    <3>2. client = ClientOf(a)
      BY <3>1 DEF ClientOf
    <3>3. bound = a
      BY <2>3 DEF Bound
    <3> HIDE DEF bound, client
    <3> QED BY <1>3, <1>4, <2>3, <3>2, <3>3
  <2> QED BY <2>1, <2>2, <2>3
<1> HIDE DEF bound
<1>11. Later(runs, runs, accepted, accepted')
  BY <1>10, EndToEndAssumption DEF Later, IInv, RunsSound
<1>12. RunsSound' /\ TablesSound'
  BY <1>2 DEF IInv, RunsSound, TablesSound
<1>13. HostSound'
  <2>1. host'.iface = rest /\ host'.adapter = bound /\ host' = [iface |-> host'.iface, adapter |-> host'.adapter]
    BY <1>3
  <2>2. GoodInterface(runs, accepted', way, rest, ip)
    BY <1>8, <1>11, InterfaceStaysGood
  <2> QED BY <1>2, <1>8, <2>1, <2>2 DEF HostSound, way, ip
<1>14. RemoteSound'
  <2>1. GoodInterface(runs, accepted, "to host", remote, RemoteIP) /\ remote.datagrams_received = << >>
    BY DEF IInv, RemoteSound
  <2>2. GoodInterface(runs, accepted', "to host", remote, RemoteIP)
    BY <1>11, <2>1, InterfaceStaysGood
  <2> QED BY <1>2, <2>1, <2>2 DEF RemoteSound
<1>15. RouterSound'
  <2>1. GoodRouter(runs, accepted', router)
    BY <1>11, RouterStaysGood DEF IInv, RouterSound
  <2> QED BY <1>2, <2>1 DEF IInv, RouterSound
<1>16. WireSound'
  <2>1. GoodWire(runs, accepted', wire')
    BY <1>9, <1>11, WireStaysGood
  <2> QED BY <1>2, <2>1 DEF WireSound
<1>17. ConnectionSound'
  <2>1. host'.adapter = bound
    BY <1>3
  <2> QED BY <1>2, <1>4, <1>10, <2>1 DEF ConnectionSound
<1> QED BY <1>12, <1>13, <1>14, <1>15, <1>16, <1>17 DEF IInv

(***************************************************************************)
(* Time passes for the host's interface, and for the other program's.      *)
(***************************************************************************)
LEMMA TicksSound ==
    ASSUME IInv, HostTick \/ RemoteTick
    PROVE  IInv'
<1>1. CASE HostTick
  <2>1. UNCHANGED << router, pending, remote, wire, runs, faults, accepted, answered >>
        /\ host' = [host EXCEPT !.iface = TickInterface(@, TickMs)]
    BY <1>1 DEF HostTick
  <2> DEFINE i == host.iface
             j == TickInterface(i, TickMs)
  <2>2. /\ host = [iface |-> i, adapter |-> host.adapter] /\ i.datagrams_received = << >>
        /\ GoodInterface(runs, accepted, "from host", i, HostIP)
    BY DEF IInv, HostSound
  <2>3. GoodInterface(runs, accepted, "from host", j, HostIP) /\ j.datagrams_received = << >>
    <3> DEFINE way == "from host"
               ip  == HostIP
               ms  == TickMs
    <3>1. GoodInterface(runs, accepted, way, i, ip) /\ i.datagrams_received = << >>
      BY <2>2
    <3> HIDE DEF way, ip, ms, i
    <3>2. /\ GoodInterface(runs, accepted, way, TickInterface(i, ms), ip)
          /\ TickInterface(i, ms).datagrams_received = i.datagrams_received
      BY <3>1, TickGood
    <3> QED BY <3>1, <3>2 DEF way, ip, ms
  <2>4. host' = [iface |-> j, adapter |-> host.adapter]
    <3> HIDE DEF j
    <3>1. host' = [host EXCEPT !.iface = j]
      BY <2>1 DEF j
    <3> QED BY <2>2, <3>1
  <2> HIDE DEF j
  <2>5. host'.iface = j /\ host'.adapter = host.adapter
        /\ host' = [iface |-> host'.iface, adapter |-> host'.adapter]
    BY <2>4
  <2>7. HostSound'
    BY <2>1, <2>3, <2>5 DEF HostSound
  <2>8. ConnectionSound'
    BY <2>1, <2>5 DEF IInv, ConnectionSound
  <2>6. RunsSound' /\ RouterSound' /\ RemoteSound' /\ TablesSound' /\ WireSound'
    BY <2>1 DEF IInv, RunsSound, RouterSound, RemoteSound, TablesSound, WireSound
  <2> QED BY <2>6, <2>7, <2>8 DEF IInv
<1>2. CASE RemoteTick
  <2>1. UNCHANGED << host, router, pending, wire, runs, faults, accepted, answered >>
        /\ remote' = TickInterface(remote, TickMs)
    BY <1>2 DEF RemoteTick
  <2>2. GoodInterface(runs, accepted, "to host", remote, RemoteIP) /\ remote.datagrams_received = << >>
    BY DEF IInv, RemoteSound
  <2>3. /\ GoodInterface(runs, accepted, "to host", TickInterface(remote, TickMs), RemoteIP)
        /\ TickInterface(remote, TickMs).datagrams_received = << >>
    <3> DEFINE way == "to host"
               ip  == RemoteIP
               ms  == TickMs
    <3>1. GoodInterface(runs, accepted, way, remote, ip)
      BY <2>2
    <3> HIDE DEF way, ip, ms
    <3>2. /\ GoodInterface(runs, accepted, way, TickInterface(remote, ms), ip)
          /\ TickInterface(remote, ms).datagrams_received = remote.datagrams_received
      BY <3>1, TickGood
    <3> QED BY <2>2, <3>2 DEF way, ip, ms
  <2>4. RemoteSound'
    BY <2>1, <2>3 DEF RemoteSound
  <2>5. RunsSound' /\ HostSound' /\ RouterSound' /\ TablesSound' /\ WireSound' /\ ConnectionSound'
    BY <2>1 DEF IInv, RunsSound, HostSound, RouterSound, TablesSound, WireSound, ConnectionSound
  <2> QED BY <2>4, <2>5 DEF IInv
<1> QED BY <1>1, <1>2

(***************************************************************************)
(* A pass of the network thread's loop leaves the router sound.            *)
(***************************************************************************)
LEMMA RouterTicks ==
    ASSUME NEW r, GoodRouter(runs, accepted, r), HoldsRoutes(r.routing_table, Routes \ pending),
           \A num \in Sides : r.interfaces[num].datagrams_received = << >>,
           pending \subseteq Routes, UNCHANGED << pending, runs, accepted >>, router' = Ticked(r)
    PROVE  RouterSound' /\ TablesSound'
<1>1. /\ GoodRouter(runs, accepted, Ticked(r))
      /\ Ticked(r).routing_table = r.routing_table
      /\ \A num \in Sides : Ticked(r).interfaces[num].datagrams_received
                                = r.interfaces[num].datagrams_received
  BY TickedGood
<1> QED BY <1>1 DEF RouterSound, TablesSound

(***************************************************************************)
(* The two sides, and what goes where behind them.                         *)
(***************************************************************************)
LEMMA TheSides ==
    /\ HostSide \in Sides /\ InternetSide \in Sides /\ HostSide # InternetSide
    /\ RouterWay(HostSide) = "either" /\ RouterWay(InternetSide) = "from host"
    /\ WayOf("frames to host") = "either" /\ WayOf("frames to internet") = "from host"
    /\ \A p \in {"host to router", "remote to router"} :
           WayOf(p) = "from host" \/ WayOf(p) = "to host"
<1>1. HostSide # InternetSide
  BY DEF HostSide, InternetSide
<1> QED BY <1>1 DEF Sides, RouterWay, WayOf

(***************************************************************************)
(* The two directions.                                                     *)
(***************************************************************************)
OneWay(way) == way \in {"to host", "from host"}

(***************************************************************************)
(* The owner's queue after recv_frame.                                     *)
(***************************************************************************)
LEMMA RecvQueueGood ==
    ASSUME NEW n, NEW acc, NEW way, NEW ip, NEW i, GoodInterface(n, acc, way, i, ip),
           i.datagrams_received = << >>,
           NEW in, OneWay(in), NEW f, GoodFrame(n, acc, in, f),
           NEW c \in RecvFrame(i, f)
    PROVE  /\ GoodInterface(n, acc, way, c.iface, ip)
           /\ GoodFrames(n, acc, way, c.sent)
           /\ GoodQueue(acc, "either", c.iface.datagrams_received)
<1> DEFINE got == c.iface.datagrams_received
           p   == f.payload
           any == "either"
<1>1. GoodInterface(n, acc, way, c.iface, ip)
  BY RecvGood
<1>2. GoodFrames(n, acc, way, c.sent)
  BY RecvGood
<1>3. got = << >> \/ (got = << p >> /\ GoodDatagram(p) /\ OnWay(acc, in, p))
  BY RecvGood
<1>4. OnWay(acc, in, p) => OnWay(acc, any, p)
  BY DEF OnWay, OneWay
<1> HIDE DEF any, got, p
<1>5. GoodQueue(acc, any, << >>)
  BY DatagramQueues
<1>6. GoodDatagram(p) /\ OnWay(acc, in, p) => GoodQueue(acc, any, << p >>)
  BY <1>4, DatagramQueues
<1>7. GoodQueue(acc, any, got)
  BY <1>3, <1>5, <1>6
<1> QED BY <1>1, <1>2, <1>7 DEF any, got

(***************************************************************************)
(* recv_frame and route together: the router stays good, and what its      *)
(* interfaces send is good and on its way.                                 *)
(***************************************************************************)
LEMMA RoutedGood ==
    ASSUME NEW n, NEW acc, NEW r, GoodRouter(n, acc, r), HoldsRoutes(r.routing_table, Routes),
           \A m \in Sides : r.interfaces[m].datagrams_received = << >>,
           NEW num \in Sides, NEW j, GoodInterface(n, acc, RouterWay(num), j, RouterIP(num)),
           GoodQueue(acc, "either", j.datagrams_received),
           NEW frames, GoodFrames(n, acc, RouterWay(num), frames),
           NEW routed \in Route([r EXCEPT !.interfaces[num] = j])
    PROVE  /\ GoodRouter(n, acc, routed.router)
           /\ routed.router.routing_table = r.routing_table
           /\ \A m \in Sides : routed.router.interfaces[m].datagrams_received = << >>
           /\ \A m \in Sides :
                  GoodFrames(n, acc, RouterWay(m), (IF m = num THEN frames ELSE << >>) \o routed.sent[m])
<1> DEFINE first == [r EXCEPT !.interfaces[num] = j]
<1>1. /\ GoodRouter(n, acc, first)
      /\ first.routing_table = r.routing_table
      /\ \A m \in Sides : first.interfaces[m] = IF m = num THEN j ELSE r.interfaces[m]
  BY RouterChanged
<1>2. routed \in Route(first)
  OBVIOUS
<1> HIDE DEF first
<1>3. \A m \in Sides : GoodQueue(acc, "either", first.interfaces[m].datagrams_received)
  <2>1. GoodQueue(acc, "either", << >>)
    BY DatagramQueues
  <2> QED BY <1>1, <2>1
<1>4. HoldsRoutes(first.routing_table, Routes)
  BY <1>1
<1>5. /\ GoodRouting(n, acc, first.routing_table, routed)
      /\ \A m \in Sides : Received(routed, m) = << >>
  BY <1>1, <1>2, <1>3, <1>4, RouteGood
<1>6. ASSUME NEW m \in Sides
      PROVE  GoodFrames(n, acc, RouterWay(m), (IF m = num THEN frames ELSE << >>) \o routed.sent[m])
  <2> DEFINE a == IF m = num THEN frames ELSE << >>
             b == routed.sent[m]
             wm == RouterWay(m)
  <2>1. GoodFrames(n, acc, wm, b)
    BY <1>5 DEF GoodRouting
  <2>2. GoodFrames(n, acc, wm, a)
    BY ShortQueues
  <2> HIDE DEF a, b, wm
  <2>3. GoodFrames(n, acc, wm, a \o b)
    BY <2>1, <2>2, QueuesJoined
  <2> QED BY <2>3 DEF a, b, wm
<1>7. GoodRouter(n, acc, routed.router) /\ routed.router.routing_table = r.routing_table
  BY <1>1, <1>5 DEF GoodRouting
<1>8. \A m \in Sides : routed.router.interfaces[m].datagrams_received = << >>
  BY <1>5 DEF Received
<1> QED BY <1>6, <1>7, <1>8

(***************************************************************************)
(* A frame for the router: whatever route makes of it goes on its way.     *)
(***************************************************************************)
LEMMA RouterReceivesSound ==
    ASSUME IInv, NEW from \in {"host to router", "remote to router"}, NEW num \in Sides,
           RouterReceives(from, num)
    PROVE  IInv'
<1> DEFINE i == router.interfaces[num]
           f == Head(wire[from])
           th == "frames to host"
           ti == "frames to internet"
           w1 == [wire EXCEPT ![from] = Tail(@)]
           in == WayOf(from)
<1>1. /\ UNCHANGED << host, pending, remote, runs, faults, accepted, answered >>
      /\ pending = {} /\ wire[from] # << >>
  BY DEF RouterReceives, Running
<1>2. /\ GoodRouter(runs, accepted, router) /\ HoldsRoutes(router.routing_table, Routes)
      /\ \A m \in Sides : router.interfaces[m].datagrams_received = << >>
      /\ GoodWire(runs, accepted, wire)
  BY <1>1 DEF IInv, RouterSound, TablesSound, WireSound
<1>3. /\ from \in Places /\ th \in Places /\ ti \in Places
      /\ WayOf(th) = RouterWay(HostSide) /\ WayOf(ti) = RouterWay(InternetSide)
      /\ OneWay(in)
  BY TheSides DEF Places, OneWay
<1>4. GoodFrame(runs, accepted, in, f) /\ GoodWire(runs, accepted, w1)
  BY <1>1, <1>2, <1>3, TakeFromPlace
<1>5. RunsSound' /\ HostSound' /\ RemoteSound' /\ ConnectionSound'
  BY <1>1 DEF IInv, RunsSound, HostSound, RemoteSound, ConnectionSound
<1>6. \E c \in RecvFrame(i, f) :
          \E routed \in Route([router EXCEPT !.interfaces[num] = c.iface]) :
              LET sent(n) == (IF n = num THEN c.sent ELSE << >>) \o routed.sent[n]
              IN  /\ router' = Ticked(routed.router)
                  /\ wire' = [wire EXCEPT ![from] = Tail(@),
                                          ![th] = Enqueue(@, sent(HostSide)),
                                          ![ti] = Enqueue(@, sent(InternetSide))]
  BY DEF RouterReceives
<1>7. i = router.interfaces[num] /\ w1 = [wire EXCEPT ![from] = Tail(@)]
  OBVIOUS
<1>8. from # th /\ from # ti /\ th # ti
  OBVIOUS
<1> HIDE DEF i, f, th, ti, w1, in
<1>9. PICK c \in RecvFrame(i, f) :
          \E routed \in Route([router EXCEPT !.interfaces[num] = c.iface]) :
              LET sent(n) == (IF n = num THEN c.sent ELSE << >>) \o routed.sent[n]
              IN  /\ router' = Ticked(routed.router)
                  /\ wire' = [wire EXCEPT ![from] = Tail(@),
                                          ![th] = Enqueue(@, sent(HostSide)),
                                          ![ti] = Enqueue(@, sent(InternetSide))]
  BY <1>6
<1> DEFINE j      == c.iface
           frames == c.sent
<1>10. /\ GoodInterface(runs, accepted, RouterWay(num), j, RouterIP(num))
       /\ GoodFrames(runs, accepted, RouterWay(num), frames)
       /\ GoodQueue(accepted, "either", j.datagrams_received)
  <2> DEFINE way == RouterWay(num)
             ip  == RouterIP(num)
  <2>1. GoodInterface(runs, accepted, way, i, ip) /\ i.datagrams_received = << >>
    BY <1>2, <1>7 DEF GoodRouter
  <2> HIDE DEF way, ip
  <2>2. /\ GoodInterface(runs, accepted, way, c.iface, ip)
        /\ GoodFrames(runs, accepted, way, c.sent)
        /\ GoodQueue(accepted, "either", c.iface.datagrams_received)
    BY <1>3, <1>4, <2>1, RecvQueueGood
  <2> QED BY <2>2 DEF way, ip
<1> HIDE DEF j, frames
<1>11. PICK routed \in Route([router EXCEPT !.interfaces[num] = j]) :
          LET sent(n) == (IF n = num THEN frames ELSE << >>) \o routed.sent[n]
          IN  /\ router' = Ticked(routed.router)
              /\ wire' = [wire EXCEPT ![from] = Tail(@),
                                      ![th] = Enqueue(@, sent(HostSide)),
                                      ![ti] = Enqueue(@, sent(InternetSide))]
  BY <1>9 DEF j, frames
<1> DEFINE toHost == (IF HostSide = num THEN frames ELSE << >>) \o routed.sent[HostSide]
           toNet  == (IF InternetSide = num THEN frames ELSE << >>) \o routed.sent[InternetSide]
           w2     == [w1 EXCEPT ![th] = Enqueue(@, toHost)]
           w3     == [w2 EXCEPT ![ti] = Enqueue(@, toNet)]
           r      == routed.router
<1>12. wire' = [wire EXCEPT ![from] = Tail(@), ![th] = Enqueue(@, toHost), ![ti] = Enqueue(@, toNet)]
       /\ router' = Ticked(r)
  BY <1>11
<1>13. /\ GoodRouter(runs, accepted, r)
       /\ r.routing_table = router.routing_table
       /\ \A m \in Sides : r.interfaces[m].datagrams_received = << >>
       /\ \A m \in Sides :
              GoodFrames(runs, accepted, RouterWay(m), (IF m = num THEN frames ELSE << >>) \o routed.sent[m])
  BY <1>2, <1>10, RoutedGood
<1>14. GoodFrames(runs, accepted, WayOf(th), toHost) /\ GoodFrames(runs, accepted, WayOf(ti), toNet)
  BY <1>3, <1>13, TheSides
<1> HIDE DEF toHost, toNet, r
<1>15. wire' = w3
  BY <1>7, <1>8, <1>12
<1>16. RouterSound' /\ TablesSound'
  <2>1. HoldsRoutes(r.routing_table, Routes \ pending) /\ pending \subseteq Routes
    BY <1>1, <1>2, <1>13
  <2> QED BY <1>1, <1>12, <1>13, <2>1, RouterTicks
<1>17. GoodWire(runs, accepted, w2)
  BY <1>3, <1>4, <1>14, PutIntoPlace
<1> HIDE DEF w2
<1>18. GoodWire(runs, accepted, w3)
  BY <1>3, <1>14, <1>17, PutIntoPlace
<1>19. WireSound'
  BY <1>1, <1>15, <1>18 DEF WireSound
<1> QED BY <1>5, <1>16, <1>19 DEF IInv

(***************************************************************************)
(* A frame of a FramesOut queue is written to the socket it is for.        *)
(***************************************************************************)
LEMMA RouterWritesSound ==
    ASSUME IInv, NEW from \in Places, NEW to \in Places, from # to, WayOf(from) = WayOf(to),
           RouterWrites(from, to)
    PROVE  IInv'
<1> DEFINE f      == Head(wire[from])
           frames == << f >>
           w1     == [wire EXCEPT ![from] = Tail(@)]
           w2     == [w1 EXCEPT ![to] = Enqueue(@, frames)]
           way    == WayOf(from)
<1>1. /\ UNCHANGED << host, pending, remote, runs, faults, accepted, answered >>
      /\ pending = {} /\ wire[from] # << >> /\ router' = Ticked(router)
      /\ wire' = [wire EXCEPT ![from] = Tail(@), ![to] = Enqueue(@, frames)]
  BY DEF RouterWrites, Running
<1>2. wire' = w2
  <2> HIDE DEF frames
  <2> QED BY <1>1
<1>3. GoodWire(runs, accepted, wire)
  BY DEF IInv, WireSound
<1>4. GoodFrame(runs, accepted, way, f) /\ GoodWire(runs, accepted, w1)
  BY <1>1, <1>3, TakeFromPlace
<1> HIDE DEF f, w1
<1>5. GoodFrames(runs, accepted, WayOf(to), frames)
  <2>1. GoodFrame(runs, accepted, WayOf(to), f)
    BY <1>4
  <2> QED BY <2>1, ShortQueues
<1> HIDE DEF frames
<1>6. GoodWire(runs, accepted, w2)
  BY <1>4, <1>5, PutIntoPlace
<1>7. WireSound'
  BY <1>1, <1>2, <1>6 DEF WireSound
<1>8. RouterSound' /\ TablesSound'
  BY <1>1, RouterTicks DEF IInv, RouterSound, TablesSound
<1>9. RunsSound' /\ HostSound' /\ RemoteSound' /\ ConnectionSound'
  BY <1>1 DEF IInv, RunsSound, HostSound, RemoteSound, ConnectionSound
<1> QED BY <1>7, <1>8, <1>9 DEF IInv

(***************************************************************************)
(* The network thread finds nothing to do.                                 *)
(***************************************************************************)
LEMMA LoopTimeoutSound ==
    ASSUME IInv, LoopTimeout
    PROVE  IInv'
<1>1. /\ UNCHANGED << host, pending, remote, wire, runs, faults, accepted, answered >>
      /\ router' = Ticked(router)
  BY DEF LoopTimeout
<1>2. RouterSound' /\ TablesSound'
  BY <1>1, RouterTicks DEF IInv, RouterSound, TablesSound
<1>3. RunsSound' /\ HostSound' /\ RemoteSound' /\ WireSound' /\ ConnectionSound'
  BY <1>1 DEF IInv, RunsSound, HostSound, RemoteSound, WireSound, ConnectionSound
<1> QED BY <1>2, <1>3 DEF IInv

(***************************************************************************)
(* A client's segment is forwarded to us by the other program.             *)
(***************************************************************************)
LEMMA RemoteSendsSound ==
    ASSUME IInv, NEW a \in Arrivals, RemoteSends(a)
    PROVE  IInv'
<1> DEFINE payload == [src_port |-> a.client.port, dst_port |-> Server.port,
                       SYN |-> a.SYN, RST |-> FALSE]
           ttl    == a.ttl
           src    == a.client.ip
           zero   == 0
           dgram  == ComputeChecksum(DatagramOf(ttl, PROTO_TCP, zero, src, HostIP, payload))
           out    == SendDatagram(remote, dgram, InternetSideIP)
           j      == out.iface
           frames == out.sent
           p      == "remote to router"
           way    == "to host"
           ip     == RemoteIP
           hop    == InternetSideIP
<1>1. /\ UNCHANGED << host, router, pending, runs, faults, accepted, answered >>
      /\ remote' = j
      /\ wire' = [wire EXCEPT ![p] = Enqueue(@, frames)]
  BY DEF RemoteSends, DatagramOf
<1>2. GoodInterface(runs, accepted, way, remote, ip) /\ remote.datagrams_received = << >>
      /\ GoodWire(runs, accepted, wire) /\ p \in Places /\ WayOf(p) = way
  BY DEF IInv, RemoteSound, WireSound, Places, WayOf
<1>3. GoodDatagram(dgram) /\ OnWay(accepted, way, dgram)
  <2>1. ttl \in Nat /\ ttl > 0
    BY EndToEndAssumption, DatagramAssumption
  <2> HIDE DEF ttl, src, payload, zero
  <2>2. GoodDatagram(dgram) /\ dgram.dst = HostIP
    BY <2>1, ChecksumGood
  <2> HIDE DEF dgram
  <2> QED BY <2>2 DEF OnWay, ToHost
<1>4. out = SendDatagram(remote, dgram, hop)
  OBVIOUS
<1> HIDE DEF dgram, out, p, way, ip, hop
<1>5. /\ GoodInterface(runs, accepted, way, j, ip)
      /\ j.datagrams_received = remote.datagrams_received
      /\ GoodFrames(runs, accepted, way, frames)
  <2>1. LET o == SendDatagram(remote, dgram, hop)
        IN  /\ GoodInterface(runs, accepted, way, o.iface, ip)
            /\ o.iface.datagrams_received = remote.datagrams_received
            /\ GoodFrames(runs, accepted, way, o.sent)
    BY <1>2, <1>3, SendGood
  <2> QED BY <1>4, <2>1
<1> HIDE DEF j, frames
<1>6. GoodWire(runs, accepted, [wire EXCEPT ![p] = Enqueue(@, frames)])
  BY <1>2, <1>5, PutIntoPlace
<1>7. WireSound' /\ RemoteSound'
  BY <1>1, <1>2, <1>5, <1>6 DEF WireSound, RemoteSound, way, ip
<1>8. RunsSound' /\ HostSound' /\ RouterSound' /\ TablesSound' /\ ConnectionSound'
  BY <1>1 DEF IInv, RunsSound, HostSound, RouterSound, TablesSound, ConnectionSound
<1> QED BY <1>7, <1>8 DEF IInv

(***************************************************************************)
(* A frame of ours arrives there: only a client the host has accepted is   *)
(* answered.                                                               *)
(***************************************************************************)
LEMMA RemoteReceivesSound ==
    ASSUME IInv, RemoteReceives
    PROVE  IInv'
<1> DEFINE from == "router to remote"
           to   == "remote to router"
           f    == Head(wire[from])
           way  == "to host"
           in   == "from host"
           ip   == RemoteIP
           w1   == [wire EXCEPT ![from] = Tail(@)]
<1>1. UNCHANGED << host, router, pending, runs, faults, accepted >> /\ wire[from] # << >>
  BY DEF RemoteReceives
<1>2. PICK c \in RecvFrame(remote, f) :
          LET got == c.iface.datagrams_received
          IN  /\ remote' = [c.iface EXCEPT !.datagrams_received = << >>]
              /\ wire' = [wire EXCEPT ![from] = Tail(@), ![to] = Enqueue(@, c.sent)]
              /\ answered' = answered \cup {[ip |-> d.dst, port |-> d.payload.dst_port] : d \in ToSet(got)}
  BY DEF RemoteReceives
<1> DEFINE j      == c.iface
           got    == j.datagrams_received
           none   == << >>
           frames == c.sent
           rest   == [j EXCEPT !.datagrams_received = none]
           w2     == [w1 EXCEPT ![to] = Enqueue(@, frames)]
<1>3. /\ remote' = rest
      /\ answered' = answered \cup {[ip |-> d.dst, port |-> d.payload.dst_port] : d \in ToSet(got)}
  BY <1>2
<1>4. wire' = w2
  <2>1. wire' = [wire EXCEPT ![from] = Tail(@), ![to] = Enqueue(@, frames)]
    BY <1>2
  <2>2. from # to
    OBVIOUS
  <2> HIDE DEF frames, from, to
  <2> QED BY <2>1, <2>2
<1>5. /\ GoodInterface(runs, accepted, way, remote, ip) /\ remote.datagrams_received = << >>
      /\ GoodWire(runs, accepted, wire)
      /\ from \in Places /\ to \in Places /\ WayOf(from) = in /\ WayOf(to) = way
  BY DEF IInv, RemoteSound, WireSound, Places, WayOf
<1>6. GoodFrame(runs, accepted, in, f) /\ GoodWire(runs, accepted, w1)
  <2> HIDE DEF from
  <2> QED BY <1>1, <1>5, TakeFromPlace
<1> HIDE DEF f, way, in, ip, from, to, w1
<1>7. /\ GoodInterface(runs, accepted, way, j, ip)
      /\ GoodFrames(runs, accepted, way, frames)
      /\ \/ got = << >>
         \/ got = << f.payload >> /\ OnWay(accepted, in, f.payload)
  BY <1>5, <1>6, RecvGood
<1>8. answered' \subseteq accepted
  <2> DEFINE p == f.payload
  <2>1. got = << >> \/ (got = << p >> /\ OnWay(accepted, in, p))
    BY <1>7
  <2>2. OnWay(accepted, in, p) => [ip |-> p.dst, port |-> p.payload.dst_port] \in accepted
    BY DEF OnWay, FromHost, in
  <2>3. ToSet(<< >>) = {} /\ ToSet(<< p >>) = {p}
    BY DEF ToSet
  <2>4. answered \subseteq accepted
    BY DEF IInv, ConnectionSound
  <2> HIDE DEF got, p
  <2>5. \A d \in ToSet(got) : [ip |-> d.dst, port |-> d.payload.dst_port] \in accepted
    BY <2>1, <2>2, <2>3
  <2> QED BY <1>3, <2>4, <2>5
<1> HIDE DEF j, frames, got, none
<1>9. GoodInterface(runs, accepted, way, rest, ip) /\ rest.datagrams_received = none
  <2>1. GoodInterface(runs, accepted, way, j, ip) /\ rest = [j EXCEPT !.datagrams_received = none]
    BY <1>7
  <2> HIDE DEF rest
  <2> QED BY <2>1, ReceivedChanged
<1>10. GoodFrames(runs, accepted, WayOf(to), frames)
  BY <1>5, <1>7
<1>11. GoodWire(runs, accepted, w2)
  BY <1>5, <1>6, <1>10, PutIntoPlace
<1> HIDE DEF rest, w2
<1>12. WireSound' /\ RemoteSound'
  BY <1>1, <1>3, <1>4, <1>9, <1>11 DEF WireSound, RemoteSound, way, ip, none
<1>13. ConnectionSound'
  BY <1>1, <1>8 DEF IInv, ConnectionSound
<1>14. RunsSound' /\ HostSound' /\ RouterSound' /\ TablesSound'
  BY <1>1 DEF IInv, RunsSound, HostSound, RouterSound, TablesSound
<1> QED BY <1>12, <1>13, <1>14 DEF IInv

(***************************************************************************)
(* The other program is started anew with another Ethernet address: what   *)
(* was learned of the old one is still something its owner really had.     *)
(***************************************************************************)
LEMMA RemoteRestartSound ==
    ASSUME IInv, RemoteRestart
    PROVE  IInv'
<1> DEFINE m     == runs + 1
           ether == RemoteEthers[m]
           way   == "to host"
<1>1. /\ UNCHANGED << host, router, pending, wire, faults, accepted, answered >>
      /\ runs < Len(RemoteEthers)
      /\ remote' = NewInterface(ether, RemoteIP) /\ runs' = m
  BY DEF RemoteRestart
<1>2. runs \in Nat /\ m \in Nat /\ runs <= m /\ m \in 1 .. Len(RemoteEthers)
  BY <1>1, EndToEndAssumption DEF IInv, RunsSound
<1> HIDE DEF m
<1>3. Later(runs, m, accepted, accepted)
  BY <1>2 DEF Later
<1>4. ether \in EthersOf(m, RemoteIP)
  BY <1>2, OwnEthers
<1> HIDE DEF ether, way
<1>5. /\ GoodInterface(m, accepted, way, NewInterface(ether, RemoteIP), RemoteIP)
      /\ NewInterface(ether, RemoteIP).datagrams_received = << >>
  BY <1>4, NewInterfaceGood
<1>6. RunsSound' /\ RemoteSound'
  BY <1>1, <1>2, <1>5 DEF RunsSound, RemoteSound, way
<1>7. HostSound'
  <2> DEFINE from == "from host"
             i == host.iface
             ip == HostIP
  <2>1. GoodInterface(runs, accepted, from, i, ip)
    BY DEF IInv, HostSound
  <2> HIDE DEF from, i, ip
  <2>2. GoodInterface(m, accepted, from, i, ip)
    BY <1>3, <2>1, InterfaceStaysGood
  <2> QED BY <1>1, <2>2 DEF IInv, HostSound, from, i, ip
<1>8. RouterSound'
  BY <1>1, <1>3, RouterStaysGood DEF IInv, RouterSound
<1>9. WireSound'
  BY <1>1, <1>3, WireStaysGood DEF IInv, WireSound
<1>10. TablesSound' /\ ConnectionSound'
  BY <1>1 DEF IInv, TablesSound, ConnectionSound
<1> QED BY <1>6, <1>7, <1>8, <1>9, <1>10 DEF IInv

(***************************************************************************)
(* The Internet loses or delays a frame.                                   *)
(***************************************************************************)
LEMMA InternetSound ==
    ASSUME IInv, NEW p \in Internet, Lose(p) \/ Delay(p)
    PROVE  IInv'
<1>1. /\ UNCHANGED << host, router, pending, remote, runs, accepted, answered >>
      /\ wire' = [wire EXCEPT ![p] = Tail(@)] \/ wire' = [wire EXCEPT ![p] = Append(Tail(@), Head(@))]
  BY DEF Lose, Delay
<1>2. p \in Places /\ GoodWire(runs, accepted, wire)
  BY DEF Internet, Places, IInv, WireSound
<1> DEFINE queue == wire[p]
           lost    == [wire EXCEPT ![p] = Tail(@)]
           delayed == [wire EXCEPT ![p] = Append(Tail(@), Head(@))]
<1>3. queue # << >>
  <2>1. queue # << >> \/ Len(queue) > 1
    BY DEF Lose, Delay
  <2>2. Len(<< >>) = 0
    OBVIOUS
  <2> HIDE DEF queue
  <2> QED BY <2>1, <2>2
<1>4. GoodWire(runs, accepted, wire')
  <2>1. GoodWire(runs, accepted, lost) /\ GoodWire(runs, accepted, delayed)
    BY <1>2, <1>3, TakeFromPlace
  <2>2. wire' = lost \/ wire' = delayed
    BY <1>1
  <2> HIDE DEF lost, delayed
  <2> QED BY <2>1, <2>2
<1>5. WireSound'
  BY <1>1, <1>4 DEF WireSound
<1>6. RunsSound' /\ HostSound' /\ RouterSound' /\ RemoteSound' /\ TablesSound' /\ ConnectionSound'
  BY <1>1 DEF IInv, RunsSound, HostSound, RouterSound, RemoteSound, TablesSound, ConnectionSound
<1> QED BY <1>5, <1>6 DEF IInv

(***************************************************************************)
(* Every step keeps the invariant.                                         *)
(***************************************************************************)
LEMMA NextSound == IInv /\ [Next]_vars => IInv'
<1> SUFFICES ASSUME IInv, [Next]_vars
             PROVE  IInv'
  OBVIOUS
<1>1. CASE UNCHANGED vars
  BY <1>1 DEF vars, IInv, RunsSound, HostSound, RouterSound, RemoteSound, TablesSound, WireSound, ConnectionSound
<1>2. ASSUME NEW route \in pending, SetUpRoute(route)
      PROVE  IInv'
  BY <1>2, SetUpRouteSound
<1>3. CASE HostWrite
  BY <1>3, HostWriteSound
<1>4. CASE HostRead
  BY <1>4, HostReadSound
<1>5. CASE HostTick \/ RemoteTick
  BY <1>5, TicksSound
<1>6. CASE FramesFromHost \/ FramesFromInternet
  BY <1>6, TheSides, RouterReceivesSound DEF FramesFromHost, FramesFromInternet
<1>7. CASE FramesToHost
  <2> DEFINE from == "frames to host"
             to   == "router to host"
  <2>1. from \in Places /\ to \in Places /\ from # to /\ WayOf(from) = WayOf(to)
    BY DEF Places, WayOf
  <2>2. RouterWrites(from, to)
    BY <1>7 DEF FramesToHost
  <2> HIDE DEF from, to
  <2> QED BY <2>1, <2>2, RouterWritesSound
<1>8. CASE FramesToInternet
  <2> DEFINE from == "frames to internet"
             to   == "router to remote"
  <2>1. from \in Places /\ to \in Places /\ from # to /\ WayOf(from) = WayOf(to)
    BY DEF Places, WayOf
  <2>2. RouterWrites(from, to)
    BY <1>8 DEF FramesToInternet
  <2> HIDE DEF from, to
  <2> QED BY <2>1, <2>2, RouterWritesSound
<1>9. CASE LoopTimeout
  BY <1>9, LoopTimeoutSound
<1>10. ASSUME NEW a \in Arrivals, RemoteSends(a)
       PROVE  IInv'
  BY <1>10, RemoteSendsSound
<1>11. CASE RemoteReceives
  BY <1>11, RemoteReceivesSound
<1>12. CASE RemoteRestart
  BY <1>12, RemoteRestartSound
<1>13. ASSUME NEW p \in Internet, Lose(p) \/ Delay(p)
       PROVE  IInv'
  BY <1>13, InternetSound
<1> QED BY <1>1, <1>2, <1>3, <1>4, <1>5, <1>6, <1>7, <1>8, <1>9, <1>10, <1>11, <1>12, <1>13 DEF Next

-----------------------------------------------------------------------------
(***************************************************************************)
(* The invariant says enough.                                              *)
(***************************************************************************)
LEMMA EtherOfRuns ==
    ASSUME NEW ip
    PROVE  EtherOf(ip) = EthersOf(runs, ip)
BY DEF EtherOf, EthersOf

(***************************************************************************)
(* Good frames and good waiting datagrams have acceptable headers.         *)
(***************************************************************************)
LEMMA SoundHeaders == IInv => HeadersAccepted
<1> SUFFICES ASSUME IInv, NEW d \in DatagramsUnderWay \cup {w.dgram : w \in Waiting}
             PROVE  GoodDatagram(d)
  BY DEF HeadersAccepted, GoodDatagram
<1>1. CASE d \in DatagramsUnderWay
  <2>1. PICK p \in Places : \E f \in ToSet(wire[p]) : f.type = "IPv4" /\ d = f.payload
    BY <1>1 DEF DatagramsUnderWay
  <2>2. PICK f \in ToSet(wire[p]) : f.type = "IPv4" /\ d = f.payload
    BY <2>1
  <2>3. GoodFrames(runs, accepted, WayOf(p), wire[p])
    BY DEF IInv, WireSound, GoodWire
  <2>4. GoodFrame(runs, accepted, WayOf(p), f)
    BY <2>3 DEF GoodFrames
  <2> QED BY <2>2, <2>4 DEF GoodFrame
<1>2. CASE d \in {w.dgram : w \in Waiting}
  <2>1. PICK w \in Waiting : d = w.dgram
    BY <1>2
  <2>2. CASE w \in host.iface.datagrams_waiting
    BY <2>1, <2>2 DEF IInv, HostSound, GoodInterface, GoodWaiting
  <2>3. CASE w \in remote.datagrams_waiting
    BY <2>1, <2>3 DEF IInv, RemoteSound, GoodInterface, GoodWaiting
  <2>4. ASSUME NEW num \in Sides, w \in router.interfaces[num].datagrams_waiting
        PROVE  GoodDatagram(d)
    <3>1. GoodInterface(runs, accepted, RouterWay(num), router.interfaces[num], RouterIP(num))
      BY DEF IInv, RouterSound, GoodRouter
    <3> QED BY <2>1, <2>4, <3>1 DEF GoodInterface, GoodWaiting
  <2> QED BY <2>2, <2>3, <2>4 DEF Waiting, Sides
<1> QED BY <1>1, <1>2

(***************************************************************************)
(* Tables of good interfaces hold true mappings.                           *)
(***************************************************************************)
LEMMA SoundMappings == IInv => MappingsTrue
<1> SUFFICES ASSUME IInv
             PROVE  MappingsTrue
  OBVIOUS
<1>1. TrueTable(runs, host.iface.arp_addr_table) /\ TrueTable(runs, remote.arp_addr_table)
  BY DEF IInv, HostSound, RemoteSound, GoodInterface
<1>2. \A num \in Sides : TrueTable(runs, router.interfaces[num].arp_addr_table)
  BY DEF IInv, RouterSound, GoodRouter, GoodInterface
<1>3. ASSUME NEW i \in {host.iface, remote, router.interfaces[HostSide], router.interfaces[InternetSide]},
             NEW ip \in DOMAIN i.arp_addr_table
      PROVE  i.arp_addr_table[ip].ether \in EtherOf(ip)
  <2>1. TrueTable(runs, i.arp_addr_table)
    BY <1>1, <1>2, TheSides
  <2> QED BY <2>1, EtherOfRuns DEF TrueTable
<1> QED BY <1>3 DEF MappingsTrue

(***************************************************************************)
(* Whoever was accepted is the client the adapter is bound to.             *)
(***************************************************************************)
LEMMA SoundConnection == IInv => OneConnection
<1> SUFFICES ASSUME IInv
             PROVE  OneConnection
  OBVIOUS
<1> DEFINE c == ClientOf(host.adapter)
<1>1. accepted = {} \/ accepted = {c}
  BY DEF IInv, ConnectionSound
<1>2. answered \subseteq accepted
  BY DEF IInv, ConnectionSound
<1>3. Cardinality({}) = 0 /\ Cardinality({c}) = 1
  <2> HIDE DEF c
  <2> QED BY FS_EmptySet, FS_Singleton
<1> HIDE DEF c
<1>4. Cardinality(accepted) <= 1
  BY <1>1, <1>3
<1> QED BY <1>2, <1>4 DEF OneConnection

(***************************************************************************)
(* Tables that hold the routes added match the longest prefix.             *)
(***************************************************************************)
LEMMA SoundTables == IInv => LongestPrefix
<1> SUFFICES ASSUME IInv, NEW addr \in Address
             PROVE  LET added == Routes \ pending
                    IN  /\ Hits(router, addr) = {r.prefix_length : r \in {s \in added : Covers(s, addr)}}
                        /\ \A r \in Longest(added, addr) :
                               Match(router, addr) = [interface_num |-> r.interface_num, next_hop |-> r.next_hop]
  BY DEF LongestPrefix
<1> DEFINE added == Routes \ pending
<1>1. added \in SUBSET Routes /\ HoldsRoutes(router.routing_table, added)
  BY DEF IInv, TablesSound
<1> HIDE DEF added
<1>2. /\ Hits(router, addr) = {s.prefix_length : s \in {x \in added : Covers(x, addr)}}
      /\ \A s \in Longest(added, addr) : Match(router, addr) = Entry(s)
  BY <1>1, MatchFinds
<1> QED BY <1>2 DEF Entry, added

(***************************************************************************)
(* The inductive invariant holds in every reachable state.                 *)
(***************************************************************************)
THEOREM Invariance == Spec => []IInv
BY InitSound, NextSound, PTL DEF Spec

(***************************************************************************)
(* No parser of the stack rejects a header the stack made: forwarding      *)
(* computes the checksum anew, and expired datagrams are dropped.          *)
(***************************************************************************)
THEOREM HeadersAlwaysAccepted == Spec => []HeadersAccepted
BY Invariance, SoundHeaders, PTL

(***************************************************************************)
(* Whatever clients send and however frames are lost or delayed, one       *)
(* client at most is served, and nobody else is ever answered.             *)
(***************************************************************************)
THEOREM AlwaysOneConnection == Spec => []OneConnection
BY Invariance, SoundConnection, PTL

(***************************************************************************)
(* No interface ever learns an address its owner did not have.             *)
(***************************************************************************)
THEOREM MappingsAlwaysTrue == Spec => []MappingsTrue
BY Invariance, SoundMappings, PTL

(***************************************************************************)
(* The 32 tables match the longest prefix, for any set of routes added in  *)
(* any order.                                                              *)
(***************************************************************************)
THEOREM AlwaysLongestPrefix == Spec => []LongestPrefix
BY Invariance, SoundTables, PTL
=============================================================================

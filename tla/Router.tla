------------------------------- MODULE Router -------------------------------
(***************************************************************************)
(* Router (src/src/router) as operators on its state: its interfaces, a    *)
(* function on 0 .. n - 1, and the routing table, for each prefix length   *)
(* a function from prefixes, moved down to their significant bits, to      *)
(* entries [interface_num, next_hop] (next_hop None: directly attached).   *)
(***************************************************************************)
EXTENDS NetworkInterface

CONSTANT AddrBits       \* 32, the bits of an address

(***************************************************************************)
(* Shifting by n bits is dividing by this.                                 *)
(***************************************************************************)
TwoTo[n \in Nat] == IF n = 0 THEN 1 ELSE 2 * TwoTo[n - 1]

ASSUME RouterAssumption == AddrBits \in Nat \ {0} /\ TwoTo[AddrBits] = Mod32

PrefixLengths == 0 .. AddrBits - 1

NewRouter(ifs) == [interfaces |-> ifs, routing_table |-> [len \in PrefixLengths |-> << >>]]

Rotr(x, n) == (x \div TwoTo[n]) + (x % TwoTo[n]) * TwoTo[AddrBits - n]

(***************************************************************************)
(* add_route                                                               *)
(***************************************************************************)
AddRoute(r, route) ==
    [r EXCEPT !.routing_table[route.prefix_length] =
        Assigned(@, Rotr(route.route_prefix, AddrBits - route.prefix_length),
                 [interface_num |-> route.interface_num, next_hop |-> route.next_hop])]

(***************************************************************************)
(* match: the first hit, from the longest prefix to the empty one.         *)
(***************************************************************************)
Hits(r, addr) ==
    {len \in PrefixLengths : (addr \div TwoTo[AddrBits - len]) \in DOMAIN r.routing_table[len]}

\* mistake: start from the empty prefix
BugMatchShortest(r, addr) ==
    LET len == Min(Hits(r, addr))
    IN  r.routing_table[len][addr \div TwoTo[AddrBits - len]]

Match(r, addr) ==
    LET len == Max(Hits(r, addr))
    IN  r.routing_table[len][addr \div TwoTo[AddrBits - len]]

(***************************************************************************)
(* One turn of route's inner loop.  Here too operators return the set of   *)
(* their outcomes: the router after, and for each interface the frames it  *)
(* has sent.                                                               *)
(***************************************************************************)
\* mistake: the checksum is not computed anew
BugForwardedStaleChecksum(dgram) == [dgram EXCEPT !.ttl = @ - 1]

Forwarded(dgram) == ComputeChecksum([dgram EXCEPT !.ttl = @ - 1])

NextHop(route, dgram) == IF route.next_hop = None THEN dgram.dst ELSE route.next_hop

SentBy(num, c, out) ==
    [router |-> [c.router EXCEPT !.interfaces[num] = out.iface],
     sent   |-> [c.sent EXCEPT ![num] = @ \o out.sent]]

Forward(c, dgram) ==
    IF dgram.ttl <= 1 \/ Hits(c.router, dgram.dst) = {} THEN {c}
    ELSE {SentBy(route.interface_num, c,
                 SendDatagram(c.router.interfaces[route.interface_num],
                              Forwarded(dgram), NextHop(route, dgram)))
            : route \in {Match(c.router, dgram.dst)}}

(***************************************************************************)
(* route: every datagram received by any interface, in the interfaces'     *)
(* order.  Sending does not receive, so a queue can be emptied first.      *)
(***************************************************************************)
ForwardAll(c, queue) ==
    LET turn[k \in 0 .. Len(queue)] ==
            IF k = 0 THEN {c} ELSE UNION {Forward(d, queue[k]) : d \in turn[k - 1]}
    IN  turn[Len(queue)]

RouteReceived(c, num) ==
    ForwardAll([c EXCEPT !.router.interfaces[num].datagrams_received = << >>],
               c.router.interfaces[num].datagrams_received)

Route(r) ==
    LET n == Cardinality(DOMAIN r.interfaces)
        after[k \in 0 .. n] ==
            IF k = 0 THEN {[router |-> r, sent |-> [num \in DOMAIN r.interfaces |-> << >>]]}
            ELSE UNION {RouteReceived(c, k - 1) : c \in after[k - 1]}
    IN  after[n]
=============================================================================

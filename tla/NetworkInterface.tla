-------------------------- MODULE NetworkInterface --------------------------
(***************************************************************************)
(* NetworkInterface (src/src/network_interface) as operators on its state: *)
(*   ether, ip            its own addresses                                *)
(*   arp_addr_table       IP address -> Ethernet address and a timer       *)
(*   arp_requests         IP address -> the age of the last request        *)
(*   datagrams_waiting    datagrams, each with the next hop it waits for   *)
(*   datagrams_received   queue for the owner                              *)
(* Every operator returns outcomes [iface, sent]: the state after, and the *)
(* frames handed to the output port, in order.                             *)
(*                                                                         *)
(* datagrams_waiting is a set: a datagram that is sent again while its     *)
(* first copy waits counts once.                                           *)
(***************************************************************************)
EXTENDS InternetDatagrams

CONSTANTS
    BROADCAST,          \* ETHERNET_BROADCAST
    RTO_map, RTO_arp    \* rto_map_, rto_arp_

ASSUME InterfaceAssumption == RTO_map \in Nat /\ RTO_arp \in Nat

(***************************************************************************)
(* table[key] = value of the maps and of the routing tables.               *)
(***************************************************************************)
Assigned(table, key, value) ==
    [k \in {key} \cup DOMAIN table |-> IF k = key THEN value ELSE table[k]]

NewInterface(ether, ip) ==
    [ether |-> ether, ip |-> ip, arp_addr_table |-> << >>, arp_requests |-> << >>,
     datagrams_waiting |-> {}, datagrams_received |-> << >>]

Outcome(i, frames) == [iface |-> i, sent |-> frames]

(***************************************************************************)
(* make_frame and make_arp_mesg                                            *)
(***************************************************************************)
Frame(i, type, payload, dst) == [dst |-> dst, src |-> i.ether, type |-> type, payload |-> payload]

\* mistake: a message carries the addresses it is about where its sender's belong
BugARPMessageTarget(i, opcode, ip, ether) ==
    [opcode |-> opcode, sender_ethernet_address |-> i.ether, sender_ip_address |-> ip,
     target_ethernet_address |-> ether, target_ip_address |-> i.ip]

ARPMessage(i, opcode, ip, ether) ==
    [opcode |-> opcode, sender_ethernet_address |-> i.ether, sender_ip_address |-> i.ip,
     target_ethernet_address |-> ether, target_ip_address |-> ip]

-----------------------------------------------------------------------------
(***************************************************************************)
(* send_datagram: directly if the next hop's mapping is known; otherwise   *)
(* the datagram waits, and the address is asked for unless it was lately.  *)
(***************************************************************************)
\* mistake: a datagram is only asked for while no other waits
BugSendDatagramAsksOnce(i, dgram, next_hop) ==
    LET waits == [i EXCEPT !.datagrams_waiting = @ \cup {[ip |-> next_hop, dgram |-> dgram]}]
        asks  == [waits EXCEPT !.arp_requests = Assigned(@, next_hop, 0)]
        ask   == ARPMessage(i, "REQUEST", next_hop, None)
    IN  IF next_hop \in DOMAIN i.arp_addr_table
        THEN Outcome(i, << Frame(i, "IPv4", dgram, i.arp_addr_table[next_hop].ether) >>)
        ELSE IF i.datagrams_waiting # {} THEN Outcome(waits, << >>)
        ELSE Outcome(asks, << Frame(i, "ARP", ask, BROADCAST) >>)

SendDatagram(i, dgram, next_hop) ==
    LET waits == [i EXCEPT !.datagrams_waiting = @ \cup {[ip |-> next_hop, dgram |-> dgram]}]
        asks  == [waits EXCEPT !.arp_requests = Assigned(@, next_hop, 0)]
        ask   == ARPMessage(i, "REQUEST", next_hop, None)
    IN  IF next_hop \in DOMAIN i.arp_addr_table
        THEN Outcome(i, << Frame(i, "IPv4", dgram, i.arp_addr_table[next_hop].ether) >>)
        ELSE IF next_hop \in DOMAIN i.arp_requests THEN Outcome(waits, << >>)
        ELSE Outcome(asks, << Frame(i, "ARP", ask, BROADCAST) >>)

(***************************************************************************)
(* The mapping an ARP message carries, request or reply, whoever it is for.*)
(***************************************************************************)
Learn(i, arp) ==
    [i EXCEPT !.arp_addr_table =
        Assigned(@, arp.sender_ip_address, [ether |-> arp.sender_ethernet_address, timer |-> 0])]

(***************************************************************************)
(* A reply sends what waits for its sender, in the unspecified order of    *)
(* equal keys in an unordered_multimap.                                    *)
(***************************************************************************)
Flush(i, arp) ==
    LET ready == {w \in i.datagrams_waiting : w.ip = arp.sender_ip_address}
        left  == [i EXCEPT !.datagrams_waiting = @ \ ready]
    IN  {Outcome(left, [k \in DOMAIN ws |->
                Frame(i, "IPv4", ws[k].dgram, arp.sender_ethernet_address)]) : ws \in SetToSeqs(ready)}

ReceiveARP(i, arp) ==
    LET learned == Learn(i, arp)
        answer  == ARPMessage(i, "REPLY", arp.sender_ip_address, arp.sender_ethernet_address)
    IN  IF arp.opcode = "REPLY" THEN Flush(learned, arp)
        ELSE IF arp.target_ip_address = i.ip
        THEN {Outcome(learned, << Frame(i, "ARP", answer, arp.sender_ethernet_address) >>)}
        ELSE {Outcome(learned, << >>)}

ReceiveIPv4(i, dgram) ==
    {Outcome(IF HeaderParses(dgram) THEN [i EXCEPT !.datagrams_received = Append(@, dgram)] ELSE i,
             << >>)}

(***************************************************************************)
(* recv_frame                                                              *)
(***************************************************************************)
RecvFrame(i, frame) ==
    IF frame.dst \notin {BROADCAST, i.ether} THEN {Outcome(i, << >>)}
    ELSE IF frame.type = "ARP" THEN ReceiveARP(i, frame.payload)
    ELSE ReceiveIPv4(i, frame.payload)

(***************************************************************************)
(* tick: both kinds of entries age, and go once older than their limit.    *)
(***************************************************************************)
TickInterface(i, ms) ==
    LET mapped == {ip \in DOMAIN i.arp_addr_table : i.arp_addr_table[ip].timer + ms <= RTO_map}
        asked  == {ip \in DOMAIN i.arp_requests : i.arp_requests[ip] + ms <= RTO_arp}
    IN  [i EXCEPT
            !.arp_addr_table = [ip \in mapped |-> [i.arp_addr_table[ip] EXCEPT !.timer = @ + ms]],
            !.arp_requests   = [ip \in asked |-> i.arp_requests[ip] + ms]]
=============================================================================

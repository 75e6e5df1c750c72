----------------------------- MODULE MCEndToEnd -----------------------------
(***************************************************************************)
(* Addresses of 4 bits: the server's network 8/2, the Internet 0/1, the    *)
(* clients' network 12/2 behind the other program, and a default route.    *)
(***************************************************************************)
EXTENDS EndToEnd

MCServer == [ip |-> 0, port |-> 3]

Client(port) == [ip |-> 12, port |-> port]

MCArrivals == {[client |-> Client(1), SYN |-> TRUE, ttl |-> 2],
               [client |-> Client(2), SYN |-> TRUE, ttl |-> 2], [client |-> Client(1), SYN |-> TRUE, ttl |-> 1]}

ToInternet(prefix, len, hop) ==
    [route_prefix |-> prefix, prefix_length |-> len, next_hop |-> hop, interface_num |-> InternetSide]

MCRoutes ==
    {[route_prefix |-> 8, prefix_length |-> 2, next_hop |-> None, interface_num |-> HostSide],
     ToInternet(0, 1, None), ToInternet(12, 2, RemoteIP), ToInternet(0, 0, RemoteIP)}

MCRemoteEthers == << "r1", "r2" >>
=============================================================================

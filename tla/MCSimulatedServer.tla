-------------------------- MODULE MCSimulatedServer --------------------------
EXTENDS SimulatedServer

Server(kind, max, capacity, arr) ==
  [kind |-> kind, max |-> max, capacity |-> capacity, arrivals |-> arr]

AllServers == {Server("tcp", 2, 2, 3), Server("udp", 1, 1, 2), Server("tcp", 0, 1, 3),
               Server("quic", 1, 1, 1)}
=============================================================================

--------------------------- MODULE MCNativeServer ---------------------------
EXTENDS NativeServer

Server(kind, runtime, max, arr) ==
  [kind |-> kind, runtime |-> runtime, max |-> max, arrivals |-> arr, lookup |-> FALSE]

AllServers == {Server("tcp", "tokio", 1, 2), Server("tcp", "async_std", 1, 2),
               Server("udp", "tokio", 1, 1), Server("quic", "tokio", 1, 1),
               Server("socket", "tokio", 0, 1),
               [Server("udp", "tokio", 0, 0) EXCEPT !.lookup = TRUE]}

AsyncStdTcp == {Server("tcp", "async_std", 1, 1)}
TokioTcp == {Server("tcp", "tokio", 1, 1)}
=============================================================================

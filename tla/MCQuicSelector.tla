--------------------------- MODULE MCQuicSelector ---------------------------
EXTENDS QuicSelector

\* Both header forms, connection id lengths around the two-byte prefix and the
\* end of the packet, and every truncation of each packet.
MCPackets ==
  {SubSeq(<<first, b, c, 0, 1, len, d, e, 9, 9>>, 1, n) :
     first \in {64, 127, 128}, b \in {1, 255}, c \in {2, 255},
     len \in {0, 1, 2, 3, 4, 5, 255}, d \in {1, 255}, e \in {0, 255}, n \in 0 .. 10}

MCRandoms == {[i \in 1 .. n |-> b] : n \in {7, 8, 20, 21}, b \in {0, 255}}
=============================================================================

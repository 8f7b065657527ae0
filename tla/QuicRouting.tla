---------------------------- MODULE QuicRouting -----------------------------
(***************************************************************************)
(* The worker selection rule of core/quic.rs and the connection ids of     *)
(* core/cid.rs.  A packet and a connection id are sequences of bytes; the  *)
(* code's slice[i] is s[i + 1] here.  Option::None is NoWorker.            *)
(***************************************************************************)
EXTENDS Integers, Sequences

Byte == 0 .. 255
NoWorker == -1

\* The two leading bytes, big-endian; there must be two.
QuicWorkerIndexPrefix(bytes) ==
  IF Len(bytes) < 2 THEN NoWorker ELSE bytes[1] * 256 + bytes[2]

\* The high bit of the first byte marks a long header.
IsLongHeader(packet) == packet[1] >= 128

\* A long header's destination connection id is complete: its length is at
\* offset 5, is not zero, and the id lies within the packet.
HasLongHeaderDcid(packet) ==
  /\ Len(packet) >= 6
  /\ packet[6] # 0
  /\ 6 + packet[6] <= Len(packet)

QuicLongHeaderDcid(packet) == SubSeq(packet, 7, 6 + packet[6])

\* The prefix that selects the worker, NoWorker if the packet is not routable.
RouteKey(packet) ==
  CASE packet = <<>> -> NoWorker
    [] packet # <<>> /\ ~IsLongHeader(packet) -> QuicWorkerIndexPrefix(Tail(packet))
    [] packet # <<>> /\ IsLongHeader(packet) ->
         IF HasLongHeaderDcid(packet)
         THEN QuicWorkerIndexPrefix(QuicLongHeaderDcid(packet)) ELSE NoWorker

QuicWorkerIndex(packet, workers) ==
  IF workers = 0 \/ RouteKey(packet) = NoWorker
  THEN NoWorker ELSE RouteKey(packet) % workers

\* The worker loop behind the kernel selector checks the packet, not the worker.
QuicReuseportBpfAcceptsPacket(packet, workers) ==
  QuicWorkerIndex(packet, workers) # NoWorker

-----------------------------------------------------------------------------
MinCidLen == 8
MaxCidLen == 20
MaxWorkerIndex == 65535

\* QuicCidGenerator::new and with_cid_len accept these.
ValidGenerator(workerIndex, cidLen) ==
  workerIndex \in 0 .. MaxWorkerIndex /\ cidLen \in MinCidLen .. MaxCidLen

\* Mutant of GenerateCid: the worker index in little-endian order.
GenerateCidLittleEndian(workerIndex, random) ==
  [random EXCEPT ![1] = workerIndex % 256, ![2] = workerIndex \div 256]

\* generate_into: random bytes, then the worker index over the first two.
GenerateCid(workerIndex, random) ==
  [random EXCEPT ![1] = workerIndex \div 256, ![2] = workerIndex % 256]

\* Packets that carry a connection id as QUIC lays it out.
LongPacket(cid, rest) == <<224, 0, 0, 0, 1, Len(cid)>> \o cid \o rest
ShortPacket(cid, rest) == <<64>> \o cid \o rest

\* The packet with which the bind checks that socket i is selected for index i.
QuicReuseportProbePacket(i) ==
  <<224, 0, 0, 0, 1, 4, i \div 256, i % 256, 165, i % 256>>
=============================================================================

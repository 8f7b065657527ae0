------------------------- MODULE QuicSelectorProofs -------------------------
(***************************************************************************)
(* The routing rule of core/quic.rs undoes the encoding of core/cid.rs, for *)
(* every worker, every random part of a connection id of every length, and  *)
(* whatever follows it in the packet; and it always names a worker.  The    *)
(* kernel programs of platform/linux.rs compute that rule for every packet  *)
(* and every number of workers: an assertion for each instruction, which    *)
(* the instruction before it establishes.                                   *)
(***************************************************************************)
EXTENDS QuicSelector, SequenceTheorems, TLAPS

\* Membership of an interval is two comparisons.
LEMMA Interval ==
  ASSUME NEW a \in Nat, NEW b \in Nat
  PROVE  /\ \A x \in a .. b : x \in Nat /\ a <= x /\ x <= b
         /\ \A x \in Nat : a <= x /\ x <= b => x \in a .. b
OBVIOUS

\* The ranges, as facts about arithmetic.
LEMMA Ranges ==
  /\ \A w \in 0 .. MaxWorkerIndex : w \in Nat /\ w <= 65535
  /\ \A w \in Nat : w <= 65535 => w \in 0 .. MaxWorkerIndex
  /\ \A b \in Byte : b \in Nat /\ b <= 255
  /\ \A b \in Nat : b <= 255 => b \in Byte
<1>1. MaxWorkerIndex \in Nat
  BY DEF MaxWorkerIndex
<1>m. MaxWorkerIndex <= 65535 /\ 65535 <= MaxWorkerIndex
  BY DEF MaxWorkerIndex
<1>2. /\ \A w \in 0 .. MaxWorkerIndex : w \in Nat /\ 0 <= w /\ w <= MaxWorkerIndex
      /\ \A w \in Nat : 0 <= w /\ w <= MaxWorkerIndex => w \in 0 .. MaxWorkerIndex
  BY Zenon, <1>1, Interval
<1> DEFINE top == 255
<1>3. top \in Nat /\ top <= 255 /\ 255 <= top
  OBVIOUS
<1>b. Byte = 0 .. top
  BY Zenon DEF Byte
<1> HIDE DEF top
<1>4. /\ \A b \in 0 .. top : b \in Nat /\ 0 <= b /\ b <= top
      /\ \A b \in Nat : 0 <= b /\ b <= top => b \in 0 .. top
  BY <1>3, Interval
<1>5. ASSUME NEW w \in Nat PROVE w <= MaxWorkerIndex <=> w <= 65535
  BY <1>1, <1>m
<1>6. ASSUME NEW x \in Nat PROVE x <= top <=> x <= 255
  BY <1>3
<1>7. /\ \A w \in 0 .. MaxWorkerIndex : w \in Nat /\ w <= 65535
      /\ \A w \in Nat : w <= 65535 => w \in 0 .. MaxWorkerIndex
  BY <1>2, <1>5
<1>8. /\ \A b \in 0 .. top : b \in Nat /\ b <= 255
      /\ \A b \in Nat : b <= 255 => b \in 0 .. top
  BY <1>4, <1>6
<1> QED BY <1>b, <1>7, <1>8

\* The two bytes of a worker index.
LEMMA IndexBytes ==
  ASSUME NEW w \in 0 .. MaxWorkerIndex
  PROVE  /\ w \div 256 \in Byte /\ w % 256 \in Byte
         /\ (w \div 256) * 256 + (w % 256) = w
<1>1. w \in Nat /\ w <= 65535
  BY Ranges
<1>2. (w \div 256) * 256 + (w % 256) = w
  BY <1>1
<1>3. w % 256 \in 0 .. 255
  BY <1>1
<1>4. w \div 256 \in Int
  BY <1>1
<1>5. w \div 256 >= 0 /\ w \div 256 <= 255
  BY <1>1, <1>2, <1>3, <1>4
<1> QED BY <1>2, <1>3, <1>4, <1>5 DEF Byte

\* The two leading bytes of a generated connection id are the worker index.
LEMMA CidBytes ==
  ASSUME NEW w \in 0 .. MaxWorkerIndex, NEW random \in Seq(Byte), Len(random) >= 2
  PROVE  /\ GenerateCid(w, random) \in Seq(Byte)
         /\ Len(GenerateCid(w, random)) = Len(random)
         /\ GenerateCid(w, random)[1] = w \div 256
         /\ GenerateCid(w, random)[2] = w % 256
<1> DEFINE first == [random EXCEPT ![1] = w \div 256]
           cid == [first EXCEPT ![2] = w % 256]
<1>0. /\ Len(random) \in Nat /\ 1 \in 1 .. Len(random) /\ 2 \in 1 .. Len(random)
      /\ w \div 256 \in Byte /\ w % 256 \in Byte
  BY IndexBytes
<1>1. /\ first \in Seq(Byte) /\ Len(first) = Len(random)
      /\ \A j \in 1 .. Len(random) : first[j] = IF j = 1 THEN w \div 256 ELSE random[j]
  BY <1>0, ExceptSeq
<1> HIDE DEF first
<1>2. 2 \in 1 .. Len(first)
  BY Zenon, <1>0, <1>1
<1>3. /\ cid \in Seq(Byte) /\ Len(cid) = Len(first)
      /\ \A j \in 1 .. Len(first) : cid[j] = IF j = 2 THEN w % 256 ELSE first[j]
  BY <1>0, <1>1, <1>2, ExceptSeq
<1>4. GenerateCid(w, random) = cid
  BY Zenon DEF GenerateCid, first
<1> HIDE DEF cid
<1>5. cid[1] = w \div 256 /\ cid[2] = w % 256
  BY <1>0, <1>1, <1>3
<1> QED BY Zenon, <1>1, <1>3, <1>4, <1>5

\* What a prefix of two bytes says.
LEMMA PrefixOfIndex ==
  ASSUME NEW w \in 0 .. MaxWorkerIndex, NEW s \in Seq(Byte), Len(s) >= 2,
         s[1] = w \div 256, s[2] = w % 256
  PROVE  QuicWorkerIndexPrefix(s) = w
<1>1. Len(s) \in Nat
  OBVIOUS
<1>2. QuicWorkerIndexPrefix(s) = (w \div 256) * 256 + (w % 256)
  BY <1>1 DEF QuicWorkerIndexPrefix
<1> QED BY <1>2, IndexBytes

\* A key that is a worker's index selects that worker.
LEMMA KeySelects ==
  ASSUME NEW n \in Nat, NEW w \in 0 .. MaxWorkerIndex, w < n,
         NEW bytes, RouteKey(bytes) = w
  PROVE  QuicWorkerIndex(bytes, n) = w
<1>1. w \in Nat
  BY Ranges
<1>2. w % n = w
  BY <1>1
<1>3. w # NoWorker /\ n # 0
  BY <1>1 DEF NoWorker
<1> QED BY Zenon, <1>2, <1>3 DEF QuicWorkerIndex

\* The rule names a worker or none, whatever bytes a packet has.
THEOREM RuleInRange ==
  ASSUME NEW bytes \in Seq(Byte), NEW n \in Nat
  PROVE  QuicWorkerIndex(bytes, n) \in 0 .. n - 1 \cup {NoWorker}
<1>1. ASSUME NEW s \in Seq(Byte)
      PROVE  QuicWorkerIndexPrefix(s) \in Nat \cup {NoWorker}
  <2>1. CASE Len(s) < 2
    BY Zenon, <2>1 DEF QuicWorkerIndexPrefix
  <2>2. CASE ~(Len(s) < 2)
    <3>1. Len(s) \in Nat
      OBVIOUS
    <3>2. 1 \in 1 .. Len(s) /\ 2 \in 1 .. Len(s)
      BY <2>2, <3>1
    <3>3. s[1] \in Byte /\ s[2] \in Byte
      BY <3>2
    <3>4. s[1] \in Nat /\ s[2] \in Nat
      BY <3>3, Ranges
    <3>5. s[1] * 256 + s[2] \in Nat
      BY <3>4
    <3> QED BY Zenon, <2>2, <3>5 DEF QuicWorkerIndexPrefix
  <2> QED BY Zenon, <2>1, <2>2
<1>2. RouteKey(bytes) \in Nat \cup {NoWorker}
  <2>1. CASE bytes = <<>>
    BY Zenon, <2>1 DEF RouteKey
  <2>2. CASE bytes # <<>> /\ ~IsLongHeader(bytes)
    <3>1. Tail(bytes) \in Seq(Byte)
      BY <2>2
    <3>2. RouteKey(bytes) = QuicWorkerIndexPrefix(Tail(bytes))
      BY Zenon, <2>2 DEF RouteKey
    <3> QED BY Zenon, <1>1, <3>1, <3>2
  <2>3. CASE bytes # <<>> /\ IsLongHeader(bytes) /\ ~HasLongHeaderDcid(bytes)
    BY Zenon, <2>3 DEF RouteKey
  <2>4. CASE bytes # <<>> /\ IsLongHeader(bytes) /\ HasLongHeaderDcid(bytes)
    <3>1. Len(bytes) \in Nat /\ Len(bytes) >= 6 /\ 6 \in 1 .. Len(bytes)
      BY <2>4 DEF HasLongHeaderDcid
    <3>2. bytes[6] \in Nat /\ 6 + bytes[6] <= Len(bytes)
      <4>1. bytes[6] \in Byte
        BY <3>1
      <4> QED BY <2>4, <4>1, Ranges DEF HasLongHeaderDcid
    <3>3. \A i \in 7 .. 6 + bytes[6] : bytes[i] \in Byte
      <4> TAKE i \in 7 .. 6 + bytes[6]
      <4>1. i \in 1 .. Len(bytes)
        BY <3>1, <3>2
      <4> QED BY <4>1
    <3>4. SubSeq(bytes, 7, 6 + bytes[6]) \in Seq(Byte)
      <4>1. 6 + bytes[6] \in Int /\ 7 \in Int
        BY <3>2
      <4> QED BY Zenon, <3>3, <4>1, SubSeqProperties
    <3>5. RouteKey(bytes) = QuicWorkerIndexPrefix(SubSeq(bytes, 7, 6 + bytes[6]))
      BY Zenon, <2>4 DEF RouteKey, QuicLongHeaderDcid
    <3> QED BY Zenon, <1>1, <3>4, <3>5
  <2> QED BY Zenon, <2>1, <2>2, <2>3, <2>4
<1>3. CASE n = 0 \/ RouteKey(bytes) = NoWorker
  BY Zenon, <1>3 DEF QuicWorkerIndex
<1>4. CASE n # 0 /\ RouteKey(bytes) # NoWorker
  <2>1. RouteKey(bytes) \in Nat /\ n \in Nat \ {0}
    BY Zenon, <1>2, <1>4
  <2>2. RouteKey(bytes) % n \in 0 .. n - 1
    BY <2>1
  <2> QED BY Zenon, <1>4, <2>2 DEF QuicWorkerIndex
<1> QED BY Zenon, <1>3, <1>4

\* A header of h bytes, then a connection id, then anything: where the id's bytes are.
LEMMA Layout ==
  ASSUME NEW head \in Seq(Byte), NEW cid \in Seq(Byte), NEW rest \in Seq(Byte)
  PROVE  /\ head \o cid \o rest \in Seq(Byte)
         /\ Len(head \o cid \o rest) = Len(head) + Len(cid) + Len(rest)
         /\ \A i \in 1 .. Len(head) : (head \o cid \o rest)[i] = head[i]
         /\ \A i \in 1 .. Len(cid) : (head \o cid \o rest)[Len(head) + i] = cid[i]
<1> DEFINE hc == head \o cid
           p == hc \o rest
<1>0. Len(head) \in Nat /\ Len(cid) \in Nat /\ Len(rest) \in Nat
  OBVIOUS
<1>1. /\ hc \in Seq(Byte) /\ Len(hc) = Len(head) + Len(cid)
      /\ \A i \in 1 .. Len(head) + Len(cid) :
            hc[i] = IF i <= Len(head) THEN head[i] ELSE cid[i - Len(head)]
  BY Zenon, ConcatProperties
<1> HIDE DEF hc
<1>2. /\ p \in Seq(Byte) /\ Len(p) = Len(hc) + Len(rest)
      /\ \A i \in 1 .. Len(hc) + Len(rest) : p[i] = IF i <= Len(hc) THEN hc[i] ELSE rest[i - Len(hc)]
  <2>1. hc \in Seq(Byte)
    BY Zenon, <1>1
  <2>2. /\ hc \o rest \in Seq(Byte) /\ Len(hc \o rest) = Len(hc) + Len(rest)
        /\ \A i \in 1 .. Len(hc) + Len(rest) :
              (hc \o rest)[i] = IF i <= Len(hc) THEN hc[i] ELSE rest[i - Len(hc)]
    BY Zenon, <2>1, ConcatProperties
  <2> QED BY Zenon, <2>2
<1> HIDE DEF p
<1>3. ASSUME NEW i \in 1 .. Len(head) PROVE p[i] = head[i]
  <2>1. i \in 1 .. Len(head) + Len(cid) /\ i \in 1 .. Len(hc) + Len(rest) /\ i <= Len(hc)
    BY <1>0, <1>1
  <2> QED BY <1>1, <1>2, <2>1
<1>4. ASSUME NEW i \in 1 .. Len(cid) PROVE p[Len(head) + i] = cid[i]
  <2>1. /\ Len(head) + i \in 1 .. Len(head) + Len(cid) /\ Len(head) + i \in 1 .. Len(hc) + Len(rest)
        /\ Len(head) + i <= Len(hc) /\ ~(Len(head) + i <= Len(head)) /\ (Len(head) + i) - Len(head) = i
    BY <1>0, <1>1
  <2> QED BY Zenon, <1>1, <1>2, <2>1
<1> QED BY Zenon, <1>1, <1>2, <1>3, <1>4 DEF p, hc

\* Under a short header the prefix follows the first byte.
LEMMA ShortKey ==
  ASSUME NEW w \in 0 .. MaxWorkerIndex, NEW cid \in Seq(Byte), Len(cid) >= 2,
         cid[1] = w \div 256, cid[2] = w % 256, NEW rest \in Seq(Byte)
  PROVE  ShortPacket(cid, rest) \in Seq(Byte) /\ RouteKey(ShortPacket(cid, rest)) = w
<1> DEFINE p == ShortPacket(cid, rest)
<1>0. <<64>> \in Seq(Byte) /\ Len(<<64>>) = 1 /\ <<64>>[1] = 64 /\ Len(cid) \in Nat /\ Len(rest) \in Nat
  BY DEF Byte
<1>1. /\ p \in Seq(Byte) /\ Len(p) = 1 + Len(cid) + Len(rest) /\ p[1] = 64
      /\ \A i \in 1 .. Len(cid) : p[1 + i] = cid[i]
  BY SMTT(30), <1>0, Layout DEF ShortPacket
<1> HIDE DEF p
<1>2. p # <<>> /\ ~IsLongHeader(p) /\ Len(p) >= 3 /\ p[2] = cid[1] /\ p[3] = cid[2]
  <2>1. 1 \in 1 .. Len(cid) /\ 2 \in 1 .. Len(cid) /\ 1 + 1 = 2 /\ 1 + 2 = 3
    BY <1>0
  <2>2. p[2] = cid[1] /\ p[3] = cid[2]
    BY <1>1, <2>1
  <2>3. p # <<>> /\ Len(p) >= 3
    BY <1>0, <1>1
  <2> QED BY <1>1, <2>2, <2>3 DEF IsLongHeader
<1>3. Tail(p) \in Seq(Byte) /\ Len(Tail(p)) >= 2 /\ Tail(p)[1] = p[2] /\ Tail(p)[2] = p[3]
  BY <1>1, <1>2
<1>4. QuicWorkerIndexPrefix(Tail(p)) = w
  BY ZenonT(30), <1>2, <1>3, PrefixOfIndex
<1> QED BY Zenon, <1>1, <1>2, <1>4 DEF RouteKey, p

\* Under a long header it follows the length byte.
LEMMA LongKey ==
  ASSUME NEW w \in 0 .. MaxWorkerIndex, NEW cid \in Seq(Byte), Len(cid) >= 2, Len(cid) <= 255,
         cid[1] = w \div 256, cid[2] = w % 256, NEW rest \in Seq(Byte)
  PROVE  LongPacket(cid, rest) \in Seq(Byte) /\ RouteKey(LongPacket(cid, rest)) = w
<1> DEFINE n == Len(cid)
           head == <<224, 0, 0, 0, 1, n>>
           p == LongPacket(cid, rest)
<1>0. n \in Byte /\ n \in Nat /\ Len(rest) \in Nat /\ n >= 2
  BY Ranges
<1> HIDE DEF n
<1>1. head \in Seq(Byte) /\ Len(head) = 6 /\ head[1] = 224 /\ head[6] = n
  BY <1>0 DEF Byte
<1>2. p = head \o cid \o rest
  BY Zenon DEF LongPacket, n
<1> HIDE DEF head, p
<1>3. /\ p \in Seq(Byte) /\ Len(p) = 6 + n + Len(rest)
      /\ \A i \in 1 .. 6 : p[i] = head[i]
      /\ \A i \in 1 .. n : p[6 + i] = cid[i]
  <2>1. /\ p \in Seq(Byte) /\ Len(p) = Len(head) + Len(cid) + Len(rest)
        /\ \A i \in 1 .. Len(head) : p[i] = head[i]
        /\ \A i \in 1 .. Len(cid) : p[Len(head) + i] = cid[i]
    <3>1. head \in Seq(Byte)
      BY Zenon, <1>1
    <3> DEFINE q == head \o cid \o rest
    <3>2. /\ q \in Seq(Byte) /\ Len(q) = Len(head) + Len(cid) + Len(rest)
          /\ \A i \in 1 .. Len(head) : q[i] = head[i]
          /\ \A i \in 1 .. Len(cid) : q[Len(head) + i] = cid[i]
      BY SMTT(60), <3>1, Layout
    <3> HIDE DEF q
    <3>3. p = q
      BY Zenon, <1>2 DEF q
    <3> QED BY ZenonT(30), <3>2, <3>3
  <2>2. Len(head) = 6 /\ Len(cid) = n
    BY Zenon, <1>1 DEF n
  <2> QED BY <2>1, <2>2
<1>4. p[1] = 224 /\ p[6] = n
  BY <1>1, <1>3
<1>5. p # <<>> /\ IsLongHeader(p) /\ HasLongHeaderDcid(p)
  BY SMTT(30), <1>0, <1>3, <1>4 DEF IsLongHeader, HasLongHeaderDcid
<1> DEFINE d == SubSeq(p, 7, 6 + n)
<1>6. \A i \in 7 .. 6 + n : p[i] \in Byte
  <2> TAKE i \in 7 .. 6 + n
  <2>1. i \in 1 .. Len(p)
    BY SMTT(30), <1>0, <1>3
  <2> QED BY SMTT(30), <1>3, <2>1
<1>7. 7 \in Int /\ 6 + n \in Int /\ 7 <= 6 + n /\ (6 + n) - 7 + 1 = n
  BY <1>0
<1>8. /\ d \in Seq(Byte) /\ Len(d) = (6 + n) - 7 + 1
      /\ \A i \in 1 .. (6 + n) - 7 + 1 : d[i] = p[7 + i - 1]
  BY SMTT(30), <1>6, <1>7, SubSeqProperties
<1> HIDE DEF d
<1>9. d[1] = cid[1] /\ d[2] = cid[2]
  <2>1. 1 \in 1 .. n /\ 2 \in 1 .. n /\ 7 + 1 - 1 = 6 + 1 /\ 7 + 2 - 1 = 6 + 2
    BY <1>0
  <2>2. d[1] = p[6 + 1] /\ d[2] = p[6 + 2]
    BY SMTT(30), <1>7, <1>8, <2>1
  <2> QED BY Zenon, <1>3, <2>1, <2>2
<1>10. QuicWorkerIndexPrefix(d) = w
  <2>1. Len(d) >= 2
    BY Zenon, <1>0, <1>7, <1>8
  <2> QED BY ZenonT(30), <1>8, <1>9, <2>1, PrefixOfIndex
<1>11. QuicLongHeaderDcid(p) = d
  BY Zenon, <1>4 DEF QuicLongHeaderDcid, d
<1> QED BY Zenon, <1>3, <1>5, <1>10, <1>11 DEF RouteKey, p

-----------------------------------------------------------------------------
\* A packet with a connection id that worker w's QuicCidGenerator made is one of
\* bytes and is routed to w, under both headers, whatever the random bytes, the id's length, the
\* number of workers and the rest of the packet (quic_worker_index after
\* generate_into).
THEOREM DcidRoundTrip ==
  ASSUME NEW n \in Nat, NEW w \in Nat, w < n,
         NEW random \in Seq(Byte), NEW rest \in Seq(Byte), ValidGenerator(w, Len(random))
  PROVE  /\ ShortPacket(GenerateCid(w, random), rest) \in Seq(Byte)
         /\ LongPacket(GenerateCid(w, random), rest) \in Seq(Byte)
         /\ QuicWorkerIndex(ShortPacket(GenerateCid(w, random), rest), n) = w
         /\ QuicWorkerIndex(LongPacket(GenerateCid(w, random), rest), n) = w
<1> DEFINE cid == GenerateCid(w, random)
<1>1. w \in 0 .. MaxWorkerIndex /\ Len(random) >= 2 /\ Len(random) <= 255
  <2>1. w \in 0 .. MaxWorkerIndex /\ Len(random) \in MinCidLen .. MaxCidLen
    BY Zenon DEF ValidGenerator
  <2>2. MinCidLen = 8 /\ MaxCidLen = 20
    BY Zenon DEF MinCidLen, MaxCidLen
  <2>3. Len(random) \in Nat /\ MinCidLen <= Len(random) /\ Len(random) <= MaxCidLen
    BY Zenon, <2>1, <2>2, Interval
  <2> QED BY <2>1, <2>2, <2>3
<1>2. cid \in Seq(Byte) /\ Len(cid) = Len(random) /\ cid[1] = w \div 256 /\ cid[2] = w % 256
  BY <1>1, CidBytes
<1> HIDE DEF cid
<1>3. /\ ShortPacket(cid, rest) \in Seq(Byte) /\ RouteKey(ShortPacket(cid, rest)) = w
      /\ LongPacket(cid, rest) \in Seq(Byte) /\ RouteKey(LongPacket(cid, rest)) = w
  BY Zenon, <1>1, <1>2, ShortKey, LongKey
<1> QED BY Zenon, <1>1, <1>3, KeySelects DEF cid

-----------------------------------------------------------------------------
(***************************************************************************)
(* The programs.  Between two instructions an assertion at pc holds, in    *)
(* terms of the packet alone: what the comparisons so far established and  *)
(* what the registers hold.                                                *)
(***************************************************************************)
Length == Len(packet)
LongValue == packet[7] * 256 + packet[8]
ShortValue == packet[2] * 256 + packet[3]

\* quic_reuseport_ebpf, before the instruction at pc.
EbpfAt ==
  /\ pc >= 2 => reg[2] = 0
  /\ pc >= 3 => reg[3] = Length
  /\ pc \in {4, 10, 24} => reg[4] = 0
  /\ pc = 15 => reg[5] = 0
  /\ pc = 5 => reg[4] = 1
  /\ pc = 11 => reg[4] = 6
  /\ pc = 16 => reg[5] = 8
  /\ pc = 25 => reg[4] = 3
  /\ pc \in 6 .. 31 => Length >= 1
  /\ pc = 7 => reg[0] = packet[1]
  /\ pc = 8 => reg[0] = AndBit(packet[1], 128)
  /\ pc \in 9 .. 22 => packet[1] >= 128
  /\ pc \in 12 .. 22 => Length >= 6
  /\ pc = 13 => reg[4] = packet[6]
  /\ pc \in 17 .. 22 => Length >= 8
  /\ pc = 18 => reg[0] = packet[7]
  /\ pc \in {19, 20} => reg[0] = packet[7] * 256
  /\ pc = 20 => reg[4] = packet[8]
  /\ pc = 21 => reg[0] = LongValue
  /\ pc = 22 => reg[0] = LongValue % workers
  /\ pc \in 23 .. 31 => packet[1] < 128
  /\ pc \in 26 .. 31 => Length >= 3
  /\ pc = 27 => reg[0] = packet[2]
  /\ pc \in {28, 29} => reg[0] = packet[2] * 256
  /\ pc = 29 => reg[4] = packet[3]
  /\ pc = 30 => reg[0] = ShortValue
  /\ pc = 31 => reg[0] = ShortValue % workers
  /\ pc \in {32, 33} => RouteKey(packet) = NoWorker

\* quic_reuseport_cbpf, before the instruction at pc.
CbpfAt ==
  /\ pc >= 1 => Length >= 1
  /\ pc = 1 => reg[0] = packet[1]
  /\ pc \in {2, 3} => packet[1] >= 128
  /\ pc = 3 => Length >= 8 /\ reg[0] = LongValue
  /\ pc = 4 => packet[1] < 128
  /\ pc = 5 => \/ packet[1] >= 128 /\ Length >= 8 /\ reg[0] = LongValue
               \/ packet[1] < 128 /\ Length >= 3 /\ reg[0] = ShortValue
  /\ pc = 6 => \/ packet[1] >= 128 /\ Length >= 8 /\ reg[0] = LongValue % workers
               \/ packet[1] < 128 /\ Length >= 3 /\ reg[0] = ShortValue % workers

\* The kernel's choice is the rule's, wherever the rule names a worker.
Chosen == QuicWorkerIndex(packet, workers) # NoWorker =>
            selected = QuicWorkerIndex(packet, workers)

IndInv ==
  /\ TypeOK
  /\ stage = "idle" => pc = 0
  /\ stage = "kernel" => selector # "userspace"
  /\ (stage = "kernel" /\ selector = "ebpf") => EbpfAt
  /\ (stage = "kernel" /\ selector = "cbpf") => CbpfAt
  /\ stage = "check" => Chosen
  /\ SelectorsAgree
  /\ origin # NoWorker => stage # "idle" /\ QuicWorkerIndex(packet, workers) = origin

-----------------------------------------------------------------------------
\* What the rule reads of a packet, by the first byte and the length.
LEMMA KeyOf ==
  ASSUME NEW bytes \in Seq(Byte)
  PROVE  /\ Len(bytes) \in Nat
         /\ \A i \in 1 .. Len(bytes) : bytes[i] \in Nat /\ bytes[i] <= 255
         /\ Len(bytes) = 0 => RouteKey(bytes) = NoWorker
         /\ (Len(bytes) >= 1 /\ bytes[1] < 128) =>
              RouteKey(bytes) = IF Len(bytes) >= 3 THEN bytes[2] * 256 + bytes[3] ELSE NoWorker
         /\ (Len(bytes) >= 1 /\ bytes[1] >= 128) =>
              RouteKey(bytes) = IF Len(bytes) >= 6 /\ bytes[6] >= 2 /\ 6 + bytes[6] <= Len(bytes)
                                THEN bytes[7] * 256 + bytes[8] ELSE NoWorker
<1>1. Len(bytes) \in Nat /\ (bytes = <<>> <=> Len(bytes) = 0)
  BY EmptySeq
<1>2. \A i \in 1 .. Len(bytes) : bytes[i] \in Nat /\ bytes[i] <= 255
  <2> TAKE i \in 1 .. Len(bytes)
  <2>1. bytes[i] \in Byte
    OBVIOUS
  <2> QED BY <2>1, Ranges
<1>3. Len(bytes) = 0 => RouteKey(bytes) = NoWorker
  BY Zenon, <1>1 DEF RouteKey
<1>4. ASSUME Len(bytes) >= 1, bytes[1] < 128
      PROVE  RouteKey(bytes) = IF Len(bytes) >= 3 THEN bytes[2] * 256 + bytes[3] ELSE NoWorker
  <2>1. bytes # <<>> /\ ~IsLongHeader(bytes)
    <3>1. 1 \in 1 .. Len(bytes)
      BY <1>1, <1>4
    <3> QED BY <1>1, <1>2, <1>4, <3>1 DEF IsLongHeader
  <2>2. RouteKey(bytes) = QuicWorkerIndexPrefix(Tail(bytes))
    BY Zenon, <2>1 DEF RouteKey
  <2>3. Len(Tail(bytes)) = Len(bytes) - 1 /\ \A i \in 1 .. Len(bytes) - 1 : Tail(bytes)[i] = bytes[i + 1]
    BY <2>1
  <2>4. CASE Len(bytes) >= 3
    <3>1. 1 \in 1 .. Len(bytes) - 1 /\ 2 \in 1 .. Len(bytes) - 1 /\ ~(Len(bytes) - 1 < 2)
      BY <1>1, <2>4
    <3>2. Tail(bytes)[1] = bytes[2] /\ Tail(bytes)[2] = bytes[3]
      BY <2>3, <3>1
    <3> QED BY Zenon, <2>2, <2>3, <2>4, <3>1, <3>2 DEF QuicWorkerIndexPrefix
  <2>5. CASE ~(Len(bytes) >= 3)
    BY <1>1, <2>2, <2>3, <2>5 DEF QuicWorkerIndexPrefix
  <2> QED BY Zenon, <2>4, <2>5
<1>5. ASSUME Len(bytes) >= 1, bytes[1] >= 128
      PROVE  RouteKey(bytes) = IF Len(bytes) >= 6 /\ bytes[6] >= 2 /\ 6 + bytes[6] <= Len(bytes)
                               THEN bytes[7] * 256 + bytes[8] ELSE NoWorker
  <2>1. bytes # <<>> /\ IsLongHeader(bytes)
    BY <1>1, <1>5 DEF IsLongHeader
  <2>2. CASE ~HasLongHeaderDcid(bytes)
    <3>1. Len(bytes) >= 6 => bytes[6] \in Nat
      BY <1>1, <1>2
    <3>2. ~(Len(bytes) >= 6 /\ bytes[6] >= 2 /\ 6 + bytes[6] <= Len(bytes))
      BY <1>1, <2>2, <3>1 DEF HasLongHeaderDcid
    <3> QED BY <2>1, <2>2, <3>2 DEF RouteKey
  <2>3. CASE HasLongHeaderDcid(bytes)
    <3>1. Len(bytes) >= 6 /\ bytes[6] \in Nat /\ bytes[6] # 0 /\ 6 + bytes[6] <= Len(bytes)
      <4>1. Len(bytes) >= 6 /\ 6 \in 1 .. Len(bytes)
        BY <1>1, <2>3 DEF HasLongHeaderDcid
      <4> QED BY <1>2, <2>3, <4>1 DEF HasLongHeaderDcid
    <3> DEFINE n == bytes[6]
               d == SubSeq(bytes, 7, 6 + n)
    <3>2. RouteKey(bytes) = QuicWorkerIndexPrefix(d)
      BY <2>1, <2>3 DEF RouteKey, QuicLongHeaderDcid
    <3>3. \A i \in 7 .. 6 + n : bytes[i] \in Byte
      <4> TAKE i \in 7 .. 6 + n
      <4>1. i \in 1 .. Len(bytes)
        BY <1>1, <3>1
      <4> QED BY <4>1
    <3>4. 7 \in Int /\ 6 + n \in Int /\ 7 <= 6 + n /\ (6 + n) - 7 + 1 = n
      BY <3>1
    <3>5. Len(d) = n /\ \A i \in 1 .. n : d[i] = bytes[7 + i - 1]
      <4>1. /\ Len(d) = (6 + n) - 7 + 1
            /\ \A i \in 1 .. (6 + n) - 7 + 1 : d[i] = bytes[7 + i - 1]
        BY SMTT(30), <3>3, <3>4, SubSeqProperties
      <4> HIDE DEF d
      <4> QED BY <3>4, <4>1
    <3> HIDE DEF d
    <3>6. CASE n >= 2
      <4>1. 1 \in 1 .. n /\ 2 \in 1 .. n /\ ~(n < 2) /\ 7 + 1 - 1 = 7 /\ 7 + 2 - 1 = 8
        BY <3>1, <3>6
      <4>2. d[1] = bytes[7] /\ d[2] = bytes[8]
        BY <3>5, <4>1
      <4> QED BY <3>1, <3>2, <3>5, <3>6, <4>1, <4>2 DEF QuicWorkerIndexPrefix
    <3>7. CASE ~(n >= 2)
      BY <3>1, <3>2, <3>5, <3>7 DEF QuicWorkerIndexPrefix
    <3> QED BY <3>6, <3>7
  <2> QED BY <2>2, <2>3
<1> QED BY Zenon, <1>1, <1>2, <1>3, <1>4, <1>5

\* The bit that a long header sets.
LEMMA HighBit ==
  ASSUME NEW x \in Nat, x <= 255
  PROVE  AndBit(x, 128) \in Nat /\ (AndBit(x, 128) = 0 <=> x < 128)
<1>1. CASE x < 128
  <2>1. x \div 128 = 0
    BY <1>1
  <2> QED BY <1>1, <2>1 DEF AndBit
<1>2. CASE x >= 128
  <2>1. x \div 128 = 1
    BY <1>2
  <2> QED BY <1>2, <2>1 DEF AndBit
<1> QED BY <1>1, <1>2

\* Shifting by a byte, as the model writes it.
LEMMA ByteShift == 2^8 = 256
BY SMTT(30)

\* The packet bytes that the eBPF program loads, relative to register 2.
LEMMA EbpfLoads ==
  /\ Ebpf[7].src = 2 /\ Ebpf[7].off = 0
  /\ Ebpf[13].src = 2 /\ Ebpf[13].off = 5
  /\ Ebpf[18].src = 2 /\ Ebpf[18].off = 6
  /\ Ebpf[20].src = 2 /\ Ebpf[20].off = 7
  /\ Ebpf[27].src = 2 /\ Ebpf[27].off = 1
  /\ Ebpf[29].src = 2 /\ Ebpf[29].off = 2
BY SMTT(30) DEF Ebpf, Ins

\* quic_reuseport_ebpf, instruction by instruction.
LEMMA EbpfSteps ==
  ASSUME Execute, selector = "ebpf"
  PROVE  /\ pc = 0 => Set(6, reg[1])
         /\ pc = 1 => Set(2, 0)
         /\ pc = 2 => Set(3, Length)
         /\ pc = 3 => Set(4, reg[2])
         /\ pc = 4 => Set(4, reg[4] + 1)
         /\ pc = 5 => Jump(reg[4] > reg[3], 26)
         /\ pc = 6 => Set(0, packet[reg[2] + 0 + 1])
         /\ pc = 7 => Set(0, AndBit(reg[0], 128))
         /\ pc = 8 => Jump(reg[0] = 0, 14)
         /\ pc = 9 => Set(4, reg[2])
         /\ pc = 10 => Set(4, reg[4] + 6)
         /\ pc = 11 => Jump(reg[4] > reg[3], 20)
         /\ pc = 12 => Set(4, packet[reg[2] + 5 + 1])
         /\ pc = 13 => Jump(reg[4] < 2, 18)
         /\ pc = 14 => Set(5, reg[2])
         /\ pc = 15 => Set(5, reg[5] + 8)
         /\ pc = 16 => Jump(reg[5] > reg[3], 15)
         /\ pc = 17 => Set(0, packet[reg[2] + 6 + 1])
         /\ pc = 18 => Set(0, reg[0] * 256)
         /\ pc = 19 => Set(4, packet[reg[2] + 7 + 1])
         /\ pc = 20 => Set(0, reg[0] + reg[4])
         /\ pc = 21 => Set(0, reg[0] % workers)
         /\ pc = 22 => Return(reg[0])
         /\ pc = 23 => Set(4, reg[2])
         /\ pc = 24 => Set(4, reg[4] + 3)
         /\ pc = 25 => Jump(reg[4] > reg[3], 6)
         /\ pc = 26 => Set(0, packet[reg[2] + 1 + 1])
         /\ pc = 27 => Set(0, reg[0] * 256)
         /\ pc = 28 => Set(4, packet[reg[2] + 2 + 1])
         /\ pc = 29 => Set(0, reg[0] + reg[4])
         /\ pc = 30 => Set(0, reg[0] % workers)
         /\ pc = 31 => Return(reg[0])
         /\ pc = 32 => Set(0, 0)
         /\ pc = 33 => Return(reg[0])
<1>0. Program = Ebpf /\ selector # "userspace"
  BY DEF Program
<1>1. ASSUME pc = 0 PROVE Set(6, reg[1])
  <2>1. Program[pc + 1] = Ins("movx", 6, 1, 0, 0)
    BY <1>0, <1>1 DEF Ebpf
  <2> QED BY <2>1 DEF Execute, Ins
<1>2. ASSUME pc = 1 PROVE Set(2, 0)
  <2>1. Program[pc + 1] = Ins("ldctx", 2, 6, 0, 0)
    BY <1>0, <1>2 DEF Ebpf
  <2> QED BY <2>1 DEF Execute, Ins
<1>3. ASSUME pc = 2 PROVE Set(3, Length)
  <2>1. Program[pc + 1] = Ins("ldctx", 3, 6, 8, 0)
    BY <1>0, <1>3 DEF Ebpf
  <2> QED BY <2>1 DEF Execute, Ins, Length
<1>4. ASSUME pc = 3 PROVE Set(4, reg[2])
  <2>1. Program[pc + 1] = Ins("movx", 4, 2, 0, 0)
    BY <1>0, <1>4 DEF Ebpf
  <2> QED BY <2>1 DEF Execute, Ins
<1>5. ASSUME pc = 4 PROVE Set(4, reg[4] + 1)
  <2>1. Program[pc + 1] = Ins("addk", 4, 0, 0, 1)
    BY <1>0, <1>5 DEF Ebpf
  <2> QED BY <2>1 DEF Execute, Ins
<1>6. ASSUME pc = 5 PROVE Jump(reg[4] > reg[3], 26)
  <2>1. Program[pc + 1] = Ins("jgtx", 4, 3, 26, 0)
    BY <1>0, <1>6 DEF Ebpf
  <2> QED BY <2>1 DEF Execute, Ins
<1>7. ASSUME pc = 6 PROVE Set(0, packet[reg[2] + 0 + 1])
  <2>1. Program[pc + 1] = Ins("ldxb", 0, 2, 0, 0)
    BY <1>0, <1>7 DEF Ebpf
  <2> QED BY <2>1 DEF Execute, Ins
<1>8. ASSUME pc = 7 PROVE Set(0, AndBit(reg[0], 128))
  <2>1. Program[pc + 1] = Ins("andk", 0, 0, 0, 128)
    BY <1>0, <1>8 DEF Ebpf
  <2> QED BY <2>1 DEF Execute, Ins
<1>9. ASSUME pc = 8 PROVE Jump(reg[0] = 0, 14)
  <2>1. Program[pc + 1] = Ins("jeqk", 0, 0, 14, 0)
    BY <1>0, <1>9 DEF Ebpf
  <2> QED BY <2>1 DEF Execute, Ins
<1>10. ASSUME pc = 9 PROVE Set(4, reg[2])
  <2>1. Program[pc + 1] = Ins("movx", 4, 2, 0, 0)
    BY <1>0, <1>10 DEF Ebpf
  <2> QED BY <2>1 DEF Execute, Ins
<1>11. ASSUME pc = 10 PROVE Set(4, reg[4] + 6)
  <2>1. Program[pc + 1] = Ins("addk", 4, 0, 0, 6)
    BY <1>0, <1>11 DEF Ebpf
  <2> QED BY <2>1 DEF Execute, Ins
<1>12. ASSUME pc = 11 PROVE Jump(reg[4] > reg[3], 20)
  <2>1. Program[pc + 1] = Ins("jgtx", 4, 3, 20, 0)
    BY <1>0, <1>12 DEF Ebpf
  <2> QED BY <2>1 DEF Execute, Ins
<1>13. ASSUME pc = 12 PROVE Set(4, packet[reg[2] + 5 + 1])
  <2>1. Program[pc + 1] = Ins("ldxb", 4, 2, 5, 0)
    BY <1>0, <1>13 DEF Ebpf
  <2> QED BY <2>1 DEF Execute, Ins
<1>14. ASSUME pc = 13 PROVE Jump(reg[4] < 2, 18)
  <2>1. Program[pc + 1] = Ins("jltk", 4, 0, 18, 2)
    BY <1>0, <1>14 DEF Ebpf
  <2> QED BY <2>1 DEF Execute, Ins
<1>15. ASSUME pc = 14 PROVE Set(5, reg[2])
  <2>1. Program[pc + 1] = Ins("movx", 5, 2, 0, 0)
    BY <1>0, <1>15 DEF Ebpf
  <2> QED BY <2>1 DEF Execute, Ins
<1>16. ASSUME pc = 15 PROVE Set(5, reg[5] + 8)
  <2>1. Program[pc + 1] = Ins("addk", 5, 0, 0, 8)
    BY <1>0, <1>16 DEF Ebpf
  <2> QED BY <2>1 DEF Execute, Ins
<1>17. ASSUME pc = 16 PROVE Jump(reg[5] > reg[3], 15)
  <2>1. Program[pc + 1] = Ins("jgtx", 5, 3, 15, 0)
    BY <1>0, <1>17 DEF Ebpf
  <2> QED BY <2>1 DEF Execute, Ins
<1>18. ASSUME pc = 17 PROVE Set(0, packet[reg[2] + 6 + 1])
  <2>1. Program[pc + 1] = Ins("ldxb", 0, 2, 6, 0)
    BY <1>0, <1>18 DEF Ebpf
  <2> QED BY <2>1 DEF Execute, Ins
<1>19. ASSUME pc = 18 PROVE Set(0, reg[0] * 256)
  <2>1. Program[pc + 1] = Ins("lshk", 0, 0, 0, 8)
    BY <1>0, <1>19 DEF Ebpf
  <2> QED BY <2>1, ByteShift DEF Execute, Ins
<1>20. ASSUME pc = 19 PROVE Set(4, packet[reg[2] + 7 + 1])
  <2>1. Program[pc + 1] = Ins("ldxb", 4, 2, 7, 0)
    BY <1>0, <1>20 DEF Ebpf
  <2> QED BY <2>1 DEF Execute, Ins
<1>21. ASSUME pc = 20 PROVE Set(0, reg[0] + reg[4])
  <2>1. Program[pc + 1] = Ins("orx", 0, 4, 0, 0)
    BY <1>0, <1>21 DEF Ebpf
  <2> QED BY <2>1 DEF Execute, Ins, OrDisjoint
<1>22. ASSUME pc = 21 PROVE Set(0, reg[0] % workers)
  <2>1. Program[pc + 1] = Ins("modw", 0, 0, 0, 0)
    BY <1>0, <1>22 DEF Ebpf
  <2> QED BY <2>1 DEF Execute, Ins
<1>23. ASSUME pc = 22 PROVE Return(reg[0])
  <2>1. Program[pc + 1] = Ins("exit", 0, 0, 0, 0)
    BY <1>0, <1>23 DEF Ebpf
  <2> QED BY <2>1 DEF Execute, Ins
<1>24. ASSUME pc = 23 PROVE Set(4, reg[2])
  <2>1. Program[pc + 1] = Ins("movx", 4, 2, 0, 0)
    BY <1>0, <1>24 DEF Ebpf
  <2> QED BY <2>1 DEF Execute, Ins
<1>25. ASSUME pc = 24 PROVE Set(4, reg[4] + 3)
  <2>1. Program[pc + 1] = Ins("addk", 4, 0, 0, 3)
    BY <1>0, <1>25 DEF Ebpf
  <2> QED BY <2>1 DEF Execute, Ins
<1>26. ASSUME pc = 25 PROVE Jump(reg[4] > reg[3], 6)
  <2>1. Program[pc + 1] = Ins("jgtx", 4, 3, 6, 0)
    BY <1>0, <1>26 DEF Ebpf
  <2> QED BY <2>1 DEF Execute, Ins
<1>27. ASSUME pc = 26 PROVE Set(0, packet[reg[2] + 1 + 1])
  <2>1. Program[pc + 1] = Ins("ldxb", 0, 2, 1, 0)
    BY <1>0, <1>27 DEF Ebpf
  <2> QED BY <2>1 DEF Execute, Ins
<1>28. ASSUME pc = 27 PROVE Set(0, reg[0] * 256)
  <2>1. Program[pc + 1] = Ins("lshk", 0, 0, 0, 8)
    BY <1>0, <1>28 DEF Ebpf
  <2> QED BY <2>1, ByteShift DEF Execute, Ins
<1>29. ASSUME pc = 28 PROVE Set(4, packet[reg[2] + 2 + 1])
  <2>1. Program[pc + 1] = Ins("ldxb", 4, 2, 2, 0)
    BY <1>0, <1>29 DEF Ebpf
  <2> QED BY <2>1 DEF Execute, Ins
<1>30. ASSUME pc = 29 PROVE Set(0, reg[0] + reg[4])
  <2>1. Program[pc + 1] = Ins("orx", 0, 4, 0, 0)
    BY <1>0, <1>30 DEF Ebpf
  <2> QED BY <2>1 DEF Execute, Ins, OrDisjoint
<1>31. ASSUME pc = 30 PROVE Set(0, reg[0] % workers)
  <2>1. Program[pc + 1] = Ins("modw", 0, 0, 0, 0)
    BY <1>0, <1>31 DEF Ebpf
  <2> QED BY <2>1 DEF Execute, Ins
<1>32. ASSUME pc = 31 PROVE Return(reg[0])
  <2>1. Program[pc + 1] = Ins("exit", 0, 0, 0, 0)
    BY <1>0, <1>32 DEF Ebpf
  <2> QED BY <2>1 DEF Execute, Ins
<1>33. ASSUME pc = 32 PROVE Set(0, 0)
  <2>1. Program[pc + 1] = Ins("movk", 0, 0, 0, 0)
    BY <1>0, <1>33 DEF Ebpf
  <2> QED BY <2>1 DEF Execute, Ins
<1>34. ASSUME pc = 33 PROVE Return(reg[0])
  <2>1. Program[pc + 1] = Ins("exit", 0, 0, 0, 0)
    BY <1>0, <1>34 DEF Ebpf
  <2> QED BY <2>1 DEF Execute, Ins
<1> QED BY SMTT(30), <1>1, <1>2, <1>3, <1>4, <1>5, <1>6, <1>7, <1>8,
           <1>9, <1>10, <1>11, <1>12, <1>13, <1>14, <1>15, <1>16,
           <1>17, <1>18, <1>19, <1>20, <1>21, <1>22, <1>23, <1>24,
           <1>25, <1>26, <1>27, <1>28, <1>29, <1>30, <1>31, <1>32,
           <1>33, <1>34

\* quic_reuseport_cbpf, instruction by instruction.
LEMMA CbpfSteps ==
  ASSUME Execute, selector = "cbpf"
  PROVE  /\ pc = 0 => (IF 1 <= Length THEN Set(0, packet[1]) ELSE Return(0))
         /\ pc = 1 => Jump(AndBit(reg[0], 128) = 0, 2)
         /\ pc = 2 => (IF 8 <= Length THEN Set(0, packet[7] * 256 + packet[8]) ELSE Return(0))
         /\ pc = 3 => Jump(TRUE, 1)
         /\ pc = 4 => (IF 3 <= Length THEN Set(0, packet[2] * 256 + packet[3]) ELSE Return(0))
         /\ pc = 5 => Set(0, reg[0] % workers)
         /\ pc = 6 => Return(reg[0])
<1>0. Program = Cbpf /\ selector # "userspace"
  BY Zenon DEF Program
<1>1. ASSUME pc = 0 PROVE (IF 1 <= Length THEN Set(0, packet[1]) ELSE Return(0))
  <2>1. Program[pc + 1] = Ins("ldb", 0, 0, 0, 0)
    BY <1>0, <1>1 DEF Cbpf
  <2> QED BY <2>1 DEF Execute, Ins, Length
<1>2. ASSUME pc = 1 PROVE Jump(AndBit(reg[0], 128) = 0, 2)
  <2>1. Program[pc + 1] = Ins("jset", 0, 2, 0, 128)
    BY <1>0, <1>2 DEF Cbpf
  <2> QED BY <2>1 DEF Execute, Ins
<1>3. ASSUME pc = 2 PROVE (IF 8 <= Length THEN Set(0, packet[7] * 256 + packet[8]) ELSE Return(0))
  <2>1. Program[pc + 1] = Ins("ldh", 0, 0, 0, 6)
    BY <1>0, <1>3 DEF Cbpf
  <2> QED BY <2>1 DEF Execute, Ins, Length
<1>4. ASSUME pc = 3 PROVE Jump(TRUE, 1)
  <2>1. Program[pc + 1] = Ins("ja", 0, 0, 1, 0)
    BY <1>0, <1>4 DEF Cbpf
  <2> QED BY <2>1 DEF Execute, Ins, Jump
<1>5. ASSUME pc = 4 PROVE (IF 3 <= Length THEN Set(0, packet[2] * 256 + packet[3]) ELSE Return(0))
  <2>1. Program[pc + 1] = Ins("ldh", 0, 0, 0, 1)
    BY <1>0, <1>5 DEF Cbpf
  <2> QED BY <2>1 DEF Execute, Ins, Length
<1>6. ASSUME pc = 5 PROVE Set(0, reg[0] % workers)
  <2>1. Program[pc + 1] = Ins("modw", 0, 0, 0, 0)
    BY <1>0, <1>6 DEF Cbpf
  <2> QED BY <2>1 DEF Execute, Ins
<1>7. ASSUME pc = 6 PROVE Return(reg[0])
  <2>1. Program[pc + 1] = Ins("exit", 0, 0, 0, 0)
    BY <1>0, <1>7 DEF Cbpf
  <2> QED BY <2>1 DEF Execute, Ins
<1> QED BY Zenon, <1>1, <1>2, <1>3, <1>4, <1>5, <1>6, <1>7

\* A register write, register by register.
Writes(i, v) == /\ reg' \in [0 .. 6 -> Nat] /\ pc' = pc + 1
                /\ stage' = stage /\ selected' = selected
                /\ reg'[0] = IF i = 0 THEN v ELSE reg[0]
                /\ reg'[2] = IF i = 2 THEN v ELSE reg[2]
                /\ reg'[3] = IF i = 3 THEN v ELSE reg[3]
                /\ reg'[4] = IF i = 4 THEN v ELSE reg[4]
                /\ reg'[5] = IF i = 5 THEN v ELSE reg[5]

\* A remainder is a natural number.
LEMMA RemainderNat ==
  ASSUME NEW x \in Nat, NEW n \in Nat \ {0}
  PROVE  x % n \in Nat
<1>1. x % n \in 0 .. n - 1
  OBVIOUS
<1> QED BY <1>1

\* An instruction that sets a register writes it.
LEMMA SetWrites ==
  ASSUME reg \in [0 .. 6 -> Nat], NEW i \in 0 .. 6, NEW v \in Nat, Set(i, v)
  PROVE  Writes(i, v)
BY DEF Set, Writes

\* A step of the program: on to another instruction, or out of it with a socket.
Continues(at, last) == /\ stage' = "kernel" /\ pc' \in 0 .. last /\ reg' \in [0 .. 6 -> Nat]
                       /\ selected' = selected /\ at
Ends == stage' = "check" /\ UNCHANGED <<pc, reg>> /\ selected' \in Nat /\ Chosen'

\* What the proofs below need to know of the packet.
KeyByHeader ==
  /\ Length = 0 => RouteKey(packet) = NoWorker
  /\ (Length >= 1 /\ packet[1] < 128) =>
       RouteKey(packet) = IF Length >= 3 THEN ShortValue ELSE NoWorker
  /\ (Length >= 1 /\ packet[1] >= 128) =>
       RouteKey(packet) = IF Length >= 6 /\ packet[6] >= 2 /\ 6 + packet[6] <= Length
                          THEN LongValue ELSE NoWorker

LoadsAreNat ==
  /\ Length >= 1 => /\ packet[1] \in Nat
                    /\ AndBit(packet[1], 128) \in Nat
                    /\ AndBit(packet[1], 128) = 0 <=> packet[1] < 128
  /\ Length >= 3 => /\ packet[2] \in Nat /\ packet[2] * 256 \in Nat /\ packet[3] \in Nat
                    /\ ShortValue \in Nat /\ ShortValue % workers \in Nat
  /\ Length >= 6 => packet[6] \in Nat
  /\ Length >= 8 => /\ packet[7] \in Nat /\ packet[7] * 256 \in Nat /\ packet[8] \in Nat
                    /\ LongValue \in Nat /\ LongValue % workers \in Nat

\* They hold of every packet of bytes.
LEMMA PacketFacts ==
  ASSUME packet \in Seq(Byte), workers \in Nat \ {0}, packet' = packet
  PROVE  /\ Length \in Nat /\ Length' = Length /\ LongValue' = LongValue /\ ShortValue' = ShortValue
         /\ KeyByHeader /\ LoadsAreNat
<1>1. Length \in Nat /\ Length' = Length /\ LongValue' = LongValue /\ ShortValue' = ShortValue
  BY Zenon, KeyOf DEF Length, LongValue, ShortValue
<1>2. KeyByHeader
  BY Zenon, KeyOf DEF KeyByHeader, Length, ShortValue, LongValue
<1>3. /\ Length >= 1 => packet[1] \in Nat /\ packet[1] <= 255
      /\ Length >= 3 => packet[2] \in Nat /\ packet[3] \in Nat
      /\ Length >= 6 => packet[6] \in Nat
      /\ Length >= 8 => packet[7] \in Nat /\ packet[8] \in Nat
  <2>1. \A i \in 1 .. Length : packet[i] \in Nat /\ packet[i] <= 255
    BY Zenon, KeyOf DEF Length
  <2> QED BY <1>1, <2>1
<1>4. \A x, y \in Nat : x * 256 \in Nat /\ x * 256 + y \in Nat
  OBVIOUS
<1>5. /\ Length >= 3 => packet[2] * 256 \in Nat /\ ShortValue \in Nat
      /\ Length >= 8 => packet[7] * 256 \in Nat /\ LongValue \in Nat
  BY ZenonT(30), <1>3, <1>4 DEF ShortValue, LongValue
<1>6. /\ Length >= 3 => ShortValue % workers \in Nat
      /\ Length >= 8 => LongValue % workers \in Nat
  BY Zenon, <1>5, RemainderNat
<1>7. Length >= 1 => /\ AndBit(packet[1], 128) \in Nat
                     /\ AndBit(packet[1], 128) = 0 <=> packet[1] < 128
  BY Zenon, <1>3, HighBit
<1> QED BY Zenon, <1>1, <1>2, <1>3, <1>5, <1>6, <1>7 DEF LoadsAreNat

\* Each instruction of quic_reuseport_ebpf keeps the assertion, and the
\* program ends with the worker that the rule names.
LEMMA EbpfKeeps ==
  ASSUME IndInv, Execute, selector = "ebpf"
  PROVE  Continues(EbpfAt', 33) \/ Ends
<1>a. /\ EbpfAt /\ stage = "kernel" /\ pc \in 0 .. 33
      /\ reg \in [0 .. 6 -> Nat] /\ workers \in Nat \ {0} /\ packet \in Seq(Byte)
      /\ UNCHANGED <<selector, workers, packet, origin, delivered>>
  <2>1. Program = Ebpf /\ Len(Ebpf) = 34
    BY Zenon DEF Program, Ebpf
  <2>2. stage = "kernel" /\ UNCHANGED <<selector, workers, packet, origin, delivered>>
    BY Zenon DEF Execute
  <2> QED BY <2>1, <2>2, SelectorAssumption DEF IndInv, TypeOK
<1>b. /\ Length \in Nat /\ Length' = Length /\ LongValue' = LongValue /\ ShortValue' = ShortValue
      /\ KeyByHeader /\ LoadsAreNat
  BY Zenon, <1>a, PacketFacts
<1>0. CASE pc = 0
  <2>1. Set(6, reg[1])
    BY Zenon, <1>0, EbpfSteps
  <2>3. reg[1] \in Nat
    BY <1>a
  <2>5. Writes(6, reg[1])
    BY <1>a, <2>1, <2>3, SetWrites
  <2> QED BY <1>a, <1>b, <1>0, <2>5 DEF Continues, Writes, EbpfAt
<1>1. CASE pc = 1
  <2>1. Set(2, 0)
    BY Zenon, <1>1, EbpfSteps
  <2>3. 0 \in Nat
    BY Zenon
  <2>5. Writes(2, 0)
    BY SMTT(30), <1>a, <2>1, <2>3, SetWrites
  <2> QED BY <1>a, <1>b, <1>1, <2>5 DEF Continues, Writes, EbpfAt
<1>2. CASE pc = 2
  <2>1. Set(3, Length)
    BY Zenon, <1>2, EbpfSteps
  <2>3. Length \in Nat
    BY Zenon, <1>b
  <2>5. Writes(3, Length)
    BY <1>a, <2>1, <2>3, SetWrites
  <2> QED BY <1>a, <1>b, <1>2, <2>5 DEF Continues, Writes, EbpfAt
<1>3. CASE pc = 3
  <2>1. Set(4, reg[2])
    BY Zenon, <1>3, EbpfSteps
  <2>2. reg[2] = 0
    BY <1>a, <1>3 DEF EbpfAt
  <2>3. 0 \in Nat
    BY Zenon
  <2>4. Set(4, 0)
    BY Zenon, <2>1, <2>2
  <2>5. Writes(4, 0)
    BY <1>a, <2>3, <2>4, SetWrites
  <2> QED BY <1>a, <1>b, <1>3, <2>5 DEF Continues, Writes, EbpfAt
<1>4. CASE pc = 4
  <2>1. Set(4, reg[4] + 1)
    BY Zenon, <1>4, EbpfSteps
  <2>2. reg[4] + 1 = 1
    BY <1>a, <1>4 DEF EbpfAt
  <2>3. 1 \in Nat
    BY Zenon
  <2>4. Set(4, 1)
    BY Zenon, <2>1, <2>2
  <2>5. Writes(4, 1)
    BY <1>a, <2>3, <2>4, SetWrites
  <2> QED BY <1>a, <1>b, <1>4, <2>5 DEF Continues, Writes, EbpfAt
<1>5. CASE pc = 5
  <2>1. Jump(reg[4] > reg[3], 26)
    BY Zenon, <1>5, EbpfSteps
  <2>2. pc' = (IF Length < 1 THEN 32 ELSE 6) /\ UNCHANGED <<stage, reg, selected>>
    BY <1>a, <1>b, <1>5, <2>1 DEF Jump, EbpfAt, LoadsAreNat
  <2>3. Length < 1 => RouteKey(packet) = NoWorker
    <3>1. Length >= 0
      BY <1>a, <1>b, <1>5 DEF EbpfAt
    <3> QED BY <1>b, <3>1 DEF KeyByHeader
  <2> QED BY <1>a, <1>b, <1>5, <2>2, <2>3 DEF Continues, EbpfAt, LoadsAreNat
<1>6. CASE pc = 6
  <2>1. Set(0, packet[reg[2] + 0 + 1])
    BY Zenon, <1>6, EbpfSteps
  <2>2. packet[reg[2] + 0 + 1] = packet[1]
    <3>1. reg[2] = 0
      BY <1>a, <1>6 DEF EbpfAt
    <3> QED BY <3>1
  <2>3. packet[1] \in Nat
    BY <1>a, <1>b, <1>6 DEF EbpfAt, LoadsAreNat
  <2>4. Set(0, packet[1])
    BY Zenon, <2>1, <2>2
  <2>5. Writes(0, packet[1])
    BY SMTT(30), <1>a, <2>3, <2>4, SetWrites
  <2> QED BY <1>a, <1>b, <1>6, <2>5 DEF Continues, Writes, EbpfAt
<1>7. CASE pc = 7
  <2>1. Set(0, AndBit(reg[0], 128))
    BY Zenon, <1>7, EbpfSteps
  <2>2. AndBit(reg[0], 128) = AndBit(packet[1], 128)
    BY Zenon, <1>a, <1>7 DEF EbpfAt
  <2>3. AndBit(packet[1], 128) \in Nat
    BY <1>a, <1>b, <1>7 DEF EbpfAt, LoadsAreNat
  <2>4. Set(0, AndBit(packet[1], 128))
    BY Zenon, <2>1, <2>2
  <2>5. Writes(0, AndBit(packet[1], 128))
    BY SMTT(30), <1>a, <2>3, <2>4, SetWrites
  <2> QED BY <1>a, <1>b, <1>7, <2>5 DEF Continues, Writes, EbpfAt
<1>8. CASE pc = 8
  <2>1. Jump(reg[0] = 0, 14)
    BY Zenon, <1>8, EbpfSteps
  <2>2. pc' = (IF packet[1] < 128 THEN 23 ELSE 9) /\ UNCHANGED <<stage, reg, selected>>
    BY <1>a, <1>b, <1>8, <2>1 DEF Jump, EbpfAt, LoadsAreNat
  <2> QED BY SMTT(30), <1>a, <1>b, <1>8, <2>2 DEF Continues, EbpfAt, LoadsAreNat
<1>9. CASE pc = 9
  <2>1. Set(4, reg[2])
    BY Zenon, <1>9, EbpfSteps
  <2>2. reg[2] = 0
    BY SMTT(30), <1>a, <1>9 DEF EbpfAt
  <2>3. 0 \in Nat
    BY Zenon
  <2>4. Set(4, 0)
    BY Zenon, <2>1, <2>2
  <2>5. Writes(4, 0)
    BY <1>a, <2>3, <2>4, SetWrites
  <2> QED BY <1>a, <1>b, <1>9, <2>5 DEF Continues, Writes, EbpfAt
<1>10. CASE pc = 10
  <2>1. Set(4, reg[4] + 6)
    BY Zenon, <1>10, EbpfSteps
  <2>2. reg[4] + 6 = 6
    BY <1>a, <1>10 DEF EbpfAt
  <2>3. 6 \in Nat
    BY Zenon
  <2>4. Set(4, 6)
    BY Zenon, <2>1, <2>2
  <2>5. Writes(4, 6)
    BY SMTT(30), <1>a, <2>3, <2>4, SetWrites
  <2> QED BY <1>a, <1>b, <1>10, <2>5 DEF Continues, Writes, EbpfAt
<1>11. CASE pc = 11
  <2>1. Jump(reg[4] > reg[3], 20)
    BY Zenon, <1>11, EbpfSteps
  <2>2. pc' = (IF Length < 6 THEN 32 ELSE 12) /\ UNCHANGED <<stage, reg, selected>>
    BY <1>a, <1>b, <1>11, <2>1 DEF Jump, EbpfAt, LoadsAreNat
  <2>3. Length < 6 => RouteKey(packet) = NoWorker
    <3>1. packet[1] >= 128 /\ Length >= 1
      BY SMTT(30), <1>a, <1>b, <1>11 DEF EbpfAt
    <3> QED BY <1>b, <3>1 DEF KeyByHeader, LoadsAreNat
  <2> QED BY <1>a, <1>b, <1>11, <2>2, <2>3 DEF Continues, EbpfAt, LoadsAreNat
<1>12. CASE pc = 12
  <2>1. Set(4, packet[reg[2] + 5 + 1])
    BY Zenon, <1>12, EbpfSteps
  <2>2. packet[reg[2] + 5 + 1] = packet[6]
    <3>1. reg[2] = 0
      BY <1>a, <1>12 DEF EbpfAt
    <3> QED BY <3>1
  <2>3. packet[6] \in Nat
    BY <1>a, <1>b, <1>12 DEF EbpfAt, LoadsAreNat
  <2>4. Set(4, packet[6])
    BY Zenon, <2>1, <2>2
  <2>5. Writes(4, packet[6])
    BY SMTT(30), <1>a, <2>3, <2>4, SetWrites
  <2> QED BY <1>a, <1>b, <1>12, <2>5 DEF Continues, Writes, EbpfAt
<1>13. CASE pc = 13
  <2>1. Jump(reg[4] < 2, 18)
    BY Zenon, <1>13, EbpfSteps
  <2>2. pc' = (IF packet[6] < 2 THEN 32 ELSE 14) /\ UNCHANGED <<stage, reg, selected>>
    BY SMTT(30), <1>a, <1>b, <1>13, <2>1 DEF Jump, EbpfAt, LoadsAreNat
  <2>3. packet[6] < 2 => RouteKey(packet) = NoWorker
    <3>1. packet[1] >= 128 /\ Length >= 6
      BY <1>a, <1>b, <1>13 DEF EbpfAt
    <3> QED BY <1>b, <3>1 DEF KeyByHeader, LoadsAreNat
  <2> QED BY <1>a, <1>b, <1>13, <2>2, <2>3 DEF Continues, EbpfAt, LoadsAreNat
<1>14. CASE pc = 14
  <2>1. Set(5, reg[2])
    BY Zenon, <1>14, EbpfSteps
  <2>2. reg[2] = 0
    BY <1>a, <1>14 DEF EbpfAt
  <2>3. 0 \in Nat
    BY Zenon
  <2>4. Set(5, 0)
    BY Zenon, <2>1, <2>2
  <2>5. Writes(5, 0)
    BY <1>a, <2>3, <2>4, SetWrites
  <2> QED BY <1>a, <1>b, <1>14, <2>5 DEF Continues, Writes, EbpfAt
<1>15. CASE pc = 15
  <2>1. Set(5, reg[5] + 8)
    BY Zenon, <1>15, EbpfSteps
  <2>2. reg[5] + 8 = 8
    BY <1>a, <1>15 DEF EbpfAt
  <2>3. 8 \in Nat
    BY Zenon
  <2>4. Set(5, 8)
    BY Zenon, <2>1, <2>2
  <2>5. Writes(5, 8)
    BY <1>a, <2>3, <2>4, SetWrites
  <2> QED BY <1>a, <1>b, <1>15, <2>5 DEF Continues, Writes, EbpfAt
<1>16. CASE pc = 16
  <2>1. Jump(reg[5] > reg[3], 15)
    BY Zenon, <1>16, EbpfSteps
  <2>2. pc' = (IF Length < 8 THEN 32 ELSE 17) /\ UNCHANGED <<stage, reg, selected>>
    BY SMTT(30), <1>a, <1>b, <1>16, <2>1 DEF Jump, EbpfAt, LoadsAreNat
  <2>3. Length < 8 => RouteKey(packet) = NoWorker
    <3>1. packet[1] >= 128 /\ Length >= 6
      BY <1>a, <1>b, <1>16 DEF EbpfAt
    <3> QED BY <1>b, <3>1 DEF KeyByHeader, LoadsAreNat
  <2> QED BY <1>a, <1>b, <1>16, <2>2, <2>3 DEF Continues, EbpfAt, LoadsAreNat
<1>17. CASE pc = 17
  <2>1. Set(0, packet[reg[2] + 6 + 1])
    BY Zenon, <1>17, EbpfSteps
  <2>2. packet[reg[2] + 6 + 1] = packet[7]
    <3>1. reg[2] = 0
      BY <1>a, <1>17 DEF EbpfAt
    <3> QED BY <3>1
  <2>3. packet[7] \in Nat
    BY <1>a, <1>b, <1>17 DEF EbpfAt, LoadsAreNat
  <2>4. Set(0, packet[7])
    BY Zenon, <2>1, <2>2
  <2>5. Writes(0, packet[7])
    BY SMTT(30), <1>a, <2>3, <2>4, SetWrites
  <2> QED BY <1>a, <1>b, <1>17, <2>5 DEF Continues, Writes, EbpfAt
<1>18. CASE pc = 18
  <2>1. Set(0, reg[0] * 256)
    BY Zenon, <1>18, EbpfSteps
  <2>2. reg[0] * 256 = packet[7] * 256
    BY Zenon, <1>a, <1>18 DEF EbpfAt
  <2>3. packet[7] * 256 \in Nat
    BY <1>a, <1>b, <1>18 DEF EbpfAt, LoadsAreNat
  <2>4. Set(0, packet[7] * 256)
    BY Zenon, <2>1, <2>2
  <2>5. Writes(0, packet[7] * 256)
    BY SMTT(30), <1>a, <2>3, <2>4, SetWrites
  <2> QED BY <1>a, <1>b, <1>18, <2>5 DEF Continues, Writes, EbpfAt
<1>19. CASE pc = 19
  <2>1. Set(4, packet[reg[2] + 7 + 1])
    BY Zenon, <1>19, EbpfSteps
  <2>2. packet[reg[2] + 7 + 1] = packet[8]
    <3>1. reg[2] = 0
      BY <1>a, <1>19 DEF EbpfAt
    <3> QED BY <3>1
  <2>3. packet[8] \in Nat
    BY <1>a, <1>b, <1>19 DEF EbpfAt, LoadsAreNat
  <2>4. Set(4, packet[8])
    BY Zenon, <2>1, <2>2
  <2>5. Writes(4, packet[8])
    BY SMTT(30), <1>a, <2>3, <2>4, SetWrites
  <2> QED BY <1>a, <1>b, <1>19, <2>5 DEF Continues, Writes, EbpfAt
<1>20. CASE pc = 20
  <2>1. Set(0, reg[0] + reg[4])
    BY Zenon, <1>20, EbpfSteps
  <2>2. reg[0] + reg[4] = LongValue
    <3>1. reg[0] = packet[7] * 256 /\ reg[4] = packet[8]
      BY Zenon, <1>a, <1>20 DEF EbpfAt
    <3> QED BY Zenon, <3>1 DEF LongValue
  <2>3. LongValue \in Nat
    BY <1>a, <1>b, <1>20 DEF EbpfAt, LoadsAreNat
  <2>4. Set(0, LongValue)
    BY Zenon, <2>1, <2>2
  <2>5. Writes(0, LongValue)
    BY SMTT(30), <1>a, <2>3, <2>4, SetWrites
  <2> QED BY <1>a, <1>b, <1>20, <2>5 DEF Continues, Writes, EbpfAt
<1>21. CASE pc = 21
  <2>1. Set(0, reg[0] % workers)
    BY Zenon, <1>21, EbpfSteps
  <2>2. reg[0] % workers = LongValue % workers
    BY Zenon, <1>a, <1>21 DEF EbpfAt
  <2>3. LongValue % workers \in Nat
    BY <1>a, <1>b, <1>21 DEF EbpfAt, LoadsAreNat
  <2>4. Set(0, LongValue % workers)
    BY Zenon, <2>1, <2>2
  <2>5. Writes(0, LongValue % workers)
    BY SMTT(30), <1>a, <2>3, <2>4, SetWrites
  <2> QED BY <1>a, <1>b, <1>21, <2>5 DEF Continues, Writes, EbpfAt
<1>22. CASE pc = 22
  <2>1. Return(reg[0])
    BY Zenon, <1>22, EbpfSteps
  <2>2. selected' = LongValue % workers /\ LongValue \in Nat /\ selected' \in Nat
    BY <1>a, <1>b, <1>22, <2>1 DEF Return, EbpfAt, LoadsAreNat
  <2>3. RouteKey(packet) \in {NoWorker, LongValue}
    BY <1>a, <1>b, <1>22 DEF EbpfAt, KeyByHeader
  <2> QED BY Zenon, <1>a, <2>1, <2>2, <2>3 DEF Ends, Chosen, QuicWorkerIndex, Return
<1>23. CASE pc = 23
  <2>1. Set(4, reg[2])
    BY Zenon, <1>23, EbpfSteps
  <2>2. reg[2] = 0
    BY SMTT(30), <1>a, <1>23 DEF EbpfAt
  <2>3. 0 \in Nat
    BY Zenon
  <2>4. Set(4, 0)
    BY Zenon, <2>1, <2>2
  <2>5. Writes(4, 0)
    BY <1>a, <2>3, <2>4, SetWrites
  <2> QED BY <1>a, <1>b, <1>23, <2>5 DEF Continues, Writes, EbpfAt
<1>24. CASE pc = 24
  <2>1. Set(4, reg[4] + 3)
    BY Zenon, <1>24, EbpfSteps
  <2>2. reg[4] + 3 = 3
    BY <1>a, <1>24 DEF EbpfAt
  <2>3. 3 \in Nat
    BY Zenon
  <2>4. Set(4, 3)
    BY Zenon, <2>1, <2>2
  <2>5. Writes(4, 3)
    BY SMTT(30), <1>a, <2>3, <2>4, SetWrites
  <2> QED BY <1>a, <1>b, <1>24, <2>5 DEF Continues, Writes, EbpfAt
<1>25. CASE pc = 25
  <2>1. Jump(reg[4] > reg[3], 6)
    BY Zenon, <1>25, EbpfSteps
  <2>2. pc' = (IF Length < 3 THEN 32 ELSE 26) /\ UNCHANGED <<stage, reg, selected>>
    BY <1>a, <1>b, <1>25, <2>1 DEF Jump, EbpfAt, LoadsAreNat
  <2>3. Length < 3 => RouteKey(packet) = NoWorker
    <3>1. packet[1] < 128 /\ Length >= 1
      BY <1>a, <1>b, <1>25 DEF EbpfAt
    <3> QED BY <1>b, <3>1 DEF KeyByHeader
  <2> QED BY <1>a, <1>b, <1>25, <2>2, <2>3 DEF Continues, EbpfAt, LoadsAreNat
<1>26. CASE pc = 26
  <2>1. Set(0, packet[reg[2] + 1 + 1])
    BY Zenon, <1>26, EbpfSteps
  <2>2. packet[reg[2] + 1 + 1] = packet[2]
    <3>1. reg[2] = 0
      BY <1>a, <1>26 DEF EbpfAt
    <3> QED BY <3>1
  <2>3. packet[2] \in Nat
    BY <1>a, <1>b, <1>26 DEF EbpfAt, LoadsAreNat
  <2>4. Set(0, packet[2])
    BY Zenon, <2>1, <2>2
  <2>5. Writes(0, packet[2])
    BY <1>a, <2>3, <2>4, SetWrites
  <2> QED BY <1>a, <1>b, <1>26, <2>5 DEF Continues, Writes, EbpfAt
<1>27. CASE pc = 27
  <2>1. Set(0, reg[0] * 256)
    BY Zenon, <1>27, EbpfSteps
  <2>2. reg[0] * 256 = packet[2] * 256
    BY Zenon, <1>a, <1>27 DEF EbpfAt
  <2>3. packet[2] * 256 \in Nat
    BY <1>a, <1>b, <1>27 DEF EbpfAt, LoadsAreNat
  <2>4. Set(0, packet[2] * 256)
    BY Zenon, <2>1, <2>2
  <2>5. Writes(0, packet[2] * 256)
    BY SMTT(30), <1>a, <2>3, <2>4, SetWrites
  <2> QED BY <1>a, <1>b, <1>27, <2>5 DEF Continues, Writes, EbpfAt
<1>28. CASE pc = 28
  <2>1. Set(4, packet[reg[2] + 2 + 1])
    BY Zenon, <1>28, EbpfSteps
  <2>2. packet[reg[2] + 2 + 1] = packet[3]
    <3>1. reg[2] = 0
      BY <1>a, <1>28 DEF EbpfAt
    <3> QED BY <3>1
  <2>3. packet[3] \in Nat
    BY <1>a, <1>b, <1>28 DEF EbpfAt, LoadsAreNat
  <2>4. Set(4, packet[3])
    BY Zenon, <2>1, <2>2
  <2>5. Writes(4, packet[3])
    BY SMTT(30), <1>a, <2>3, <2>4, SetWrites
  <2> QED BY <1>a, <1>b, <1>28, <2>5 DEF Continues, Writes, EbpfAt
<1>29. CASE pc = 29
  <2>1. Set(0, reg[0] + reg[4])
    BY Zenon, <1>29, EbpfSteps
  <2>2. reg[0] + reg[4] = ShortValue
    <3>1. reg[0] = packet[2] * 256 /\ reg[4] = packet[3]
      BY Zenon, <1>a, <1>29 DEF EbpfAt
    <3> QED BY Zenon, <3>1 DEF ShortValue
  <2>3. ShortValue \in Nat
    BY SMTT(30), <1>a, <1>b, <1>29 DEF EbpfAt, LoadsAreNat
  <2>4. Set(0, ShortValue)
    BY Zenon, <2>1, <2>2
  <2>5. Writes(0, ShortValue)
    BY <1>a, <2>3, <2>4, SetWrites
  <2> QED BY <1>a, <1>b, <1>29, <2>5 DEF Continues, Writes, EbpfAt
<1>30. CASE pc = 30
  <2>1. Set(0, reg[0] % workers)
    BY Zenon, <1>30, EbpfSteps
  <2>2. reg[0] % workers = ShortValue % workers
    BY Zenon, <1>a, <1>30 DEF EbpfAt
  <2>3. ShortValue % workers \in Nat
    BY <1>a, <1>b, <1>30 DEF EbpfAt, LoadsAreNat
  <2>4. Set(0, ShortValue % workers)
    BY Zenon, <2>1, <2>2
  <2>5. Writes(0, ShortValue % workers)
    BY <1>a, <2>3, <2>4, SetWrites
  <2> QED BY <1>a, <1>b, <1>30, <2>5 DEF Continues, Writes, EbpfAt
<1>31. CASE pc = 31
  <2>1. Return(reg[0])
    BY Zenon, <1>31, EbpfSteps
  <2>2. selected' = ShortValue % workers /\ ShortValue \in Nat /\ selected' \in Nat
    BY <1>a, <1>b, <1>31, <2>1 DEF Return, EbpfAt, LoadsAreNat
  <2>3. RouteKey(packet) \in {NoWorker, ShortValue}
    BY SMTT(30), <1>a, <1>b, <1>31 DEF EbpfAt, KeyByHeader
  <2> QED BY Zenon, <1>a, <2>1, <2>2, <2>3 DEF Ends, Chosen, QuicWorkerIndex, Return
<1>32. CASE pc = 32
  <2>1. Set(0, 0)
    BY Zenon, <1>32, EbpfSteps
  <2>3. 0 \in Nat
    BY Zenon
  <2>5. Writes(0, 0)
    BY <1>a, <2>1, <2>3, SetWrites
  <2> QED BY <1>a, <1>b, <1>32, <2>5 DEF Continues, Writes, EbpfAt
<1>33. CASE pc = 33
  <2>1. Return(reg[0])
    BY Zenon, <1>33, EbpfSteps
  <2>2. RouteKey(packet) = NoWorker /\ reg[0] \in Nat
    BY <1>a, <1>33 DEF EbpfAt
  <2> QED BY Zenon, <1>a, <2>1, <2>2 DEF Ends, Chosen, QuicWorkerIndex, Return
<1> QED BY <1>a, <1>0, <1>1, <1>2, <1>3, <1>4, <1>5, <1>6, <1>7,
           <1>8, <1>9, <1>10, <1>11, <1>12, <1>13, <1>14, <1>15,
           <1>16, <1>17, <1>18, <1>19, <1>20, <1>21, <1>22, <1>23,
           <1>24, <1>25, <1>26, <1>27, <1>28, <1>29, <1>30, <1>31,
           <1>32, <1>33

\* Each instruction of quic_reuseport_cbpf keeps the assertion, and the
\* program ends with the worker that the rule names.
LEMMA CbpfKeeps ==
  ASSUME IndInv, Execute, selector = "cbpf"
  PROVE  Continues(CbpfAt', 6) \/ Ends
<1>a. /\ CbpfAt /\ stage = "kernel" /\ pc \in 0 .. 6
      /\ reg \in [0 .. 6 -> Nat] /\ workers \in Nat \ {0} /\ packet \in Seq(Byte)
      /\ UNCHANGED <<selector, workers, packet, origin, delivered>>
  <2>1. Program = Cbpf /\ Len(Cbpf) = 7
    BY Zenon DEF Program, Cbpf
  <2>2. stage = "kernel" /\ UNCHANGED <<selector, workers, packet, origin, delivered>>
    BY Zenon DEF Execute
  <2> QED BY <2>1, <2>2, SelectorAssumption DEF IndInv, TypeOK
<1>b. /\ Length \in Nat /\ Length' = Length /\ LongValue' = LongValue /\ ShortValue' = ShortValue
      /\ KeyByHeader /\ LoadsAreNat
  BY Zenon, <1>a, PacketFacts
<1>0. CASE pc = 0
  <2>1. IF 1 <= Length THEN Set(0, packet[1]) ELSE Return(0)
    BY Zenon, <1>0, CbpfSteps
  <2>2. CASE ~(1 <= Length)
    <3>1. Return(0)
      BY Zenon, <2>1, <2>2
    <3>2. RouteKey(packet) = NoWorker
      <4>1. Length >= 0
        BY <1>a, <1>b, <1>0 DEF CbpfAt
      <4> QED BY <1>b, <2>2, <4>1 DEF KeyByHeader, LoadsAreNat
    <3> QED BY Zenon, <1>a, <3>1, <3>2 DEF Ends, Chosen, QuicWorkerIndex, Return
  <2>3. CASE 1 <= Length
    <3>1. Set(0, packet[1])
      BY Zenon, <2>1, <2>3
    <3>2. packet[1] \in Nat /\ packet[1] = packet[1]
      BY Zenon, <1>b, <2>3 DEF LoadsAreNat
    <3>3. Writes(0, packet[1])
      BY <1>a, <3>1, <3>2, SetWrites
    <3> QED BY <1>a, <1>b, <1>0, <2>3, <3>3 DEF Continues, Writes, CbpfAt
  <2> QED BY Zenon, <2>2, <2>3
<1>1. CASE pc = 1
  <2>1. Jump(AndBit(reg[0], 128) = 0, 2)
    BY Zenon, <1>1, CbpfSteps
  <2>2. pc' = (IF packet[1] < 128 THEN 4 ELSE 2) /\ UNCHANGED <<stage, reg, selected>>
    BY SMTT(30), <1>a, <1>b, <1>1, <2>1 DEF Jump, CbpfAt, LoadsAreNat
  <2> QED BY SMTT(30), <1>a, <1>b, <1>1, <2>2 DEF Continues, CbpfAt, LoadsAreNat
<1>2. CASE pc = 2
  <2>1. IF 8 <= Length THEN Set(0, packet[7] * 256 + packet[8]) ELSE Return(0)
    BY Zenon, <1>2, CbpfSteps
  <2>2. CASE ~(8 <= Length)
    <3>1. Return(0)
      BY Zenon, <2>1, <2>2
    <3>2. RouteKey(packet) = NoWorker
      <4>1. packet[1] >= 128 /\ Length >= 1
        BY <1>a, <1>b, <1>2 DEF CbpfAt
      <4> QED BY <1>b, <2>2, <4>1 DEF KeyByHeader, LoadsAreNat
    <3> QED BY Zenon, <1>a, <3>1, <3>2 DEF Ends, Chosen, QuicWorkerIndex, Return
  <2>3. CASE 8 <= Length
    <3>1. Set(0, packet[7] * 256 + packet[8])
      BY Zenon, <2>1, <2>3
    <3>2. LongValue \in Nat /\ packet[7] * 256 + packet[8] = LongValue
      BY Zenon, <1>b, <2>3 DEF LoadsAreNat, LongValue
    <3>3. Writes(0, LongValue)
      BY <1>a, <3>1, <3>2, SetWrites
    <3> QED BY <1>a, <1>b, <1>2, <2>3, <3>3 DEF Continues, Writes, CbpfAt
  <2> QED BY Zenon, <2>2, <2>3
<1>3. CASE pc = 3
  <2>1. Jump(TRUE, 1)
    BY Zenon, <1>3, CbpfSteps
  <2>2. pc' = 5 /\ UNCHANGED <<stage, reg, selected>>
    BY <1>3, <2>1 DEF Jump
  <2> QED BY <1>a, <1>b, <1>3, <2>2 DEF Continues, CbpfAt
<1>4. CASE pc = 4
  <2>1. IF 3 <= Length THEN Set(0, packet[2] * 256 + packet[3]) ELSE Return(0)
    BY Zenon, <1>4, CbpfSteps
  <2>2. CASE ~(3 <= Length)
    <3>1. Return(0)
      BY Zenon, <2>1, <2>2
    <3>2. RouteKey(packet) = NoWorker
      <4>1. packet[1] < 128 /\ Length >= 1
        BY <1>a, <1>b, <1>4 DEF CbpfAt
      <4> QED BY Zenon, <1>b, <2>2, <4>1 DEF KeyByHeader, LoadsAreNat
    <3> QED BY Zenon, <1>a, <3>1, <3>2 DEF Ends, Chosen, QuicWorkerIndex, Return
  <2>3. CASE 3 <= Length
    <3>1. Set(0, packet[2] * 256 + packet[3])
      BY Zenon, <2>1, <2>3
    <3>2. ShortValue \in Nat /\ packet[2] * 256 + packet[3] = ShortValue
      BY Zenon, <1>b, <2>3 DEF LoadsAreNat, ShortValue
    <3>3. Writes(0, ShortValue)
      BY <1>a, <3>1, <3>2, SetWrites
    <3> QED BY <1>a, <1>b, <1>4, <2>3, <3>3 DEF Continues, Writes, CbpfAt
  <2> QED BY Zenon, <2>2, <2>3
<1>5. CASE pc = 5
  <2>1. Set(0, reg[0] % workers)
    BY Zenon, <1>5, CbpfSteps
  <2>2. CASE packet[1] >= 128 /\ Length >= 8 /\ reg[0] = LongValue
    <3>1. Writes(0, LongValue % workers)
      BY SMTT(30), <1>a, <1>b, <2>1, <2>2, SetWrites DEF LoadsAreNat
    <3> QED BY <1>a, <1>b, <1>5, <2>2, <3>1 DEF Continues, Writes, CbpfAt
  <2>3. CASE packet[1] < 128 /\ Length >= 3 /\ reg[0] = ShortValue
    <3>1. Writes(0, ShortValue % workers)
      BY SMTT(30), <1>a, <1>b, <2>1, <2>3, SetWrites DEF LoadsAreNat
    <3> QED BY <1>a, <1>b, <1>5, <2>3, <3>1 DEF Continues, Writes, CbpfAt
  <2> QED BY Zenon, <1>a, <1>5, <2>2, <2>3 DEF CbpfAt
<1>6. CASE pc = 6
  <2>1. Return(reg[0])
    BY Zenon, <1>6, CbpfSteps
  <2>2. ASSUME NEW v \in Nat, selected' = v % workers, RouteKey(packet) \in {NoWorker, v},
               selected' \in Nat
        PROVE  Ends
    BY Zenon, <1>a, <2>1, <2>2 DEF Ends, Chosen, QuicWorkerIndex, Return
  <2>3. CASE packet[1] >= 128 /\ Length >= 8 /\ reg[0] = LongValue % workers
    <3>1. selected' = LongValue % workers /\ LongValue \in Nat /\ selected' \in Nat
      BY Zenon, <1>b, <2>1, <2>3 DEF Return, LoadsAreNat
    <3>2. RouteKey(packet) \in {NoWorker, LongValue}
      BY <1>b, <2>3 DEF KeyByHeader
    <3> QED BY Zenon, <2>2, <3>1, <3>2
  <2>4. CASE packet[1] < 128 /\ Length >= 3 /\ reg[0] = ShortValue % workers
    <3>1. selected' = ShortValue % workers /\ ShortValue \in Nat /\ selected' \in Nat
      BY Zenon, <1>b, <2>1, <2>4 DEF Return, LoadsAreNat
    <3>2. RouteKey(packet) \in {NoWorker, ShortValue}
      BY <1>b, <2>4 DEF KeyByHeader
    <3> QED BY Zenon, <2>2, <3>1, <3>2
  <2> QED BY Zenon, <1>a, <1>6, <2>3, <2>4 DEF CbpfAt
<1> QED BY <1>a, <1>0, <1>1, <1>2, <1>3, <1>4, <1>5, <1>6

\* The probe of the bind names the worker it is sent for.
LEMMA ProbeKey ==
  ASSUME NEW n \in Nat, NEW i \in 0 .. MaxWorkerIndex, i < n
  PROVE  /\ QuicReuseportProbePacket(i) \in Seq(Byte)
         /\ QuicWorkerIndex(QuicReuseportProbePacket(i), n) = i
<1> DEFINE p == QuicReuseportProbePacket(i)
           hi == i \div 256
           lo == i % 256
<1>1. hi \in Byte /\ lo \in Byte /\ hi * 256 + lo = i
  BY IndexBytes
<1>2. 224 \in Byte /\ 0 \in Byte /\ 1 \in Byte /\ 4 \in Byte /\ 165 \in Byte
  BY Ranges
<1> HIDE DEF hi, lo
<1>3. p = <<224, 0, 0, 0, 1, 4, hi, lo, 165, lo>>
  BY Zenon DEF QuicReuseportProbePacket, hi, lo
<1>4. p \in Seq(Byte) /\ Len(p) = 10 /\ p[1] = 224 /\ p[6] = 4 /\ p[7] = hi /\ p[8] = lo
  <2>2. p \in Seq(Byte)
    BY <1>1, <1>2, <1>3
  <2>3. Len(p) = 10 /\ p[1] = 224 /\ p[6] = 4 /\ p[7] = hi /\ p[8] = lo
    BY <1>3
  <2> QED BY Zenon, <2>2, <2>3
<1> HIDE DEF p
<1>5. RouteKey(p) = hi * 256 + lo
  <2>1. /\ p \in Seq(Byte) /\ Len(p) >= 1 /\ p[1] >= 128
        /\ Len(p) >= 6 /\ p[6] >= 2 /\ 6 + p[6] <= Len(p)
    BY <1>4
  <2>2. RouteKey(p) = p[7] * 256 + p[8]
    BY Zenon, <2>1, KeyOf
  <2> QED BY Zenon, <1>4, <2>2
<1>6. QuicWorkerIndex(p, n) = i
  BY <1>1, <1>5, KeySelects
<1> QED BY Zenon, <1>4, <1>6 DEF p

-----------------------------------------------------------------------------
\* No packet has arrived: nothing is claimed of it.
LEMMA InitHolds == Init => IndInv
<1> SUFFICES ASSUME Init PROVE IndInv
  BY Zenon
<1>1. <<>> \in Seq(Byte) /\ 0 \in 0 .. Len(Program) - 1
  BY DEF Program, Ebpf, Cbpf
<1>2. TypeOK
  BY Zenon, <1>1 DEF Init, TypeOK
<1> QED BY Zenon, <1>2 DEF Init, IndInv, SelectorsAgree

\* A packet that arrives finds the program at its first instruction.
LEMMA ArrivesKeeps ==
  ASSUME IndInv, stage = "idle", NEW p \in Seq(Byte), NEW w \in 0 .. workers - 1 \cup {NoWorker},
         w # NoWorker => QuicWorkerIndex(p, workers) = w, Arrives(p, w)
  PROVE  IndInv'
<1>1. TypeOK'
  <2>1. Len(Program)' = Len(Program)
    BY Zenon DEF Arrives, Program
  <2> QED BY Zenon, <2>1 DEF IndInv, TypeOK, Arrives
<1>2. pc' = 0 /\ stage' \in {"route", "kernel"}
  BY Zenon DEF IndInv, Arrives
<1>3. EbpfAt' /\ CbpfAt'
  BY <1>2 DEF EbpfAt, CbpfAt
<1> QED BY Zenon, <1>1, <1>2, <1>3 DEF IndInv, Arrives, SelectorsAgree

\* The steps of the kernel program.
LEMMA ExecuteKeeps ==
  ASSUME IndInv, Execute
  PROVE  IndInv'
<1>1. /\ stage = "kernel" /\ selector \in {"ebpf", "cbpf"}
      /\ UNCHANGED <<selector, workers, packet, origin, delivered>>
  BY Zenon DEF Execute, IndInv, TypeOK
<1>2. ASSUME NEW last, Len(Program) - 1 = last, NEW at, Continues(at, last)
      PROVE  TypeOK'
  <2>1. Len(Program)' = Len(Program)
    BY Zenon, <1>1 DEF Program
  <2> QED BY Zenon, <1>1, <1>2, <2>1 DEF IndInv, TypeOK, Continues
<1>3. ASSUME Ends PROVE IndInv'
  <2>1. Len(Program)' = Len(Program)
    BY Zenon, <1>1 DEF Program
  <2>2. TypeOK'
    BY Zenon, <1>1, <1>3, <2>1 DEF IndInv, TypeOK, Ends
  <2> QED BY Zenon, <1>1, <1>3, <2>2 DEF IndInv, Ends, SelectorsAgree
<1>4. CASE selector = "ebpf"
  <2>1. CASE Continues(EbpfAt', 33)
    <3>1. Len(Program) - 1 = 33
      BY <1>4 DEF Program, Ebpf
    <3>2. TypeOK'
      BY Zenon, <1>2, <2>1, <3>1
    <3> QED BY Zenon, <1>1, <1>4, <2>1, <3>2 DEF IndInv, Continues, SelectorsAgree
  <2> QED BY Zenon, <1>3, <1>4, <2>1, EbpfKeeps
<1>5. CASE selector = "cbpf"
  <2>1. CASE Continues(CbpfAt', 6)
    <3>1. Len(Program) - 1 = 6
      BY <1>5 DEF Program, Cbpf
    <3>2. TypeOK'
      BY Zenon, <1>2, <2>1, <3>1
    <3> QED BY Zenon, <1>1, <1>5, <2>1, <3>2 DEF IndInv, Continues, SelectorsAgree
  <2> QED BY Zenon, <1>3, <1>5, <2>1, CbpfKeeps
<1> QED BY Zenon, <1>1, <1>4, <1>5

\* The userspace rule, and the check behind the kernel's choice.
LEMMA DeliverKeeps ==
  ASSUME IndInv, Route \/ Check
  PROVE  IndInv'
<1>1. /\ stage' = "done" /\ UNCHANGED <<selector, workers, packet, origin, pc, reg, selected>>
      /\ stage \in {"route", "check"}
  BY Zenon DEF Route, Check
<1>2. delivered' = QuicWorkerIndex(packet, workers)
  <2>1. CASE Route
    BY Zenon, <2>1 DEF Route
  <2>2. CASE Check
    BY Zenon, <2>2 DEF Check, IndInv, Chosen, QuicReuseportBpfAcceptsPacket
  <2> QED BY Zenon, <2>1, <2>2
<1>3. delivered' \in Nat \cup {NoWorker}
  <2>1. packet \in Seq(Byte) /\ workers \in Nat
    BY Zenon, SelectorAssumption DEF IndInv, TypeOK
  <2>2. QuicWorkerIndex(packet, workers) \in 0 .. workers - 1 \cup {NoWorker}
    BY Zenon, <2>1, RuleInRange
  <2> QED BY <1>2, <2>1, <2>2
<1>4. TypeOK'
  <2>1. Len(Program)' = Len(Program)
    BY Zenon, <1>1 DEF Program
  <2> QED BY Zenon, <1>1, <1>3, <2>1 DEF IndInv, TypeOK
<1> QED BY Zenon, <1>1, <1>2, <1>4 DEF IndInv, SelectorsAgree

\* Every step keeps the assertions.
LEMMA NextKeeps == IndInv /\ [Next]_vars => IndInv'
<1> SUFFICES ASSUME IndInv, [Next]_vars PROVE IndInv'
  BY Zenon
<1>0. workers \in Nat
  BY Zenon, SelectorAssumption DEF IndInv, TypeOK
<1>1. CASE ClientPacket
  <2>1. PICK p \in Packets : Arrives(p, NoWorker)
    BY Zenon, <1>1 DEF ClientPacket
  <2>2. p \in Seq(Byte)
    BY Zenon, BytesAssumption
  <2> QED BY Zenon, <1>1, <2>1, <2>2, ArrivesKeeps DEF ClientPacket
<1>2. CASE ConnectionPacket
  <2>1. PICK w \in 0 .. workers - 1, r \in Randoms :
          /\ ValidGenerator(w, Len(r))
          /\ \/ Arrives(LongPacket(GenerateCid(w, r), <<>>), w)
             \/ Arrives(ShortPacket(GenerateCid(w, r), <<9>>), w)
    BY Zenon, <1>2 DEF ConnectionPacket
  <2>2. r \in Seq(Byte) /\ w \in Nat /\ w < workers /\ ValidGenerator(w, Len(r))
    BY <1>0, <2>1, BytesAssumption
  <2>3. <<>> \in Seq(Byte) /\ <<9>> \in Seq(Byte)
    <3>1. 9 \in Byte
      BY Ranges
    <3> QED BY <3>1
  <2>4. /\ LongPacket(GenerateCid(w, r), <<>>) \in Seq(Byte)
        /\ QuicWorkerIndex(LongPacket(GenerateCid(w, r), <<>>), workers) = w
        /\ ShortPacket(GenerateCid(w, r), <<9>>) \in Seq(Byte)
        /\ QuicWorkerIndex(ShortPacket(GenerateCid(w, r), <<9>>), workers) = w
    <3>1. ASSUME NEW rest \in Seq(Byte)
          PROVE  /\ LongPacket(GenerateCid(w, r), rest) \in Seq(Byte)
                 /\ QuicWorkerIndex(LongPacket(GenerateCid(w, r), rest), workers) = w
                 /\ ShortPacket(GenerateCid(w, r), rest) \in Seq(Byte)
                 /\ QuicWorkerIndex(ShortPacket(GenerateCid(w, r), rest), workers) = w
      BY <1>0, <2>2, DcidRoundTrip
    <3> QED BY Zenon, <2>3, <3>1
  <2>5. stage = "idle"
    BY Zenon, <1>2 DEF ConnectionPacket
  <2> QED BY Zenon, <2>1, <2>4, <2>5, ArrivesKeeps
<1>3. CASE ProbePacket
  <2>1. PICK i \in 0 .. workers - 1 : Arrives(QuicReuseportProbePacket(i), i)
    BY Zenon, <1>3 DEF ProbePacket
  <2>2. i \in Nat /\ i < workers /\ i \in 0 .. MaxWorkerIndex /\ stage = "idle"
    <3>1. i \in Nat /\ i < workers /\ stage = "idle" /\ workers <= MaxWorkerIndex + 1
      BY <1>0, <1>3 DEF ProbePacket, FitsPrefix
    <3>2. i <= 65535
      BY <1>0, <3>1 DEF MaxWorkerIndex
    <3> QED BY <3>1, <3>2, Ranges
  <2>3. /\ QuicReuseportProbePacket(i) \in Seq(Byte)
        /\ QuicWorkerIndex(QuicReuseportProbePacket(i), workers) = i
    BY Zenon, <1>0, <2>2, ProbeKey
  <2> QED BY Zenon, <2>1, <2>2, <2>3, ArrivesKeeps
<1>4. CASE Route \/ Check
  BY Zenon, <1>4, DeliverKeeps
<1>5. CASE Execute
  BY Zenon, <1>5, ExecuteKeeps
<1>6. CASE UNCHANGED vars
  <2>1. UNCHANGED <<selector, workers, packet, origin, stage, pc, reg, selected, delivered>>
    BY Zenon, <1>6 DEF vars
  <2>2. TypeOK' /\ Chosen' = Chosen /\ SelectorsAgree'
    BY Zenon, <2>1 DEF IndInv, TypeOK, Program, Chosen, SelectorsAgree
  <2>3. Length' = Length /\ LongValue' = LongValue /\ ShortValue' = ShortValue
    BY Zenon, <2>1 DEF Length, LongValue, ShortValue
  <2>4. EbpfAt => EbpfAt'
    BY SMTT(30), <2>1, <2>3 DEF EbpfAt
  <2>5. CbpfAt => CbpfAt'
    BY SMTT(30), <2>1, <2>3 DEF CbpfAt
  <2> QED BY Zenon, <2>1, <2>2, <2>4, <2>5 DEF IndInv
<1> QED BY <1>1, <1>2, <1>3, <1>4, <1>5, <1>6 DEF Next

\* The assertions hold at every instruction of every run, for every set of
\* packets, worker counts and random bytes.
THEOREM Invariance == Spec => []IndInv
<1> QED BY InitHolds, NextKeeps, PTL DEF Spec

\* No load of quic_reuseport_ebpf leaves the packet, whatever the packet.
THEOREM LoadsInBoundsHolds == Spec => []LoadsInBounds
<1>1. IndInv => LoadsInBounds
  <2> SUFFICES ASSUME IndInv PROVE LoadsInBounds
    OBVIOUS
  <2>1. TypeOK
    BY DEF IndInv
  <2>2. ASSUME selector = "ebpf", stage = "kernel", Ebpf[pc + 1].op = "ldxb"
        PROVE  reg[Ebpf[pc + 1].src] + Ebpf[pc + 1].off < Len(packet)
    <3>1. EbpfAt /\ pc \in 0 .. 33 /\ Length \in Nat
      <4>1. Len(Program) = 34
        BY <2>2 DEF Program, Ebpf
      <4> QED BY <2>1, <2>2, <4>1, KeyOf DEF IndInv, TypeOK, Length
    <3>2. pc \in {6, 12, 17, 19, 26, 28}
      BY <2>2, <3>1 DEF Ebpf, Ins
    <3>3. reg[2] = 0
      BY <3>1, <3>2 DEF EbpfAt
    <3>4. /\ pc = 6 => Ebpf[pc + 1].src = 2 /\ Ebpf[pc + 1].off = 0
          /\ pc = 12 => Ebpf[pc + 1].src = 2 /\ Ebpf[pc + 1].off = 5
          /\ pc = 17 => Ebpf[pc + 1].src = 2 /\ Ebpf[pc + 1].off = 6
          /\ pc = 19 => Ebpf[pc + 1].src = 2 /\ Ebpf[pc + 1].off = 7
          /\ pc = 26 => Ebpf[pc + 1].src = 2 /\ Ebpf[pc + 1].off = 1
          /\ pc = 28 => Ebpf[pc + 1].src = 2 /\ Ebpf[pc + 1].off = 2
      BY EbpfLoads
    <3>5. /\ pc = 6 => Length >= 1
          /\ pc = 12 => Length >= 6
          /\ pc \in {17, 19} => Length >= 8
          /\ pc \in {26, 28} => Length >= 3
      BY <3>1 DEF EbpfAt
    <3> QED BY SMTT(30), <3>1, <3>2, <3>3, <3>4, <3>5 DEF Length
  <2> QED BY <2>1, <2>2 DEF LoadsInBounds
<1> QED BY <1>1, Invariance, PTL

\* The userspace rule, the eBPF and the classic program deliver every packet to
\* the same worker.
THEOREM SelectorsAgreeHolds == Spec => []SelectorsAgree
<1>1. IndInv => SelectorsAgree
  BY DEF IndInv
<1> QED BY <1>1, Invariance, PTL

\* A connection stays with the worker that generated its id, for every selector
\* and every number of workers.
THEOREM ConnectionAffinityHolds == Spec => []ConnectionAffinity
<1>1. IndInv => ConnectionAffinity
  BY DEF IndInv, SelectorsAgree, ConnectionAffinity
<1> QED BY <1>1, Invariance, PTL
=============================================================================

------------------------ MODULE SocketFallbackProofs ------------------------
(***************************************************************************)
(* Safety of SocketFallback for every number of workers, every channel      *)
(* capacity and any number of packets: a routed packet is never lost or     *)
(* reordered, and at most one is routed after close() has begun.            *)
(***************************************************************************)
EXTENDS SocketFallback, SequenceTheorems, TLAPS

Id == 0 .. MaxArrivals

\* Each live view's packets, and the packet in flight has a route.
Channels == /\ dispatcher # "ended" => \A w \in Workers :
                 view[w] # "closed" => routed[w] = read[w] \o Ids(queue[w]) \o InFlight(w)
            /\ dispatcher = "send" => held.to \in Workers

\* After close() has begun the loop passes Route at most once before its test.
Late == /\ active => lateRouted = 0
        /\ lateRouted \in {0, 1}
        /\ lateRouted = 1 => dispatcher \in {"send", "check", "ended"}

IndInv == TypeOK /\ Channels /\ Late

-----------------------------------------------------------------------------
\* The ids of a channel's packets.
LEMMA IdsType ==
  ASSUME NEW q \in Seq(Packet)
  PROVE  /\ Ids(q) \in Seq(Id) /\ Len(Ids(q)) = Len(q)
         /\ \A k \in 1 .. Len(q) : Ids(q)[k] = q[k].id
<1>1. Len(q) \in Nat /\ \A k \in 1 .. Len(q) : q[k] \in Packet
  OBVIOUS
<1>2. \A k \in 1 .. Len(q) : q[k].id \in Id
  BY Zenon, <1>1 DEF Packet, Id
<1>3. Ids(q) \in [1 .. Len(q) -> Id]
  BY Zenon, <1>2 DEF Ids
<1>4. Ids(q) \in Seq(Id)
  BY <1>1, <1>3
<1>5. DOMAIN Ids(q) = 1 .. Len(Ids(q)) /\ Len(Ids(q)) \in Nat
  BY <1>4
<1>6. Len(Ids(q)) = Len(q)
  BY <1>1, <1>3, <1>5
<1> QED BY Zenon, <1>4, <1>6 DEF Ids

\* A packet at the end of the channel is an id at the end.
LEMMA IdsAppend ==
  ASSUME NEW q \in Seq(Packet), NEW p \in Packet
  PROVE  Ids(Append(q, p)) = Append(Ids(q), p.id)
<1>1. p.id \in Id
  BY Zenon DEF Packet, Id
<1>2. /\ Append(q, p) \in Seq(Packet) /\ Len(Append(q, p)) = Len(q) + 1
      /\ \A k \in 1 .. Len(q) + 1 : Append(q, p)[k] = IF k <= Len(q) THEN q[k] ELSE p
  OBVIOUS
<1>3. /\ Ids(q) \in Seq(Id) /\ Len(Ids(q)) = Len(q)
      /\ \A k \in 1 .. Len(q) : Ids(q)[k] = q[k].id
  BY Zenon, IdsType
<1>4. /\ Ids(Append(q, p)) \in Seq(Id) /\ Len(Ids(Append(q, p))) = Len(q) + 1
      /\ \A k \in 1 .. Len(q) + 1 : Ids(Append(q, p))[k] = Append(q, p)[k].id
  BY Zenon, <1>2, IdsType
<1>5. /\ Append(Ids(q), p.id) \in Seq(Id) /\ Len(Append(Ids(q), p.id)) = Len(q) + 1
      /\ \A k \in 1 .. Len(q) + 1 : Append(Ids(q), p.id)[k] = IF k <= Len(q) THEN Ids(q)[k] ELSE p.id
  BY <1>1, <1>3
<1>6. \A k \in 1 .. Len(q) + 1 : Ids(Append(q, p))[k] = Append(Ids(q), p.id)[k]
  <2> TAKE k \in 1 .. Len(q) + 1
  <2>1. CASE k <= Len(q)
    <3>1. k \in 1 .. Len(q)
      BY <2>1
    <3> QED BY Zenon, <1>2, <1>3, <1>4, <1>5, <2>1, <3>1
  <2>2. CASE ~(k <= Len(q))
    BY Zenon, <1>2, <1>4, <1>5, <2>2
  <2> QED BY Zenon, <2>1, <2>2
<1> QED BY Zenon, <1>4, <1>5, <1>6, SeqEqual

\* Reading moves the first packet's id from the channel to what was read.
LEMMA IdsRead ==
  ASSUME NEW r \in Seq(Id), NEW q \in Seq(Packet), q # <<>>
  PROVE  /\ Append(r, Head(q).id) \in Seq(Id)
         /\ r \o Ids(q) = Append(r, Head(q).id) \o Ids(Tail(q))
<1>1. /\ Head(q) = q[1] /\ Head(q) \in Packet /\ Tail(q) \in Seq(Packet)
      /\ Len(q) \in Nat \ {0} /\ Len(Tail(q)) = Len(q) - 1
      /\ \A k \in 1 .. Len(q) - 1 : Tail(q)[k] = q[k + 1]
  OBVIOUS
<1>2. Head(q).id \in Id
  BY Zenon, <1>1 DEF Packet, Id
<1> DEFINE x == Head(q).id
           a == Ids(q)
           b == Ids(Tail(q))
<1>3. /\ a \in Seq(Id) /\ Len(a) = Len(q) /\ b \in Seq(Id) /\ Len(b) = Len(q) - 1
      /\ \A k \in 1 .. Len(q) : a[k] = q[k].id
      /\ \A k \in 1 .. Len(q) - 1 : b[k] = Tail(q)[k].id
  BY Zenon, <1>1, IdsType
<1>4. a[1] = x /\ \A k \in 1 .. Len(q) - 1 : b[k] = a[k + 1]
  BY <1>1, <1>3
<1> HIDE DEF x, a, b
<1>5. x \in Id
  BY Zenon, <1>2 DEF x
<1>6. <<x>> \o b = a
  <2>1. <<x>> \in Seq(Id) /\ Len(<<x>>) = 1 /\ <<x>>[1] = x
    BY <1>5
  <2>2. /\ <<x>> \o b \in Seq(Id) /\ Len(<<x>> \o b) = Len(q)
        /\ \A k \in 1 .. Len(q) : (<<x>> \o b)[k] = IF k <= 1 THEN <<x>>[k] ELSE b[k - 1]
    <3>1. /\ <<x>> \o b \in Seq(Id) /\ Len(<<x>> \o b) = Len(<<x>>) + Len(b)
          /\ \A k \in 1 .. Len(<<x>>) + Len(b) :
                (<<x>> \o b)[k] = IF k <= Len(<<x>>) THEN <<x>>[k] ELSE b[k - Len(<<x>>)]
      BY <1>3, <2>1, ConcatProperties
    <3>2. Len(<<x>>) = 1 /\ 1 + Len(b) = Len(q)
      BY <1>1, <1>3, <2>1
    <3> QED BY Zenon, <3>1, <3>2
  <2>3. \A k \in 1 .. Len(q) : (<<x>> \o b)[k] = a[k]
    <3> TAKE k \in 1 .. Len(q)
    <3>1. CASE k = 1
      BY <1>4, <2>1, <2>2, <3>1
    <3>2. CASE k # 1
      <4>1. k - 1 \in 1 .. Len(q) - 1 /\ (k - 1) + 1 = k /\ ~(k <= 1)
        BY <1>1, <3>2
      <4> QED BY Zenon, <1>4, <2>2, <4>1
    <3> QED BY Zenon, <3>1, <3>2
  <2> QED BY Zenon, <1>3, <2>2, <2>3, SeqEqual
<1>7. Append(r, x) = r \o <<x>> /\ Append(r, x) \in Seq(Id) /\ <<x>> \in Seq(Id)
  BY <1>5, AppendIsConcat
<1>8. (r \o <<x>>) \o b = r \o (<<x>> \o b)
  BY SMTT(30), <1>3, <1>7, ConcatAssociative
<1> QED BY Zenon, <1>6, <1>7, <1>8 DEF x, a, b

\* Routing puts an id in flight, sending puts it at the end of the channel.
LEMMA FlightMoves ==
  ASSUME NEW r \in Seq(Id), NEW a \in Seq(Id), NEW x \in Id
  PROVE  /\ Append(r \o a \o <<>>, x) = r \o a \o <<x>>
         /\ r \o a \o <<x>> = r \o Append(a, x) \o <<>>
<1>1. r \o a \in Seq(Id) /\ <<x>> \in Seq(Id)
  BY ConcatProperties
<1>2. r \o a \o <<>> = r \o a
  BY Zenon, <1>1, ConcatEmptySeq
<1>3. Append(r \o a, x) = r \o a \o <<x>>
  BY Zenon, <1>1, AppendIsConcat
<1>4. Append(a, x) = a \o <<x>> /\ Append(a, x) \in Seq(Id)
  BY AppendIsConcat
<1>5. r \o a \o <<x>> = r \o (a \o <<x>>)
  BY <1>1, ConcatAssociative
<1>6. r \o Append(a, x) \in Seq(Id)
  BY Zenon, <1>4, ConcatProperties
<1>7. r \o Append(a, x) \o <<>> = r \o Append(a, x)
  BY Zenon, <1>6, ConcatEmptySeq
<1> QED BY Zenon, <1>2, <1>3, <1>4, <1>5, <1>7

\* Nothing is a packet, and worker 0 exists.
LEMMA Packets ==
  /\ Nothing \in Packet /\ 0 \in Workers /\ NoRoute \notin Workers
  /\ \A w \in 0 .. NumWorkers : w = NoRoute \/ w \in Workers
  /\ \A p \in Packet : p.id \in Id /\ (p.to # NoRoute => p.to \in Workers)
BY FallbackAssumption DEF Nothing, Packet, NoRoute, Workers, Id

\* Steps that leave the channels, the histories and the packet in flight alone.
LEMMA QuietStep ==
  ASSUME IndInv, TypeOK', Late', UNCHANGED <<view, queue, routed, read>>,
         dispatcher' = "ended" \/ (dispatcher # "send" /\ dispatcher' # "send" /\ dispatcher # "ended")
           \/ UNCHANGED <<dispatcher, held>>
  PROVE  IndInv'
<1> USE DEF IndInv
<1>1. CASE dispatcher' = "ended"
  BY Zenon, <1>1 DEF Channels
<1>2. CASE dispatcher # "send" /\ dispatcher' # "send" /\ dispatcher # "ended"
  <2>1. \A w \in Workers : InFlight(w)' = InFlight(w)
    BY Zenon, <1>2 DEF InFlight
  <2> QED BY Zenon, <1>2, <2>1 DEF Channels
<1>3. CASE UNCHANGED <<dispatcher, held>>
  <2>1. \A w \in Workers : InFlight(w)' = InFlight(w)
    BY Zenon, <1>3 DEF InFlight
  <2> QED BY Zenon, <1>3, <2>1 DEF Channels
<1> QED BY Zenon, <1>1, <1>2, <1>3

\* A routed packet is recorded and in flight, an unroutable one dropped.
LEMMA RouteStep ==
  ASSUME IndInv, Route
  PROVE  IndInv'
<1> USE DEF IndInv
<1>0. /\ dispatcher = "received" /\ held \in Packet /\ lateRouted = 0
      /\ UNCHANGED <<stateVars, inbox, view, queue, read, arrivals>>
      /\ routed \in [Workers -> Seq(Id)] /\ read \in [Workers -> Seq(Id)]
      /\ queue \in [Workers -> Seq(Packet)]
  BY Zenon DEF Route, TypeOK, Late, Id
<1>1. CASE held.to = NoRoute
  <2>1. TypeOK'
    BY Zenon, <1>0, <1>1, Packets DEF Route, TypeOK, Stages, stateVars
  <2>2. Late'
    BY Zenon, <1>0, <1>1 DEF Route, Late, stateVars
  <2> QED BY Zenon, <1>0, <1>1, <2>1, <2>2, QuietStep DEF Route
<1>2. CASE held.to # NoRoute
  <2>0. /\ held.to \in Workers /\ held.id \in Id /\ dispatcher' = "send" /\ held' = held
        /\ routed' = [routed EXCEPT ![held.to] = Append(@, held.id)]
        /\ lateRouted' = IF active THEN 0 ELSE 1
    BY <1>0, <1>2, Packets DEF Route
  <2>1. routed' \in [Workers -> Seq(Id)]
    BY <1>0, <2>0
  <2>2. TypeOK'
    BY Zenon, <1>0, <2>0, <2>1 DEF TypeOK, Stages, stateVars, Id
  <2>3. Late'
    BY Zenon, <1>0, <2>0 DEF Late, stateVars
  <2>4. ASSUME NEW w \in Workers, view[w] # "closed"
        PROVE  routed'[w] = read[w] \o Ids(queue[w]) \o InFlight(w)'
    <3>1. routed[w] = read[w] \o Ids(queue[w]) \o <<>>
      BY Zenon, <1>0, <2>4 DEF Channels, InFlight
    <3>2. CASE w = held.to
      <4>1. routed'[w] = Append(routed[w], held.id) /\ InFlight(w)' = <<held.id>>
        BY Zenon, <1>0, <2>0, <3>2 DEF InFlight
      <4>2. Ids(queue[w]) \in Seq(Id) /\ read[w] \in Seq(Id)
        BY Zenon, <1>0, IdsType
      <4>3. Append(read[w] \o Ids(queue[w]) \o <<>>, held.id) = read[w] \o Ids(queue[w]) \o <<held.id>>
        BY Zenon, <2>0, <4>2, FlightMoves
      <4> QED BY Zenon, <3>1, <4>1, <4>3
    <3>3. CASE w # held.to
      <4>1. routed'[w] = routed[w] /\ InFlight(w)' = <<>>
        BY Zenon, <1>0, <2>0, <3>3 DEF InFlight
      <4> QED BY Zenon, <3>1, <4>1
    <3> QED BY Zenon, <3>2, <3>3
  <2>5. Channels'
    BY Zenon, <1>0, <2>0, <2>4 DEF Channels
  <2> QED BY Zenon, <2>2, <2>3, <2>5
<1> QED BY Zenon, <1>1, <1>2

\* The packet in flight goes to the end of its worker's channel.
LEMMA SendStep ==
  ASSUME IndInv, Send
  PROVE  IndInv'
<1> USE DEF IndInv
<1>0. /\ dispatcher = "send" /\ held \in Packet /\ held.to \in Workers /\ held.id \in Id
      /\ held' = Nothing /\ Nothing \in Packet
      /\ UNCHANGED <<stateVars, inbox, view, routed, read, lateRouted, arrivals>>
      /\ routed \in [Workers -> Seq(Id)] /\ read \in [Workers -> Seq(Id)]
      /\ queue \in [Workers -> Seq(Packet)]
  BY Zenon, Packets DEF Send, TypeOK, Channels, Id
<1>1. CASE dispatcher' = "ended" /\ UNCHANGED queue
  <2>1. TypeOK'
    BY Zenon, <1>0, <1>1 DEF TypeOK, Stages, stateVars
  <2>2. Late'
    BY Zenon, <1>0, <1>1 DEF Late, stateVars
  <2> QED BY Zenon, <1>0, <1>1, <2>1, <2>2, QuietStep
<1>2. CASE /\ Len(queue[held.to]) < Capacity /\ dispatcher' = "check"
           /\ queue' = [queue EXCEPT ![held.to] = Append(@, held)]
  <2>1. queue' \in [Workers -> Seq(Packet)]
    BY <1>0, <1>2
  <2>2. ASSUME NEW w \in Workers PROVE Len(queue'[w]) <= Capacity
    <3>1. CASE w = held.to
      <4>1. queue'[w] = Append(queue[w], held) /\ queue[w] \in Seq(Packet)
        BY Zenon, <1>0, <1>2, <3>1
      <4>2. Len(queue'[w]) = Len(queue[w]) + 1 /\ Len(queue[w]) \in Nat
        BY <1>0, <4>1
      <4> QED BY <1>2, <3>1, <4>2, FallbackAssumption
    <3>2. CASE w # held.to
      BY Zenon, <1>0, <1>2, <3>2 DEF TypeOK
    <3> QED BY Zenon, <3>1, <3>2
  <2>3. TypeOK'
    BY Zenon, <1>0, <1>2, <2>1, <2>2 DEF TypeOK, Stages, stateVars
  <2>4. Late'
    BY Zenon, <1>0, <1>2 DEF Late, stateVars
  <2>5. ASSUME NEW w \in Workers, view[w] # "closed"
        PROVE  routed[w] = read[w] \o Ids(queue'[w]) \o <<>>
    <3>1. routed[w] = read[w] \o Ids(queue[w]) \o InFlight(w)
      BY SMTT(30), <1>0, <2>5 DEF Channels
    <3>2. CASE w = held.to
      <4>1. queue'[w] = Append(queue[w], held) /\ queue[w] \in Seq(Packet) /\ read[w] \in Seq(Id)
        BY Zenon, <1>0, <1>2, <3>2
      <4>2. InFlight(w) = <<held.id>>
        BY Zenon, <1>0, <3>2 DEF InFlight
      <4>3. Ids(queue'[w]) = Append(Ids(queue[w]), held.id) /\ Ids(queue[w]) \in Seq(Id)
        BY SMTT(30), <1>0, <4>1, IdsAppend, IdsType
      <4>4. read[w] \o Ids(queue[w]) \o <<held.id>> = read[w] \o Append(Ids(queue[w]), held.id) \o <<>>
        BY Zenon, <1>0, <4>1, <4>3, FlightMoves
      <4> QED BY Zenon, <3>1, <4>2, <4>3, <4>4
    <3>3. CASE w # held.to
      <4>1. queue'[w] = queue[w] /\ InFlight(w) = <<>>
        BY Zenon, <1>0, <1>2, <3>3 DEF InFlight
      <4> QED BY Zenon, <3>1, <4>1
    <3> QED BY Zenon, <3>2, <3>3
  <2>6. \A w \in Workers : InFlight(w)' = <<>>
    BY Zenon, <1>2 DEF InFlight
  <2>7. Channels'
    BY Zenon, <1>0, <1>2, <2>5, <2>6 DEF Channels
  <2> QED BY Zenon, <2>3, <2>4, <2>7
<1> QED BY Zenon, <1>1, <1>2 DEF Send

\* The callback reads the first packet of its channel.
LEMMA ReadStep ==
  ASSUME IndInv, NEW v \in Workers, CallbackReads(v)
  PROVE  IndInv'
<1> USE DEF IndInv
<1>0. /\ queue[v] # <<>> /\ queue' = [queue EXCEPT ![v] = Tail(@)]
      /\ read' = [read EXCEPT ![v] = Append(@, Head(queue[v]).id)]
      /\ UNCHANGED <<stateVars, dispatcher, held, inbox, view, routed, lateRouted, arrivals>>
      /\ read \in [Workers -> Seq(Id)] /\ queue \in [Workers -> Seq(Packet)]
  BY Zenon DEF CallbackReads, TypeOK, Id
<1>1. /\ queue[v] \in Seq(Packet) /\ read[v] \in Seq(Id)
      /\ Tail(queue[v]) \in Seq(Packet) /\ Len(Tail(queue[v])) = Len(queue[v]) - 1
      /\ Len(queue[v]) \in Nat
  BY <1>0
<1>2. /\ Append(read[v], Head(queue[v]).id) \in Seq(Id)
      /\ read[v] \o Ids(queue[v]) = Append(read[v], Head(queue[v]).id) \o Ids(Tail(queue[v]))
  BY Zenon, <1>0, <1>1, IdsRead
<1>3. read' \in [Workers -> Seq(Id)] /\ queue' \in [Workers -> Seq(Packet)]
  BY Zenon, <1>0, <1>1, <1>2
<1>4. ASSUME NEW w \in Workers PROVE Len(queue'[w]) <= Capacity
  <2>1. Len(queue[w]) <= Capacity /\ Capacity \in Nat
    BY Zenon, FallbackAssumption DEF TypeOK
  <2>2. CASE w = v
    BY <1>0, <1>1, <2>1, <2>2
  <2>3. CASE w # v
    BY Zenon, <1>0, <2>1, <2>3
  <2> QED BY Zenon, <2>2, <2>3
<1>5. TypeOK'
  BY Zenon, <1>0, <1>3, <1>4 DEF TypeOK, stateVars, Id
<1>6. ASSUME NEW w \in Workers PROVE read'[w] \o Ids(queue'[w]) = read[w] \o Ids(queue[w])
  <2>1. CASE w = v
    <3>1. read'[w] = Append(read[v], Head(queue[v]).id) /\ queue'[w] = Tail(queue[v])
      BY Zenon, <1>0, <2>1
    <3> QED BY Zenon, <1>2, <2>1, <3>1
  <2>2. CASE w # v
    <3>1. read'[w] = read[w] /\ queue'[w] = queue[w]
      BY Zenon, <1>0, <2>2
    <3> QED BY Zenon, <3>1
  <2> QED BY Zenon, <2>1, <2>2
<1>7. \A w \in Workers : InFlight(w)' = InFlight(w)
  BY Zenon, <1>0 DEF InFlight
<1>8. Channels'
  BY Zenon, <1>0, <1>6, <1>7 DEF Channels
<1>9. Late'
  BY Zenon, <1>0 DEF Late, stateVars
<1> QED BY Zenon, <1>5, <1>8, <1>9

\* A view is dropped with its channel; the dispatcher goes on or ends.
LEMMA CloseViewStep ==
  ASSUME IndInv, NEW v \in Workers, CloseView(v), UNCHANGED <<active, closing, inbox, routed, read, lateRouted, arrivals>>,
         runtimeActive' \in BOOLEAN, cancelled' \in BOOLEAN, stopped' \subseteq Workers,
         \/ UNCHANGED <<dispatcher, held>>
         \/ dispatcher' = "ended" /\ held' = Nothing
  PROVE  IndInv'
<1> USE DEF IndInv
<1>0. /\ view' = [view EXCEPT ![v] = "closed"] /\ queue' = [queue EXCEPT ![v] = <<>>]
      /\ view \in [Workers -> {"queued", "open", "closed"}] /\ queue \in [Workers -> Seq(Packet)]
  BY Zenon DEF CloseView, TypeOK
<1>1. queue' \in [Workers -> Seq(Packet)] /\ view' \in [Workers -> {"queued", "open", "closed"}]
  BY <1>0
<1>2. \A w \in Workers : Len(queue'[w]) <= Capacity
  BY <1>0, FallbackAssumption DEF TypeOK
<1>3. TypeOK'
  BY Zenon, <1>1, <1>2, Packets DEF TypeOK, Stages
<1>4. ASSUME NEW w \in Workers, view'[w] # "closed" PROVE view[w] # "closed" /\ queue'[w] = queue[w]
  BY Zenon, <1>0, <1>4
<1>5. Channels'
  <2>1. CASE dispatcher' = "ended"
    BY Zenon, <2>1 DEF Channels
  <2>2. CASE UNCHANGED <<dispatcher, held>>
    <3>1. \A w \in Workers : InFlight(w)' = InFlight(w)
      BY Zenon, <2>2 DEF InFlight
    <3> QED BY Zenon, <1>4, <2>2, <3>1 DEF Channels
  <2> QED BY Zenon, <2>1, <2>2
<1>6. Late'
  BY Zenon DEF Late
<1> QED BY Zenon, <1>3, <1>5, <1>6

\* A callback is first polled.
LEMMA CallbackStartsStep ==
  ASSUME IndInv, NEW v \in Workers, CallbackStarts(v)
  PROVE  IndInv'
<1> USE DEF IndInv
<1>0. /\ view' = [view EXCEPT ![v] = "open"] /\ view[v] = "queued"
      /\ view \in [Workers -> {"queued", "open", "closed"}]
      /\ UNCHANGED <<stateVars, dispatcher, held, inbox, queue, routed, read, lateRouted, arrivals>>
  BY Zenon DEF CallbackStarts, TypeOK
<1>1. TypeOK'
  BY Zenon, <1>0 DEF TypeOK, stateVars
<1>2. \A w \in Workers : view'[w] # "closed" => view[w] # "closed"
  BY Zenon, <1>0
<1>3. Channels'
  <2>1. \A w \in Workers : InFlight(w)' = InFlight(w)
    BY Zenon, <1>0 DEF InFlight
  <2> QED BY Zenon, <1>0, <1>2, <2>1 DEF Channels
<1>4. Late'
  BY Zenon, <1>0 DEF Late, stateVars
<1> QED BY Zenon, <1>1, <1>3, <1>4

\* The dispatcher's other steps.
LEMMA LoopStep ==
  ASSUME IndInv, Start \/ Check \/ Receive \/ ReceiveError \/ ExecuteCancel
  PROVE  IndInv'
<1> USE DEF IndInv
<1>1. CASE Start \/ Check \/ ReceiveError
  <2>0. /\ UNCHANGED <<stateVars, held, inbox, view, queue, routed, read, lateRouted, arrivals>>
        /\ dispatcher \in {"queued", "check", "recv"} /\ dispatcher' \in {"check", "recv", "ended"}
        /\ (dispatcher' = "recv" => active)
    BY Zenon, <1>1 DEF Start, Check, ReceiveError
  <2>1. TypeOK' /\ Late'
    BY <2>0 DEF TypeOK, Stages, stateVars, Late
  <2> QED BY Zenon, <2>0, <2>1, QuietStep
<1>2. CASE Receive
  <2>0. /\ inbox \in Seq(Packet) /\ inbox # <<>> /\ held' = Head(inbox) /\ inbox' = Tail(inbox)
        /\ dispatcher = "recv" /\ dispatcher' = "received"
        /\ UNCHANGED <<stateVars, view, queue, routed, read, lateRouted, arrivals>>
    BY Zenon, <1>2 DEF Receive, TypeOK
  <2>1. Head(inbox) \in Packet /\ Tail(inbox) \in Seq(Packet)
    BY <2>0
  <2>2. TypeOK' /\ Late'
    BY Zenon, <2>0, <2>1 DEF TypeOK, Stages, stateVars, Late
  <2> QED BY Zenon, <2>0, <2>2, QuietStep
<1>3. CASE ExecuteCancel
  <2>1. TypeOK' /\ Late'
    BY Zenon, <1>3, Packets DEF ExecuteCancel, TypeOK, Stages, Late
  <2> QED BY Zenon, <1>3, <2>1, QuietStep DEF ExecuteCancel
<1> QED BY Zenon, <1>1, <1>2, <1>3

\* close(), the drop of the runtime, arrivals.
LEMMA OutsideStep ==
  ASSUME IndInv, CloseBegin \/ CloseSockets \/ CloseTasks \/ DropRuntime \/ Arrive
  PROVE  IndInv'
<1> USE DEF IndInv
<1>0. /\ inbox \in Seq(Packet) /\ arrivals \in 0 .. MaxArrivals /\ MaxArrivals \in Nat
      /\ UNCHANGED <<dispatcher, held, view, queue, routed, read, lateRouted, stopped>>
  BY Zenon, FallbackAssumption DEF CloseBegin, CloseSockets, CloseTasks, DropRuntime, Arrive, TypeOK, stateVars
<1>1. inbox' \in Seq(Packet)
  <2>1. CASE UNCHANGED inbox
    BY Zenon, <1>0, <2>1
  <2>2. ASSUME NEW w \in 0 .. NumWorkers, inbox' = Append(inbox, [id |-> 0, to |-> w])
        PROVE  inbox' \in Seq(Packet)
    <3>1. [id |-> 0, to |-> w] \in Packet
      BY <1>0 DEF Packet
    <3> QED BY <1>0, <2>2, <3>1
  <2>3. ASSUME NEW w \in 0 .. NumWorkers, arrivals < MaxArrivals,
               inbox' = Append(inbox, [id |-> arrivals + 1, to |-> w])
        PROVE  inbox' \in Seq(Packet)
    <3>1. [id |-> arrivals + 1, to |-> w] \in Packet
      BY <1>0, <2>3 DEF Packet
    <3> QED BY <1>0, <2>3, <3>1
  <2> QED BY Zenon, <2>1, <2>2, <2>3 DEF CloseBegin, CloseSockets, CloseTasks, DropRuntime, Arrive
<1>2. /\ active' \in BOOLEAN /\ runtimeActive' \in BOOLEAN /\ cancelled' \in BOOLEAN
      /\ closing' \in {"no", "sockets", "tasks", "closed"} /\ (active' => active)
  <2> USE DEF TypeOK
  <2>1. CASE CloseBegin
    BY Zenon, <2>1 DEF CloseBegin
  <2>2. CASE CloseSockets
    BY Zenon, <2>2 DEF CloseSockets
  <2>3. CASE CloseTasks
    BY Zenon, <2>3 DEF CloseTasks
  <2>4. CASE DropRuntime
    BY Zenon, <2>4 DEF DropRuntime
  <2>5. CASE Arrive
    BY Zenon, <2>5 DEF Arrive, stateVars
  <2> QED BY Zenon, <2>1, <2>2, <2>3, <2>4, <2>5
<1>3. arrivals' \in 0 .. MaxArrivals
  BY <1>0 DEF CloseBegin, CloseSockets, CloseTasks, DropRuntime, Arrive
<1>4. TypeOK'
  BY Zenon, <1>0, <1>1, <1>2, <1>3 DEF TypeOK
<1>5. Late'
  BY Zenon, <1>0, <1>2 DEF Late
<1> QED BY Zenon, <1>0, <1>4, <1>5, QuietStep

\* IndInv is inductive: one step per action.
LEMMA StepKeeps ==
  ASSUME IndInv, [Next]_vars
  PROVE  IndInv'
<1> USE DEF IndInv
<1>1. CASE DispatcherStep \/ ReceiveError \/ ExecuteCancel
  BY Zenon, <1>1, LoopStep, RouteStep, SendStep DEF DispatcherStep
<1>2. ASSUME NEW w \in Workers, CallbackStep(w) \/ CallbackReturns(w)
      PROVE  IndInv'
  <2>1. CASE CallbackSeesEnd(w) \/ CallbackReturns(w)
    BY Zenon, <2>1, CloseViewStep DEF CallbackSeesEnd, CallbackReturns, stateVars, TypeOK
  <2> QED BY Zenon, <1>2, <2>1, CallbackStartsStep, ReadStep DEF CallbackStep
<1>3. ASSUME NEW w \in Workers, StopWorker(w)
      PROVE  IndInv'
  BY Zenon, <1>3, CloseViewStep DEF StopWorker, TypeOK
<1>4. CASE CloseBegin \/ CloseStep \/ DropRuntime \/ Arrive
  BY Zenon, <1>4, OutsideStep DEF CloseStep
<1>5. CASE UNCHANGED vars
  <2>1. TypeOK' /\ Late'
    BY Zenon, <1>5 DEF vars, stateVars, TypeOK, Late
  <2> QED BY Zenon, <1>5, <2>1, QuietStep DEF vars
<1> QED BY Zenon, <1>1, <1>2, <1>3, <1>4, <1>5 DEF Next

\* Nothing is routed, read or waiting at the start.
LEMMA InitKeeps ==
  ASSUME Init
  PROVE  IndInv
<1>1. TypeOK
  <2>1. queue \in [Workers -> Seq(Packet)] /\ \A w \in Workers : Len(queue[w]) <= Capacity
    BY FallbackAssumption DEF Init
  <2>2. routed \in [Workers -> Seq(0 .. MaxArrivals)] /\ read \in [Workers -> Seq(0 .. MaxArrivals)]
    BY DEF Init
  <2>3. inbox \in Seq(Packet) /\ held \in Packet
    BY Packets DEF Init
  <2>4. arrivals \in 0 .. MaxArrivals /\ lateRouted \in Nat
    BY FallbackAssumption DEF Init
  <2>5. view \in [Workers -> {"queued", "open", "closed"}] /\ stopped \subseteq Workers
    BY Zenon DEF Init
  <2>6. /\ active \in BOOLEAN /\ runtimeActive \in BOOLEAN /\ cancelled \in BOOLEAN
        /\ closing \in {"no", "sockets", "tasks", "closed"} /\ dispatcher \in Stages
    BY Zenon DEF Init, Stages
  <2> QED BY Zenon, <2>1, <2>2, <2>3, <2>4, <2>5, <2>6 DEF TypeOK
<1>2. ASSUME NEW w \in Workers PROVE routed[w] = read[w] \o Ids(queue[w]) \o InFlight(w)
  <2>1. routed[w] = <<>> /\ read[w] = <<>> /\ queue[w] = <<>> /\ InFlight(w) = <<>>
    BY Zenon DEF Init, InFlight
  <2>2. <<>> \in Seq(Packet) /\ Len(<<>>) = 0 /\ <<>> \in Seq(Id)
    OBVIOUS
  <2>3. Ids(<<>>) \in Seq(Id) /\ Len(Ids(<<>>)) = 0
    BY Zenon, <2>2, IdsType
  <2>4. Ids(<<>>) = <<>>
    BY <2>3
  <2> QED BY Zenon, <2>1, <2>2, <2>4, ConcatEmptySeq
<1>3. Channels /\ Late
  BY <1>2 DEF Init, Channels, Late
<1> QED BY Zenon, <1>1, <1>3 DEF IndInv

-----------------------------------------------------------------------------
\* The inductive invariant holds in every reachable state.
THEOREM Invariance == Spec => []IndInv
BY InitKeeps, StepKeeps, PTL DEF Spec

\* Full channels delay packets and lose or reorder none (send_routed_packet,
\* RoutedUdpSocket::recv_packet).
THEOREM RoutedNeverDroppedHolds == Spec => []RoutedNeverDropped
<1>1. IndInv => RoutedNeverDropped
  BY Zenon DEF IndInv, Channels, RoutedNeverDropped
<1> QED BY <1>1, Invariance, PTL

\* At most one packet is routed after close() has begun
\* (dispatch_socket_only_packets tests the flag once per iteration).
THEOREM AtMostOneLateDeliveryHolds == Spec => []AtMostOneLateDelivery
<1>1. IndInv => AtMostOneLateDelivery
  BY DEF IndInv, Late, AtMostOneLateDelivery
<1> QED BY <1>1, Invariance, PTL
=============================================================================

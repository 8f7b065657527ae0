-------------------------- MODULE ServiceBindProofs --------------------------
(***************************************************************************)
(* The safety properties of ServiceBind for any number of workers and      *)
(* client datagrams.                                                       *)
(***************************************************************************)
EXTENDS ServiceBind, SequenceTheorems, FiniteSetTheorems, TLAPS

Socket == [port : Ports, options : SUBSET Options, queue : Seq(Packet)]

\* t is s with the queue of socket i replaced by q.
Requeued(s, t, i, q) == /\ t \in Seq(Socket) /\ Len(t) = Len(s)
                        /\ t[i].queue = q /\ t[i].port = s[i].port /\ t[i].options = s[i].options
                        /\ \A k \in 1..Len(s) : k # i => t[k] = s[k]

-----------------------------------------------------------------------------
(* Sequences of sockets.                                                   *)

\* The first element of a sequence.
LEMMA FirstOf ==
  ASSUME NEW S, NEW s \in Seq(S), s # <<>>
  PROVE  s[1] \in S /\ s[1] = Head(s) /\ 1 \in 1..Len(s)
  OBVIOUS

\* The queue of a socket is a sequence of packets.
LEMMA QueueType ==
  ASSUME NEW s \in Seq(Socket), NEW i \in 1..Len(s)
  PROVE  s[i].queue \in Seq(Packet) /\ s[i].port \in Ports /\ s[i].options \in SUBSET Options
<1>1. s[i] \in Socket
  OBVIOUS
<1> QED BY Zenon, <1>1 DEF Socket

\* Replacing one queue.
LEMMA Requeue ==
  ASSUME NEW s \in Seq(Socket), NEW i \in 1..Len(s), NEW q \in Seq(Packet)
  PROVE  Requeued(s, [s EXCEPT ![i].queue = q], i, q)
<1> DEFINE e == [s[i] EXCEPT !.queue = q]
           t == [s EXCEPT ![i] = e]
<1>1. s[i] \in Socket
  OBVIOUS
<1>2. e \in Socket /\ e.queue = q /\ e.port = s[i].port /\ e.options = s[i].options
  BY Zenon, <1>1 DEF Socket
<1>3. t \in Seq(Socket) /\ Len(t) = Len(s) /\ t[i] = e /\ \A k \in 1..Len(s) : k # i => t[k] = s[k]
  BY <1>2, ExceptSeq
<1>4. [s EXCEPT ![i].queue = q] = t
  BY Zenon
<1> QED BY Zenon, <1>2, <1>3, <1>4 DEF Requeued

\* A datagram goes to the end of the queue of one socket on its port.
LEMMA ArrivesSomewhere ==
  ASSUME sockets \in Seq(Socket), NEW port, NEW packet \in Packet, NEW h, Arrives(port, packet, h)
  PROVE  \/ sockets' = sockets
         \/ \E i \in 1..Len(sockets) :
              Requeued(sockets, sockets', i, Append(sockets[i].queue, packet))
<1> DEFINE hosts == {i \in DOMAIN sockets : sockets[i].port = port}
           host == CHOOSE i \in hosts :
                     Selects(packet.worker, h) \in hosts => i = Selects(packet.worker, h)
<1>1. CASE hosts = {}
  BY Zenon, <1>1 DEF Arrives
<1>2. CASE hosts # {}
  <2>1. \E i \in hosts : Selects(packet.worker, h) \in hosts => i = Selects(packet.worker, h)
    BY Zenon, <1>2
  <2>2. host \in hosts
    BY Zenon, <2>1
  <2>3. host \in 1..Len(sockets)
    BY <2>2
  <2>4. sockets' = [sockets EXCEPT ![host].queue = Append(sockets[host].queue, packet)]
    BY Zenon, <1>2, <2>3 DEF Arrives
  <2>5. Append(sockets[host].queue, packet) \in Seq(Packet)
    BY Zenon, <2>3, QueueType, AppendProperties
  <2> HIDE DEF hosts, host
  <2> QED BY Zenon, <2>3, <2>4, <2>5, Requeue
<1> QED BY Zenon, <1>1, <1>2

\* In a group on one port it is the socket the kernel selects.
LEMMA ArrivesSelected ==
  ASSUME sockets \in Seq(Socket), NEW packet \in Packet, NEW h,
         Selects(packet.worker, h) \in 1..Len(sockets),
         \A i \in DOMAIN sockets : sockets[i].port = sockets[1].port,
         Arrives(sockets[1].port, packet, h)
  PROVE  Requeued(sockets, sockets', Selects(packet.worker, h),
                  Append(sockets[Selects(packet.worker, h)].queue, packet))
<1> DEFINE sel == Selects(packet.worker, h)
           hosts == {i \in DOMAIN sockets : sockets[i].port = sockets[1].port}
           host == CHOOSE i \in hosts : sel \in hosts => i = sel
<1>1. sel \in hosts
  OBVIOUS
<1>2. host = sel
  BY Zenon, <1>1
<1>3. sockets' = [sockets EXCEPT ![sel].queue = Append(sockets[sel].queue, packet)]
  BY Zenon, <1>1, <1>2 DEF Arrives
<1>4. Append(sockets[sel].queue, packet) \in Seq(Packet)
  BY Zenon, QueueType, AppendProperties
<1> HIDE DEF sel
<1> QED BY Zenon, <1>3, <1>4, Requeue DEF sel

-----------------------------------------------------------------------------
(* The path from the choice to the tasks.                                  *)

AtGroup == {"ebpf", "cbpf", "probe", "drain"}

Paths ==
  /\ pc = "choose" => mode = "native" /\ sockets = <<>> /\ inFlight = <<>> /\ program = "none"
  /\ pc \in AtGroup => mode = "selector"
  /\ pc \in AtGroup \cup {"submit", "serving"} => Len(sockets) = Target
  /\ mode = "simulated" => Len(sockets) <= 1 /\ program = "none"
  /\ pc = "probe" => probe.expected \in Workers
  /\ pc \notin {"submit", "serving", "error"} => submitted = 0
  /\ pc = "error" => \/ sockets = <<>> /\ submitted = 0
                     \/ mode = "simulated" /\ conf.callback /\ submitted \in 1..(NumWorkers - 1)
  /\ (pc # "choose" /\ conf.kind = "quic") => mode # "native"

Group ==
  /\ mode = "selector" => \A i \in 1..Len(sockets) : sockets[i].port = sockets[1].port
  /\ (mode = "native" /\ conf.port = "fixed") => \A i \in 1..Len(sockets) : sockets[i].port = FixedPort
  /\ conf.transparent = "required" => \A i \in 1..Len(sockets) : sockets[i].options = Options

Base == TypeOK /\ Paths /\ Group

\* The scans start at a worker of the group.
LEMMA NoProbeType ==
  /\ 1 \in Workers
  /\ NoProbe \in [expected : 0..NumWorkers, sent : BOOLEAN, at : Workers, expired : BOOLEAN]
  /\ [NoProbe EXCEPT !.expected = 1]
        \in [expected : 0..NumWorkers, sent : BOOLEAN, at : Workers, expired : BOOLEAN]
  /\ [NoProbe EXCEPT !.expected = 1].expected = 1
<1>1. 1 \in Workers /\ 0 \in 0..NumWorkers /\ 1 \in 0..NumWorkers
  BY WorkersAssumption DEF Workers
<1> QED BY Zenon, <1>1 DEF NoProbe

\* The first state.
LEMMA BaseInit == Init => Base
<1> SUFFICES ASSUME Init PROVE Base
  BY Zenon
<1>1. TypeOK
  <2>1. sockets \in Seq(Socket) /\ Len(sockets) = 0 /\ inFlight \in Seq([port : Ports, packet : Packet])
        /\ Len(inFlight) = 0
    BY Zenon, EmptySeq DEF Init
  <2>2. /\ Len(sockets) <= NumWorkers /\ Len(inFlight) <= 1
        /\ drainAt \in 1..(NumWorkers + 1) /\ submitted \in 0..(NumWorkers + 1)
        /\ packets \in 0..MaxPackets
    BY <2>1, WorkersAssumption, PacketsAssumption DEF Init
  <2>3. /\ conf \in Config /\ flow \in Workers /\ pc = "choose" /\ mode = "native"
        /\ program = "none" /\ honoured \in BOOLEAN /\ foreign \in BOOLEAN /\ probe = NoProbe
    BY ConfigsAssumption, Zenon DEF Init
  <2> QED BY Zenon, <2>1, <2>2, <2>3, NoProbeType DEF TypeOK, Socket
<1>2. Paths
  BY Zenon DEF Init, Paths, AtGroup
<1>3. Group
  BY EmptySeq DEF Init, Group
<1> QED BY Zenon, <1>1, <1>2, <1>3 DEF Base

\* A step that leaves the sockets as they are, apart from one queue.
LEMMA GroupRequeued ==
  ASSUME sockets \in Seq(Socket), Group, UNCHANGED <<conf, mode>>, NEW i \in 1..Len(sockets), NEW q,
         Requeued(sockets, sockets', i, q)
  PROVE  Group'
<1>1. /\ Len(sockets') = Len(sockets)
      /\ \A k \in 1..Len(sockets) : /\ sockets'[k].port = sockets[k].port
                                    /\ sockets'[k].options = sockets[k].options
  BY Zenon DEF Requeued
<1>2. Len(sockets) \in Nat /\ (i \in 1..Len(sockets) => 1 \in 1..Len(sockets))
  BY LenProperties
<1>3. \A k \in 1..Len(sockets) : 1 \in 1..Len(sockets)
  BY Zenon, <1>2
<1> QED BY Zenon, <1>1, <1>3 DEF Group

\* Giving the group up, for the userspace path or with an error.
LEMMA CloseKeepsBase ==
  ASSUME Base, CloseAll, UNCHANGED <<conf, flow, submitted, packets, foreign>>,
         pc \in AtGroup \cup {"bind"},
         \/ pc' = "bind" /\ mode' = "simulated"
         \/ pc' = "error" /\ mode' = mode
  PROVE  Base'
<1> USE DEF CloseAll
<1>1. TypeOK'
  <2>1. sockets' \in Seq(Socket) /\ Len(sockets') = 0 /\ Len(sockets') <= NumWorkers
    BY EmptySeq, WorkersAssumption
  <2>2. drainAt' \in 1..(NumWorkers + 1)
    BY WorkersAssumption
  <2> QED BY Zenon, <2>1, <2>2, NoProbeType DEF Base, TypeOK, Socket
<1>2. Paths'
  BY EmptySeq DEF Base, Paths, AtGroup
<1>3. Group'
  BY EmptySeq DEF Group
<1> QED BY Zenon, <1>1, <1>2, <1>3 DEF Base

\* The steps that fail.
LEMMA FailuresKeepBase ==
  ASSUME Base, \/ BindFails \/ LocalAddrFails \/ CbpfFails \/ ProbeFails \/ ScanMiss \/ ProbeTimeout
  PROVE  Base'
<1>1. /\ CloseAll /\ UNCHANGED <<conf, flow, submitted, packets, foreign>>
      /\ pc \in AtGroup \cup {"bind"}
      /\ \/ pc' = "bind" /\ mode' = "simulated"
         \/ pc' = "error" /\ mode' = mode
  BY Zenon DEF BindFails, LocalAddrFails, CbpfFails, ProbeFails, ScanMiss, ProbeTimeout, GiveUp, Scanning,
            AtGroup
<1> QED BY Zenon, <1>1, CloseKeepsBase

\* bind_tcp(), bind_udp(): one more socket.
LEMMA BindKeepsBase ==
  ASSUME Base, Bind
  PROVE  Base'
<1> USE DEF Bind, kernelVars, probeVars
<1> PICK options \in TransparentOutcomes, port \in BindPorts :
         sockets' = Append(sockets, [port |-> port, options |-> options, queue |-> <<>>])
  BY Zenon
<1> DEFINE new == [port |-> port, options |-> options, queue |-> <<>>]
<1>0. sockets \in Seq(Socket) /\ Len(sockets) \in Nat /\ Target \in Workers
  BY LenProperties, WorkersAssumption DEF Base, TypeOK, Socket, Target, Workers
<1>1. port \in Ports
  <2>1. CASE mode = "selector" /\ sockets # <<>>
    <3>1. 1 \in 1..Len(sockets)
      BY <1>0, <2>1, EmptySeq
    <3>2. port = sockets[1].port
      BY Zenon, <2>1 DEF BindPorts
    <3> QED BY Zenon, <1>0, <3>1, <3>2, QueueType
  <2>2. CASE ~(mode = "selector" /\ sockets # <<>>)
    <3>1. FixedPort \in Ports
      BY WorkersAssumption DEF FixedPort, Ports
    <3>2. conf.port \in {"fixed", "any"}
      BY Zenon DEF Base, TypeOK, Config
    <3> QED BY Zenon, <2>2, <3>1, <3>2 DEF BindPorts
  <2> QED BY Zenon, <2>1, <2>2
<1>2. options \subseteq Options /\ (conf.transparent = "required" => options = Options)
  <2>1. conf.transparent \in {"disabled", "best_effort", "required"}
    BY Zenon DEF Base, TypeOK, Config
  <2> QED BY Zenon, <2>1 DEF TransparentOutcomes
<1>3. new \in Socket
  BY Zenon, <1>1, <1>2, EmptySeq DEF Socket
<1>4. /\ sockets' \in Seq(Socket) /\ Len(sockets') = Len(sockets) + 1
      /\ \A i \in 1..Len(sockets) : sockets'[i] = sockets[i]
      /\ sockets'[Len(sockets) + 1] = new
  BY <1>0, <1>3, AppendProperties
<1>5. TypeOK'
  <2>1. Len(sockets') <= NumWorkers
    BY <1>0, <1>4, WorkersAssumption DEF Workers
  <2> QED BY Zenon, <1>4, <2>1 DEF Base, TypeOK, Socket
<1>6. Paths'
  <2>1. mode = "simulated" => Len(sockets') <= 1
    BY <1>0, <1>4 DEF Target
  <2> QED BY Zenon, <2>1 DEF Base, Paths, AtGroup
<1>7. Group'
  <2>1. ASSUME NEW i \in 1..Len(sockets') PROVE i \in 1..Len(sockets) \/ (i = Len(sockets) + 1 /\ sockets'[i] = new)
    BY <1>0, <1>4
  <2>2. ASSUME mode = "selector" PROVE \A i \in 1..Len(sockets') : sockets'[i].port = sockets'[1].port
    <3>1. CASE sockets = <<>>
      BY <1>0, <1>4, <3>1, EmptySeq
    <3>2. CASE sockets # <<>>
      <4>1. 1 \in 1..Len(sockets)
        BY <1>0, <3>2, EmptySeq
      <4>2. port = sockets[1].port
        BY Zenon, <2>2, <3>2 DEF BindPorts
      <4> QED BY <1>4, <2>1, <2>2, <4>1, <4>2 DEF Base, Group
    <3> QED BY Zenon, <3>1, <3>2
  <2>3. ASSUME mode = "native", conf.port = "fixed" PROVE port = FixedPort
    BY Zenon, <2>3 DEF BindPorts
  <2> QED BY <1>2, <1>4, <2>1, <2>2, <2>3 DEF Base, Group
<1> QED BY Zenon, <1>5, <1>6, <1>7 DEF Base

\* Steps of serve() that leave the sockets alone.
LEMMA ProgressKeepsBase ==
  ASSUME Base, \/ Choose \/ BindDone \/ AttachEbpf \/ EbpfFails \/ AttachCbpf \/ ProbeSend \/ ScanEmpty
               \/ Deadline \/ DrainNext \/ DrainDone \/ Submit \/ TakePort
  PROVE  Base'
<1> USE DEF kernelVars, probeVars
<1>1. Group'
  <2>1. UNCHANGED <<conf, sockets>>
    BY Zenon DEF Choose, BindDone, AttachEbpf, EbpfFails, AttachCbpf, ProbeSend, ScanEmpty, Deadline, DrainNext,
           DrainDone, Submit, TakePort
  <2>2. CASE Choose
    BY <2>1, <2>2, EmptySeq DEF Base, Paths, Group, Choose
  <2>3. CASE ~Choose
    <3>1. UNCHANGED mode
      BY Zenon, <2>3 DEF BindDone, AttachEbpf, EbpfFails, AttachCbpf, ProbeSend, ScanEmpty, Deadline, DrainNext,
           DrainDone, Submit, TakePort
    <3> QED BY Zenon, <2>1, <3>1 DEF Base, Group
  <2> QED BY Zenon, <2>2, <2>3
<1>2. CASE Choose
  <2> USE <1>2 DEF Choose
  <2>1. TypeOK'
    BY Zenon DEF Base, TypeOK
  <2>2. Paths'
    BY EmptySeq DEF Base, Paths, AtGroup
  <2> QED BY Zenon, <1>1, <2>1, <2>2 DEF Base
<1>3. CASE BindDone \/ EbpfFails \/ DrainDone \/ TakePort
  <2> USE <1>3 DEF BindDone, EbpfFails, DrainDone, TakePort
  <2>1. TypeOK'
    BY ZenonT(30) DEF Base, TypeOK
  <2>2. Paths'
    BY Zenon DEF Base, Paths, AtGroup, Target
  <2> QED BY Zenon, <1>1, <2>1, <2>2 DEF Base
<1>4. CASE AttachEbpf \/ AttachCbpf
  <2> USE <1>4 DEF AttachEbpf, AttachCbpf, Attach
  <2>1. TypeOK'
    BY SMTT(30), NoProbeType DEF Base, TypeOK
  <2>2. Paths'
    BY Zenon, NoProbeType DEF Base, Paths, AtGroup, Target
  <2> QED BY Zenon, <1>1, <2>1, <2>2 DEF Base
<1>5. CASE ProbeSend
  <2> USE <1>5 DEF ProbeSend
  <2>1. probe.expected \in Workers /\ Len(sockets) = NumWorkers /\ sockets \in Seq(Socket)
    BY Zenon DEF Base, TypeOK, Socket, Paths, AtGroup, Target
  <2>2. sockets[1].port \in Ports
    <3>1. 1 \in 1..Len(sockets)
      BY <2>1, WorkersAssumption
    <3> QED BY Zenon, <2>1, <3>1, QueueType
  <2>3. [port |-> sockets[1].port, packet |-> ProbePacket] \in [port : Ports, packet : Packet]
    BY Zenon, <2>1, <2>2 DEF ProbePacket, Packet
  <2>4. inFlight' \in Seq([port : Ports, packet : Packet]) /\ Len(inFlight') <= 1
    BY <2>3
  <2>5. probe' \in [expected : 0..NumWorkers, sent : BOOLEAN, at : Workers, expired : BOOLEAN]
        /\ probe'.expected = probe.expected
    BY Zenon DEF Base, TypeOK
  <2>6. TypeOK'
    BY Zenon, <2>4, <2>5 DEF Base, TypeOK
  <2>7. Paths'
    BY Zenon, <2>5 DEF Base, Paths, AtGroup, Target
  <2> QED BY Zenon, <1>1, <2>6, <2>7 DEF Base
<1>6. CASE ScanEmpty \/ Deadline
  <2> USE <1>6 DEF ScanEmpty, Deadline, Scanning
  <2>1. 1 \in Workers /\ (probe.at # NumWorkers => probe.at + 1 \in Workers)
    BY WorkersAssumption DEF Base, TypeOK, Workers
  <2>2. probe' \in [expected : 0..NumWorkers, sent : BOOLEAN, at : Workers, expired : BOOLEAN]
        /\ probe'.expected = probe.expected
    BY Zenon, <2>1 DEF Base, TypeOK
  <2>3. TypeOK'
    BY Zenon, <2>2 DEF Base, TypeOK
  <2>4. Paths'
    BY Zenon, <2>2 DEF Base, Paths, AtGroup, Target
  <2> QED BY Zenon, <1>1, <2>3, <2>4 DEF Base
<1>7. CASE DrainNext
  <2> USE <1>7 DEF DrainNext
  <2>1. drainAt' \in 1..(NumWorkers + 1)
    BY SMTT(30), WorkersAssumption DEF Base, TypeOK
  <2>2. TypeOK'
    BY Zenon, <2>1 DEF Base, TypeOK
  <2>3. Paths'
    BY Zenon DEF Base, Paths, AtGroup, Target
  <2> QED BY Zenon, <1>1, <2>2, <2>3 DEF Base
<1>8. CASE Submit
  <2> USE <1>8 DEF Submit
  <2>1. submitted' \in 0..(NumWorkers + 1)
    BY WorkersAssumption, LenProperties DEF Base, TypeOK, Tasks
  <2>2. TypeOK'
    BY Zenon, <2>1 DEF Base, TypeOK
  <2>3. Paths'
    BY Zenon DEF Base, Paths, AtGroup, Target
  <2> QED BY Zenon, <1>1, <2>2, <2>3 DEF Base
<1> QED BY Zenon, <1>2, <1>3, <1>4, <1>5, <1>6, <1>7, <1>8

\* serve_socket fails between the callbacks of two workers.
LEMMA CloneKeepsBase ==
  ASSUME Base, CloneFails
  PROVE  Base'
<1> USE DEF CloneFails, kernelVars, probeVars
<1>1. \/ sockets' = <<>> /\ submitted = 0
      \/ sockets' = sockets /\ submitted \in 1..(NumWorkers - 1)
  BY WorkersAssumption DEF Base, TypeOK
<1>2. TypeOK'
  <2>1. sockets' \in Seq(Socket) /\ Len(sockets') <= NumWorkers
    BY <1>1, EmptySeq, WorkersAssumption DEF Base, TypeOK, Socket
  <2> QED BY Zenon, <2>1 DEF Base, TypeOK, Socket
<1>3. Paths'
  BY <1>1, EmptySeq DEF Base, Paths, AtGroup
<1>4. Group'
  BY <1>1, EmptySeq DEF Base, Group
<1> QED BY Zenon, <1>2, <1>3, <1>4 DEF Base

\* Where the queue steps look: a socket of the group.
LEMMA ScanInGroup ==
  ASSUME Base
  PROVE  /\ sockets \in Seq(Socket) /\ Len(sockets) \in Nat
         /\ pc = "probe" => probe.at \in 1..Len(sockets) /\ probe.expected \in 1..Len(sockets)
         /\ pc \in AtGroup => Len(sockets) = NumWorkers
  BY Zenon, LenProperties DEF Base, TypeOK, Socket, Paths, AtGroup, Target, Workers

\* A step that only changes one queue, or none.
LEMMA RequeueKeepsBase ==
  ASSUME Base, UNCHANGED <<conf, flow, pc, mode, kernelVars, submitted>>,
         UNCHANGED <<probe, drainAt, foreign>>,
         inFlight' \in Seq([port : Ports, packet : Packet]), Len(inFlight') <= 1,
         packets' \in 0..MaxPackets,
         \/ sockets' = sockets /\ (pc = "choose" => inFlight' = <<>>)
         \/ \E i \in 1..Len(sockets), q \in Seq(Packet) : Requeued(sockets, sockets', i, q)
  PROVE  Base'
<1> USE DEF kernelVars
<1>1. CASE sockets' = sockets /\ (pc = "choose" => inFlight' = <<>>)
  BY <1>1 DEF Base, TypeOK, Paths, Group, AtGroup, Target
<1>2. ASSUME NEW i \in 1..Len(sockets), NEW q \in Seq(Packet), Requeued(sockets, sockets', i, q)
      PROVE  Base'
  <2>1. sockets' \in Seq(Socket) /\ Len(sockets') = Len(sockets)
    BY Zenon, <1>2 DEF Requeued
  <2>2. sockets # <<>>
    BY <1>2, EmptySeq
  <2>3. TypeOK'
    BY <2>1 DEF Base, TypeOK, Socket
  <2>4. Paths'
    BY Zenon, <2>1, <2>2 DEF Base, Paths, AtGroup, Target
  <2>5. Group'
    BY Zenon, <1>2, ScanInGroup, GroupRequeued DEF Base
  <2> QED BY Zenon, <2>3, <2>4, <2>5 DEF Base
<1> QED BY Zenon, <1>1, <1>2

\* Arrivals and the drain.
LEMMA QueuesKeepBase ==
  ASSUME Base, ProbeArrives \/ DrainOne \/ (\E w \in Workers : ClientSends(w))
  PROVE  Base'
<1>0. sockets \in Seq(Socket)
  BY Zenon, ScanInGroup
<1>1. CASE ProbeArrives
  <2> USE <1>1 DEF ProbeArrives, kernelVars
  <2>1. inFlight[1].packet \in Packet /\ inFlight' = <<>>
    <3>1. inFlight \in Seq([port : Ports, packet : Packet]) /\ inFlight # <<>>
      BY Zenon DEF Base, TypeOK
    <3>2. inFlight[1] \in [port : Ports, packet : Packet]
      BY Zenon, <3>1, FirstOf
    <3> QED BY Zenon, <3>2
  <2>2. \/ sockets' = sockets
        \/ \E i \in 1..Len(sockets) : Requeued(sockets, sockets', i, Append(sockets[i].queue, inFlight[1].packet))
    BY Zenon, <1>0, <2>1, ArrivesSomewhere
  <2>3. \A i \in 1..Len(sockets) : Append(sockets[i].queue, inFlight[1].packet) \in Seq(Packet)
    BY Zenon, <1>0, <2>1, QueueType, AppendProperties
  <2>4. inFlight' \in Seq([port : Ports, packet : Packet]) /\ Len(inFlight') <= 1
    BY <2>1, EmptySeq
  <2>5. packets' \in 0..MaxPackets
    BY Zenon DEF Base, TypeOK
  <2> QED BY Zenon, <2>1, <2>2, <2>3, <2>4, <2>5, RequeueKeepsBase
<1>2. CASE DrainOne
  <2> USE <1>2 DEF DrainOne, kernelVars, probeVars
  <2>1. drainAt \in 1..Len(sockets)
    BY ScanInGroup DEF AtGroup, Base, TypeOK
  <2>2. Tail(sockets[drainAt].queue) \in Seq(Packet)
    BY Zenon, <1>0, <2>1, QueueType, HeadTailProperties
  <2>3. sockets' = [sockets EXCEPT ![drainAt].queue = Tail(sockets[drainAt].queue)]
    BY Zenon, <1>0, <2>1
  <2>4. Requeued(sockets, sockets', drainAt, Tail(sockets[drainAt].queue))
    BY ZenonT(30), <1>0, <2>1, <2>2, <2>3, Requeue
  <2>5. /\ inFlight' \in Seq([port : Ports, packet : Packet]) /\ Len(inFlight') <= 1
        /\ packets' \in 0..MaxPackets
    BY Zenon DEF Base, TypeOK
  <2> QED BY Zenon, <2>1, <2>2, <2>4, <2>5, RequeueKeepsBase
<1>3. ASSUME NEW w \in Workers, ClientSends(w) PROVE Base'
  <2> USE <1>3 DEF ClientSends, kernelVars, probeVars
  <2> DEFINE packet == [kind |-> "client", worker |-> w]
  <2>1. packet \in Packet
    BY Zenon DEF Packet
  <2>2. PICK h \in DOMAIN sockets : Arrives(sockets[1].port, packet, h)
    BY Zenon
  <2>3. \/ sockets' = sockets
        \/ \E i \in 1..Len(sockets) : Requeued(sockets, sockets', i, Append(sockets[i].queue, packet))
    BY Zenon, <1>0, <2>1, <2>2, ArrivesSomewhere
  <2>4. \A i \in 1..Len(sockets) : Append(sockets[i].queue, packet) \in Seq(Packet)
    BY Zenon, <1>0, <2>1, QueueType, AppendProperties
  <2>5. /\ inFlight' \in Seq([port : Ports, packet : Packet]) /\ Len(inFlight') <= 1
        /\ pc = "choose" => inFlight' = <<>>
    BY Zenon DEF Base, TypeOK, Paths
  <2>6. packets' \in 0..MaxPackets
    BY PacketsAssumption DEF Base, TypeOK
  <2> QED BY ZenonT(30), <2>3, <2>4, <2>5, <2>6, RequeueKeepsBase
<1> QED BY Zenon, <1>1, <1>2, <1>3

\* The head of a scanned queue is taken off.
LEMMA ScanTakes ==
  ASSUME Base, ScanHit
  PROVE  /\ probe.at = probe.expected /\ probe.at \in 1..Len(sockets)
         /\ sockets[probe.at].queue # <<>> /\ Head(sockets[probe.at].queue) = ProbePacket
         /\ Tail(sockets[probe.at].queue) \in Seq(Packet)
         /\ Requeued(sockets, sockets', probe.at, Tail(sockets[probe.at].queue))
<1>0. /\ sockets[probe.at].queue # <<>> /\ Head(sockets[probe.at].queue) = ProbePacket
      /\ probe.at = probe.expected /\ pc = "probe"
      /\ sockets' = [sockets EXCEPT ![probe.at].queue = Tail(@)]
  BY Zenon DEF ScanHit, Scanning, Scanned
<1>1. sockets \in Seq(Socket) /\ probe.at \in 1..Len(sockets)
  BY Zenon, <1>0, ScanInGroup
<1>2. Tail(sockets[probe.at].queue) \in Seq(Packet)
  BY Zenon, <1>0, <1>1, QueueType, HeadTailProperties
<1>3. sockets' = [sockets EXCEPT ![probe.at].queue = Tail(sockets[probe.at].queue)]
  BY Zenon, <1>0, <1>1
<1>4. Requeued(sockets, sockets', probe.at, Tail(sockets[probe.at].queue))
  BY Zenon, <1>1, <1>2, <1>3, Requeue
<1> QED BY Zenon, <1>0, <1>1, <1>2, <1>4

\* A probe found in its place.
LEMMA HitKeepsBase ==
  ASSUME Base, ScanHit
  PROVE  Base'
<1> USE DEF kernelVars
<1>1. /\ sockets' \in Seq(Socket) /\ Len(sockets') = Len(sockets) /\ pc = "probe"
      /\ Requeued(sockets, sockets', probe.at, Tail(sockets[probe.at].queue))
      /\ probe.at \in 1..Len(sockets)
  BY Zenon, ScanTakes DEF Requeued, ScanHit, Scanning
<1>2. /\ probe' \in [expected : 0..NumWorkers, sent : BOOLEAN, at : Workers, expired : BOOLEAN]
      /\ pc' = "probe" => probe'.expected \in Workers
      /\ pc' \in {"probe", "drain"}
  <2>1. CASE probe.expected = NumWorkers
    BY Zenon, <1>1, <2>1, NoProbeType DEF ScanHit
  <2>2. CASE probe.expected # NumWorkers
    <3>1. probe.expected + 1 \in Workers /\ probe.expected + 1 \in 0..NumWorkers
      BY <1>1, <2>2, WorkersAssumption DEF Base, Paths, Workers
    <3>2. probe' = [NoProbe EXCEPT !.expected = probe.expected + 1] /\ pc' = pc
      BY Zenon, <2>2 DEF ScanHit
    <3> QED BY Zenon, <1>1, <3>1, <3>2, NoProbeType DEF NoProbe
  <2> QED BY Zenon, <2>1, <2>2
<1>3. TypeOK'
  BY Zenon, <1>1, <1>2 DEF Base, TypeOK, Socket, ScanHit
<1>4. Paths'
  BY Zenon, <1>1, <1>2 DEF Base, Paths, AtGroup, Target, ScanHit
<1>5. Group'
  BY Zenon, <1>1, ScanInGroup, GroupRequeued DEF Base, ScanHit
<1> QED BY Zenon, <1>3, <1>4, <1>5 DEF Base

\* Types, path and group are invariant.
THEOREM BaseHolds == Spec => []Base
<1>1. Base /\ [Next]_vars => Base'
  <2> SUFFICES ASSUME Base, [Next]_vars PROVE Base'
    BY Zenon
  <2>1. CASE BindFails \/ LocalAddrFails \/ CbpfFails \/ ProbeFails \/ ScanMiss \/ ProbeTimeout
    BY Zenon, <2>1, FailuresKeepBase
  <2>2. CASE Bind
    BY Zenon, <2>2, BindKeepsBase
  <2>3. CASE \/ Choose \/ BindDone \/ AttachEbpf \/ EbpfFails \/ AttachCbpf \/ ProbeSend \/ ScanEmpty
             \/ Deadline \/ DrainNext \/ DrainDone \/ Submit \/ TakePort
    BY Zenon, <2>3, ProgressKeepsBase
  <2>4. CASE ProbeArrives \/ DrainOne \/ (\E w \in Workers : ClientSends(w))
    BY Zenon, <2>4, QueuesKeepBase
  <2>5. CASE ScanHit
    BY Zenon, <2>5, HitKeepsBase
  <2>6. CASE UNCHANGED vars
    BY <2>6 DEF Base, TypeOK, Paths, Group, Target, vars, kernelVars, probeVars
  <2>7. CASE CloneFails
    BY Zenon, <2>7, CloneKeepsBase
  <2> QED BY Zenon, <2>1, <2>2, <2>3, <2>4, <2>5, <2>6, <2>7 DEF Next, Serve, Others
<1> QED BY <1>1, BaseInit, PTL DEF Spec

-----------------------------------------------------------------------------
\* The userspace path has no socket of an abandoned group beside it, and an error
\* leaves sockets or tasks behind only where serve_socket fails midway in userspace.
THEOREM NoSocketLeftBehindHolds == Spec => []NoSocketLeftBehind
<1>1. Base => NoSocketLeftBehind
  BY Zenon DEF Base, Paths, NoSocketLeftBehind
<1> QED BY <1>1, BaseHolds, PTL

\* The sockets a server is given agree on the port and on Required options.
THEOREM GroupConsistentHolds == Spec => []GroupConsistent
<1>1. Base => GroupConsistent
  <2> SUFFICES ASSUME Base, Serving PROVE
        /\ (conf.port = "fixed" \/ conf.kind = "quic") => Cardinality(InUse) = 1
        /\ conf.transparent = "required" => \A i \in DOMAIN sockets : sockets[i].options = Options
    BY Zenon DEF GroupConsistent
  <2>1. sockets \in Seq(Socket) /\ Len(sockets) = Target /\ 1 \in 1..Len(sockets)
    <3>1. sockets \in Seq(Socket)
      BY Zenon DEF Base, TypeOK, Socket
    <3>2. Len(sockets) = Target
      BY Zenon DEF Base, Paths, Serving
    <3>3. Target \in Nat /\ Target >= 1
      BY WorkersAssumption DEF Target
    <3> QED BY <3>1, <3>2, <3>3
  <2>2. DOMAIN sockets = 1..Len(sockets)
    BY <2>1
  <2>3. ASSUME conf.port = "fixed" \/ conf.kind = "quic" PROVE Cardinality(InUse) = 1
    <3>1. mode \in {"native", "selector", "simulated"} /\ pc # "choose"
      BY Zenon DEF Base, TypeOK, Serving
    <3>2. \A i \in 1..Len(sockets) : sockets[i].port = sockets[1].port
      BY <2>1, <2>3, <3>1 DEF Base, Group, Paths, Target
    <3>3. InUse = {sockets[1].port}
      BY Zenon, <2>1, <2>2, <3>2 DEF InUse
    <3> QED BY SMTT(30), <3>3, FS_Singleton
  <2> QED BY Zenon, <2>2, <2>3 DEF Base, Group
<1> QED BY <1>1, BaseHolds, PTL

-----------------------------------------------------------------------------
(* The selector and the probe.                                             *)

ProbeFree == \A i \in 1..Len(sockets) : \A j \in 1..Len(sockets[i].queue) :
               sockets[i].queue[j].kind = "client"

\* The probe of this socket has been seen there.
Verified(i) == pc \in {"drain", "submit", "serving"} \/ (pc = "probe" /\ i < probe.expected)

\* Outside the probe there is no probe packet.
Quiet == (mode = "selector" /\ pc # "probe") => inFlight = <<>> /\ ProbeFree

\* At most one probe packet, under way or at the socket the kernel selects; what
\* is queued behind it came after the selector.
Probing == (mode = "selector" /\ pc = "probe") =>
  /\ inFlight # <<>> => /\ probe.sent /\ ProbeFree
                        /\ inFlight[1] = [port |-> sockets[1].port, packet |-> ProbePacket]
  /\ \A i \in 1..Len(sockets) : \A j \in 1..Len(sockets[i].queue) :
       sockets[i].queue[j].kind = "probe" =>
         /\ probe.sent /\ inFlight = <<>>
         /\ sockets[i].queue[j] = ProbePacket /\ i = Selects(probe.expected, flow)
         /\ \A k \in 1..Len(sockets[i].queue) : k > j =>
              sockets[i].queue[k].kind = "client" /\ (honoured => sockets[i].queue[k].worker = i)

\* A verified socket is the one the kernel selects for its worker, and its queue
\* holds nothing from before the selector.
Sorted == mode = "selector" => \A i \in 1..Len(sockets) : Verified(i) =>
  /\ Selects(i, flow) = i
  /\ honoured => \A j \in 1..Len(sockets[i].queue) : sockets[i].queue[j].worker = i

SelectorInv == Quiet /\ Probing /\ Sorted

\* Appending to and taking from a queue.
LEMMA AppendedQueue ==
  ASSUME NEW q \in Seq(Packet), NEW p \in Packet
  PROVE  /\ Len(q) \in Nat /\ Len(Append(q, p)) = Len(q) + 1
         /\ \A j \in 1..Len(Append(q, p)) :
              \/ j \in 1..Len(q) /\ Append(q, p)[j] = q[j]
              \/ j = Len(q) + 1 /\ Append(q, p)[j] = p
<1>1. Len(q) \in Nat
  BY Zenon, LenProperties
<1> DEFINE r == Append(q, p)
<1>2. Len(r) = Len(q) + 1 /\ (\A j \in 1..Len(q) : r[j] = q[j]) /\ r[Len(q) + 1] = p
  BY AppendProperties
<1> HIDE DEF r
<1>3. \A j \in 1..Len(r) : (j \in 1..Len(q) /\ r[j] = q[j]) \/ (j = Len(q) + 1 /\ r[j] = p)
  BY <1>1, <1>2
<1> QED BY <1>1, <1>2, <1>3, Zenon DEF r

\* The head is gone, and the others are one place further.
LEMMA ShortenedQueue ==
  ASSUME NEW q \in Seq(Packet), q # <<>>
  PROVE  /\ Len(q) \in Nat /\ 1 \in 1..Len(q) /\ q[1] = Head(q)
         /\ \A j \in 1..Len(Tail(q)) : j + 1 \in 1..Len(q) /\ j + 1 > 1 /\ Tail(q)[j] = q[j + 1]
<1>1. Len(q) \in Nat /\ Len(Tail(q)) = Len(q) - 1
  BY SMTT(30), LenProperties, HeadTailProperties
<1> QED BY <1>1, FirstOf, HeadTailProperties

\* A client's datagram at the end of a queue.
LEMMA ClientKeepsSelector ==
  ASSUME Base, SelectorInv, UNCHANGED <<flow, pc, mode, honoured, probe, inFlight>>,
         NEW i \in 1..Len(sockets), NEW p \in Packet, p.kind = "client",
         (honoured /\ pc # "bind") => p.worker = i,
         Requeued(sockets, sockets', i, Append(sockets[i].queue, p))
  PROVE  SelectorInv'
<1>1. sockets \in Seq(Socket) /\ sockets[i].queue \in Seq(Packet)
  BY Zenon, ScanInGroup, QueueType
<1>2. /\ Len(sockets[i].queue) \in Nat
      /\ Len(sockets'[i].queue) = Len(sockets[i].queue) + 1
      /\ \A j \in 1..Len(sockets'[i].queue) :
           \/ j \in 1..Len(sockets[i].queue) /\ sockets'[i].queue[j] = sockets[i].queue[j]
           \/ j = Len(sockets[i].queue) + 1 /\ sockets'[i].queue[j] = p
  BY <1>1, AppendedQueue DEF Requeued
<1>3. /\ Len(sockets') = Len(sockets) /\ sockets'[i].port = sockets[i].port
      /\ \A k \in 1..Len(sockets) : k # i => sockets'[k] = sockets[k]
  BY Zenon DEF Requeued
<1>4. ASSUME ProbeFree PROVE ProbeFree'
  BY SMTT(30), <1>2, <1>3, <1>4 DEF ProbeFree
<1>5. Quiet'
  BY Zenon, <1>4 DEF SelectorInv, Quiet
<1>6. ASSUME mode = "selector", pc = "probe" PROVE Probing'
  <2>1. sockets'[1].port = sockets[1].port
    BY <1>3, ScanInGroup, <1>6 DEF AtGroup
  <2>2. inFlight # <<>> => /\ probe.sent /\ ProbeFree'
                           /\ inFlight[1] = [port |-> sockets'[1].port, packet |-> ProbePacket]
    BY Zenon, <1>4, <1>6, <2>1 DEF SelectorInv, Probing
  <2>3. ASSUME NEW n \in 1..Len(sockets), NEW j \in 1..Len(sockets'[n].queue),
               sockets'[n].queue[j].kind = "probe"
        PROVE  /\ probe.sent /\ inFlight = <<>>
               /\ sockets'[n].queue[j] = ProbePacket /\ n = Selects(probe.expected, flow)
               /\ \A k \in 1..Len(sockets'[n].queue) : k > j =>
                    sockets'[n].queue[k].kind = "client" /\ (honoured => sockets'[n].queue[k].worker = n)
    <3>1. CASE n # i
      BY SMTT(30), <1>3, <1>6, <2>3, <3>1 DEF SelectorInv, Probing
    <3>2. CASE n = i
      <4>1. j \in 1..Len(sockets[i].queue) /\ sockets'[i].queue[j] = sockets[i].queue[j]
        BY SMTT(30), <1>2, <2>3, <3>2
      <4>2. sockets[i].queue[j].kind = "probe"
        BY Zenon, <2>3, <3>2, <4>1
      <4>3. /\ probe.sent /\ inFlight = <<>>
            /\ sockets[i].queue[j] = ProbePacket /\ i = Selects(probe.expected, flow)
            /\ \A k \in 1..Len(sockets[i].queue) : k > j =>
                 sockets[i].queue[k].kind = "client" /\ (honoured => sockets[i].queue[k].worker = i)
        BY SMTT(30), <1>6, <4>1, <4>2 DEF SelectorInv, Probing
      <4>4. ASSUME NEW k \in 1..Len(sockets'[i].queue), k > j
            PROVE  sockets'[i].queue[k].kind = "client" /\ (honoured => sockets'[i].queue[k].worker = i)
        BY ZenonT(30), <1>2, <1>6, <4>3, <4>4
      <4> QED BY Zenon, <3>2, <4>1, <4>3, <4>4
    <3> QED BY SMTT(30), <3>1, <3>2
  <2> QED BY <1>3, <2>2, <2>3 DEF Probing, Selects, ProbePacket
<1>7. Sorted'
  <2> SUFFICES ASSUME mode = "selector", NEW n \in 1..Len(sockets), Verified(n)
               PROVE  /\ Selects(n, flow) = n
                      /\ honoured => \A j \in 1..Len(sockets'[n].queue) : sockets'[n].queue[j].worker = n
    BY Zenon, <1>3 DEF Sorted, Verified, Selects
  <2>1. pc # "bind"
    BY Zenon DEF Verified
  <2>2. /\ Selects(n, flow) = n
        /\ honoured => \A j \in 1..Len(sockets[n].queue) : sockets[n].queue[j].worker = n
    BY Zenon DEF SelectorInv, Sorted
  <2>3. CASE n # i
    BY Zenon, <1>3, <2>2, <2>3
  <2>4. CASE n = i
    BY SMTT(30), <1>2, <2>1, <2>2, <2>4
  <2> QED BY Zenon, <2>3, <2>4
<1> QED BY Zenon, <1>5, <1>6, <1>7 DEF SelectorInv, Probing

\* A step that leaves the group, the path and what the probe sent alone.
LEMMA SelectorUnmoved ==
  ASSUME SelectorInv, UNCHANGED <<flow, pc, mode, sockets, honoured, inFlight>>,
         probe'.sent = probe.sent, probe'.expected = probe.expected
  PROVE  SelectorInv'
<1>1. Quiet'
  BY Zenon DEF SelectorInv, Quiet, ProbeFree
<1>2. Probing'
  BY DEF SelectorInv, Probing, ProbeFree, Selects, ProbePacket
<1>3. Sorted'
  BY Zenon DEF SelectorInv, Sorted, Verified, Selects
<1> QED BY Zenon, <1>1, <1>2, <1>3 DEF SelectorInv

\* Nothing is claimed of the other paths.
LEMMA OtherPaths == mode' # "selector" => SelectorInv'
  BY Zenon DEF SelectorInv, Quiet, Probing, Sorted

\* The arrival of the probe at the socket the kernel selects.
LEMMA ProbeKeepsSelector ==
  ASSUME Base, SelectorInv, ProbeArrives
  PROVE  SelectorInv'
<1> SUFFICES ASSUME mode = "selector" PROVE SelectorInv'
  BY Zenon, OtherPaths DEF ProbeArrives
<1> DEFINE aim == Selects(probe.expected, flow)
<1>1. /\ inFlight # <<>> /\ inFlight' = <<>> /\ Arrives(inFlight[1].port, inFlight[1].packet, flow)
      /\ UNCHANGED <<flow, pc, mode, honoured, probe>>
  BY Zenon DEF ProbeArrives, kernelVars
<1>2. pc = "probe"
  BY Zenon, <1>1 DEF SelectorInv, Quiet
<1>3. /\ sockets \in Seq(Socket) /\ Len(sockets) = NumWorkers
      /\ probe.expected \in 1..Len(sockets) /\ aim \in 1..Len(sockets)
  BY Zenon, <1>2, ScanInGroup DEF AtGroup, Base, TypeOK, Selects, Workers
<1>4. /\ probe.sent /\ ProbeFree
      /\ inFlight[1].port = sockets[1].port /\ inFlight[1].packet = ProbePacket
  BY <1>1, <1>2 DEF SelectorInv, Probing
<1>5. ProbePacket \in Packet /\ ProbePacket.worker = probe.expected /\ ProbePacket.kind = "probe"
  BY Zenon, <1>2 DEF Base, Paths, ProbePacket, Packet
<1>6. Requeued(sockets, sockets', aim, Append(sockets[aim].queue, ProbePacket))
  <2>1. \A i \in DOMAIN sockets : sockets[i].port = sockets[1].port
    BY <1>3 DEF Base, Group
  <2>2. Arrives(sockets[1].port, ProbePacket, flow)
    BY Zenon, <1>1, <1>4
  <2> HIDE DEF aim
  <2> QED BY Zenon, <1>3, <1>5, <2>1, <2>2, ArrivesSelected DEF aim
<1> HIDE DEF aim
<1>7. /\ Len(sockets[aim].queue) \in Nat
      /\ Len(sockets'[aim].queue) = Len(sockets[aim].queue) + 1
      /\ \A j \in 1..Len(sockets'[aim].queue) :
           \/ j \in 1..Len(sockets[aim].queue) /\ sockets'[aim].queue[j] = sockets[aim].queue[j]
           \/ j = Len(sockets[aim].queue) + 1 /\ sockets'[aim].queue[j] = ProbePacket
  BY <1>3, <1>5, <1>6, QueueType, AppendedQueue DEF Requeued
<1>8. /\ Len(sockets') = Len(sockets)
      /\ \A k \in 1..Len(sockets) : k # aim => sockets'[k] = sockets[k]
  BY SMTT(30), <1>6 DEF Requeued
<1>9. Probing'
  <2>1. ASSUME NEW i \in 1..Len(sockets), NEW j \in 1..Len(sockets'[i].queue),
               sockets'[i].queue[j].kind = "probe"
        PROVE  i = aim /\ j = Len(sockets'[i].queue) /\ sockets'[i].queue[j] = ProbePacket
    <3>1. i = aim
      BY Zenon, <1>4, <1>8, <2>1 DEF ProbeFree
    <3>2. ~(j \in 1..Len(sockets[aim].queue) /\ sockets'[aim].queue[j] = sockets[aim].queue[j])
      BY Zenon, <1>3, <1>4, <2>1, <3>1 DEF ProbeFree
    <3> QED BY Zenon, <1>7, <2>1, <3>1, <3>2
  <2>2. ASSUME NEW i \in 1..Len(sockets), NEW j \in 1..Len(sockets'[i].queue),
               sockets'[i].queue[j].kind = "probe", NEW k \in 1..Len(sockets'[i].queue), k > j
        PROVE  FALSE
    <3>1. j = Len(sockets'[i].queue) /\ Len(sockets'[i].queue) \in Nat
      BY SMTT(30), <1>7, <2>1, <2>2
    <3> QED BY SMTT(30), <2>2, <3>1
  <2> QED BY SMTT(30), <1>1, <1>4, <1>8, <2>1, <2>2 DEF Probing, ProbePacket, Selects, aim
<1>10. Sorted'
  <2> SUFFICES ASSUME NEW n \in 1..Len(sockets), Verified(n)
               PROVE  /\ Selects(n, flow) = n
                      /\ honoured => \A j \in 1..Len(sockets'[n].queue) : sockets'[n].queue[j].worker = n
    BY Zenon, <1>1, <1>8 DEF Sorted, Verified, Selects
  <2>1. /\ Selects(n, flow) = n /\ n < probe.expected
        /\ honoured => \A j \in 1..Len(sockets[n].queue) : sockets[n].queue[j].worker = n
    BY Zenon, <1>2 DEF SelectorInv, Sorted, Verified
  <2>2. honoured => n # aim
    BY <1>3, <2>1 DEF aim, Selects
  <2> QED BY Zenon, <1>8, <2>1, <2>2
<1>11. Quiet'
  BY Zenon, <1>1, <1>2 DEF Quiet
<1> QED BY Zenon, <1>9, <1>10, <1>11 DEF SelectorInv

\* A client's datagram arrives.
LEMMA ClientsKeepSelector ==
  ASSUME Base, SelectorInv, NEW w \in Workers, ClientSends(w)
  PROVE  SelectorInv'
<1> DEFINE p == [kind |-> "client", worker |-> w]
<1>1. PICK h \in DOMAIN sockets : Arrives(sockets[1].port, p, h)
  BY Zenon DEF ClientSends
<1>2. /\ UNCHANGED <<flow, pc, mode, honoured, probe, inFlight>> /\ sockets # <<>>
  BY Zenon DEF ClientSends, kernelVars, probeVars
<1>3. sockets \in Seq(Socket) /\ p \in Packet /\ p.kind = "client" /\ p.worker = w
  BY Zenon, ScanInGroup DEF Packet
<1> SUFFICES ASSUME mode = "selector" PROVE SelectorInv'
  BY Zenon, <1>2, OtherPaths
<1>4. CASE pc = "bind"
  <2>1. CASE sockets' = sockets
    BY Zenon, <1>2, <1>4, <2>1 DEF SelectorInv, Quiet, Probing, Sorted, Verified, ProbeFree
  <2>2. ASSUME NEW i \in 1..Len(sockets), Requeued(sockets, sockets', i, Append(sockets[i].queue, p))
        PROVE  SelectorInv'
    <3> HIDE DEF p
    <3> QED BY Zenon, <1>2, <1>3, <1>4, <2>2, ClientKeepsSelector
  <2> HIDE DEF p
  <2> QED BY SMTT(30), <1>1, <1>3, <2>1, <2>2, ArrivesSomewhere
<1>5. CASE pc # "bind"
  <2>1. pc \in AtGroup \cup {"submit", "serving"}
    BY Zenon, <1>2, <1>5 DEF Base, TypeOK, Paths, AtGroup
  <2>2. Len(sockets) = NumWorkers /\ DOMAIN sockets = 1..Len(sockets)
    BY <1>3, <2>1 DEF Base, Paths, Target
  <2>3. Selects(p.worker, h) \in 1..Len(sockets)
    BY Zenon, <1>3, <2>2 DEF Selects, Workers
  <2>4. \A i \in DOMAIN sockets : sockets[i].port = sockets[1].port
    BY Zenon, <2>2 DEF Base, Group
  <2>5. honoured => p.worker = Selects(p.worker, h)
    BY Zenon DEF Selects
  <2> HIDE DEF p
  <2>6. Requeued(sockets, sockets', Selects(p.worker, h), Append(sockets[Selects(p.worker, h)].queue, p))
    BY Zenon, <1>1, <1>3, <2>3, <2>4, ArrivesSelected
  <2> QED BY Zenon, <1>2, <1>3, <2>3, <2>5, <2>6, ClientKeepsSelector
<1> QED BY Zenon, <1>4, <1>5

\* The probe is taken from the head of its queue: what is left of the queue came
\* after the selector, and no probe packet is left anywhere.
LEMMA HitKeepsSelector ==
  ASSUME Base, SelectorInv, ScanHit
  PROVE  SelectorInv'
<1> DEFINE e == probe.expected
           q == sockets[e].queue
<1>1. /\ UNCHANGED <<flow, mode, honoured, inFlight>> /\ pc = "probe" /\ mode = "selector"
      /\ \/ pc' = "drain" /\ e = NumWorkers
         \/ pc' = "probe" /\ probe'.expected = e + 1 /\ ~probe'.sent
  BY Zenon DEF ScanHit, Scanning, kernelVars, NoProbe, Base, Paths, AtGroup
<1>2. /\ probe.at = e /\ e \in 1..Len(sockets) /\ q # <<>> /\ Head(q) = ProbePacket
      /\ Requeued(sockets, sockets', e, Tail(q))
  BY Zenon, ScanTakes
<1>3. /\ sockets \in Seq(Socket) /\ q \in Seq(Packet) /\ Len(sockets) = NumWorkers
  BY Zenon, <1>1, <1>2, ScanInGroup, QueueType DEF AtGroup
<1> HIDE DEF e, q
<1>4. /\ 1 \in 1..Len(q) /\ q[1] = ProbePacket
      /\ \A j \in 1..Len(Tail(q)) : j + 1 \in 1..Len(q) /\ j + 1 > 1 /\ Tail(q)[j] = q[j + 1]
  BY SMTT(30), <1>2, <1>3, ShortenedQueue
<1>5. /\ inFlight = <<>> /\ e = Selects(e, flow)
      /\ \A k \in 1..Len(q) : k > 1 => q[k].kind = "client" /\ (honoured => q[k].worker = e)
  <2>1. q[1].kind = "probe"
    BY <1>4 DEF ProbePacket
  <2> QED BY <1>1, <1>2, <1>4, <2>1 DEF SelectorInv, Probing, e, q
<1>6. /\ Len(sockets') = Len(sockets) /\ sockets'[e].queue = Tail(q)
      /\ \A k \in 1..Len(sockets) : k # e => sockets'[k] = sockets[k]
  BY Zenon, <1>2 DEF Requeued
<1>7. \A j \in 1..Len(sockets'[e].queue) :
        sockets'[e].queue[j].kind = "client" /\ (honoured => sockets'[e].queue[j].worker = e)
  BY <1>4, <1>5, <1>6
<1>8. ProbeFree'
  <2>1. ASSUME NEW i \in 1..Len(sockets), i # e, NEW j \in 1..Len(sockets[i].queue)
        PROVE  sockets[i].queue[j].kind = "client"
    <3>1. sockets[i].queue[j].kind # "probe"
      BY Zenon, <1>1, <1>5, <2>1 DEF SelectorInv, Probing, e
    <3>2. sockets[i].queue[j] \in Packet
      BY Zenon, <1>3, <2>1, QueueType, ElementOfSeq
    <3> QED BY SMTT(30), <3>1, <3>2 DEF Packet
  <2>2. ASSUME NEW i \in 1..Len(sockets), NEW j \in 1..Len(sockets'[i].queue)
        PROVE  sockets'[i].queue[j].kind = "client"
    <3>1. CASE i = e
      BY Zenon, <1>7, <2>2, <3>1
    <3>2. CASE i # e
      <4>1. sockets'[i] = sockets[i]
        BY Zenon, <1>6, <2>2, <3>2
      <4> QED BY Zenon, <2>1, <2>2, <3>2, <4>1
    <3> QED BY Zenon, <3>1, <3>2
  <2> QED BY Zenon, <1>6, <2>2 DEF ProbeFree
<1>9. Quiet'
  BY Zenon, <1>1, <1>5, <1>8 DEF Quiet
<1>10. Probing'
  BY Zenon, <1>1, <1>5, <1>8 DEF Probing, ProbeFree
<1>11. Sorted'
  <2> SUFFICES ASSUME NEW n \in 1..Len(sockets), Verified(n)'
               PROVE  /\ Selects(n, flow) = n
                      /\ honoured => \A j \in 1..Len(sockets'[n].queue) : sockets'[n].queue[j].worker = n
    BY Zenon, <1>1, <1>6 DEF Sorted, Selects
  <2>1. n = e \/ n < e
    BY <1>1, <1>2, <1>3, WorkersAssumption DEF Verified
  <2>2. CASE n = e
    BY Zenon, <1>5, <1>7, <2>2
  <2>3. CASE n < e
    <3>1. n # e
      BY <1>2, <2>3
    <3>2. Verified(n)
      BY Zenon, <1>1, <2>3 DEF Verified, e
    <3> QED BY Zenon, <1>1, <1>6, <3>1, <3>2 DEF SelectorInv, Sorted
  <2> QED BY Zenon, <2>1, <2>2, <2>3
<1> QED BY Zenon, <1>9, <1>10, <1>11 DEF SelectorInv

\* The drain takes what is queued.
LEMMA DrainKeepsSelector ==
  ASSUME Base, SelectorInv, DrainOne
  PROVE  SelectorInv'
<1> DEFINE q == sockets[drainAt].queue
<1>1. /\ UNCHANGED <<flow, pc, mode, honoured, probe, inFlight>> /\ pc = "drain" /\ mode = "selector"
      /\ q # <<>> /\ sockets' = [sockets EXCEPT ![drainAt].queue = Tail(@)]
  BY Zenon DEF DrainOne, kernelVars, probeVars, Base, Paths, AtGroup
<1>2. drainAt \in 1..Len(sockets) /\ sockets \in Seq(Socket) /\ q \in Seq(Packet)
  BY <1>1, ScanInGroup, QueueType DEF AtGroup, Base, TypeOK, DrainOne
<1>3. Tail(q) \in Seq(Packet)
  BY Zenon, <1>1, <1>2, HeadTailProperties
<1>4. sockets' = [sockets EXCEPT ![drainAt].queue = Tail(q)]
  BY Zenon, <1>1, <1>2
<1> HIDE DEF q
<1>5. Requeued(sockets, sockets', drainAt, Tail(q))
  BY Zenon, <1>2, <1>3, <1>4, Requeue
<1>6. /\ Len(sockets') = Len(sockets)
      /\ \A k \in 1..Len(sockets) : k # drainAt => sockets'[k] = sockets[k]
      /\ \A j \in 1..Len(sockets'[drainAt].queue) :
           j + 1 \in 1..Len(q) /\ sockets'[drainAt].queue[j] = q[j + 1]
  BY Zenon, <1>1, <1>2, <1>5, ShortenedQueue DEF Requeued
<1>7. Quiet'
  BY <1>1, <1>2, <1>6 DEF SelectorInv, Quiet, ProbeFree, q
<1>8. Sorted'
  BY SMTT(30), <1>1, <1>2, <1>6 DEF SelectorInv, Sorted, Verified, Selects, q
<1>9. Probing'
  BY SMTT(30), <1>1 DEF Probing
<1> QED BY Zenon, <1>7, <1>8, <1>9 DEF SelectorInv

\* A new socket has an empty queue.
LEMMA BindKeepsSelector ==
  ASSUME Base, SelectorInv, Bind
  PROVE  SelectorInv'
<1> SUFFICES ASSUME mode = "selector" PROVE SelectorInv'
  BY Zenon, OtherPaths DEF Bind
<1>1. UNCHANGED <<flow, pc, mode, honoured, probe, inFlight>> /\ pc = "bind"
  BY Zenon DEF Bind, kernelVars, probeVars
<1>2. PICK options \in TransparentOutcomes, port \in BindPorts :
         sockets' = Append(sockets, [port |-> port, options |-> options, queue |-> <<>>])
  BY Zenon DEF Bind
<1>3. sockets \in Seq(Socket) /\ Len(sockets) \in Nat
  BY Zenon, ScanInGroup
<1>4. /\ Len(sockets') = Len(sockets) + 1
      /\ \A i \in 1..Len(sockets) : sockets'[i] = sockets[i]
      /\ sockets'[Len(sockets) + 1].queue = <<>>
  BY <1>2, <1>3
<1>5. ProbeFree'
  <2>1. \A i \in 1..Len(sockets') : i \in 1..Len(sockets) \/ i = Len(sockets) + 1
    BY <1>3, <1>4
  <2>2. Len(sockets'[Len(sockets) + 1].queue) = 0
    BY Zenon, <1>4, EmptySeq
  <2>3. ProbeFree
    BY Zenon, <1>1 DEF SelectorInv, Quiet
  <2> QED BY <1>4, <2>1, <2>2, <2>3 DEF ProbeFree
<1> QED BY Zenon, <1>1, <1>5 DEF SelectorInv, Quiet, Probing, Sorted, Verified

\* The other steps: what the group holds is left alone.
LEMMA ProgressKeepsSelector ==
  ASSUME Base, SelectorInv,
         \/ Choose \/ BindDone \/ AttachEbpf \/ EbpfFails \/ AttachCbpf \/ ProbeSend \/ ScanEmpty
         \/ Deadline \/ DrainNext \/ DrainDone \/ Submit \/ TakePort
  PROVE  SelectorInv'
<1> USE DEF kernelVars, probeVars
<1>1. CASE Choose
  <2>1. sockets' = <<>> /\ inFlight' = <<>> /\ pc' = "bind"
    BY Zenon, <1>1 DEF Choose, Base, Paths
  <2> QED BY <2>1, EmptySeq DEF SelectorInv, Quiet, Probing, Sorted, ProbeFree, Verified
<1>2. CASE AttachEbpf \/ AttachCbpf
  <2>1. /\ inFlight' = <<>> /\ UNCHANGED sockets /\ ProbeFree
        /\ pc' = "probe" /\ probe'.expected = 1
    BY SMTT(30), <1>2, NoProbeType DEF AttachEbpf, AttachCbpf, Attach, Base, Paths, AtGroup, SelectorInv, Quiet
  <2>2. Quiet' /\ Probing'
    BY Zenon, <2>1 DEF Quiet, Probing, ProbeFree
  <2>3. Sorted'
    BY <2>1, ScanInGroup DEF Sorted, Verified
  <2> QED BY Zenon, <2>2, <2>3 DEF SelectorInv
<1>3. CASE ProbeSend
  <2>1. /\ pc = "probe" /\ mode = "selector" /\ ~probe.sent /\ probe'.sent
        /\ probe'.expected = probe.expected
        /\ inFlight' = <<[port |-> sockets[1].port, packet |-> ProbePacket]>>
        /\ UNCHANGED <<flow, pc, mode, sockets, honoured>>
    BY Zenon, <1>3 DEF ProbeSend, Base, TypeOK, Paths, AtGroup
  <2>2. ProbeFree
    <3>1. ASSUME NEW i \in 1..Len(sockets), NEW j \in 1..Len(sockets[i].queue)
          PROVE  sockets[i].queue[j].kind = "client"
      <4>1. sockets[i].queue[j].kind # "probe"
        BY Zenon, <2>1, <3>1 DEF SelectorInv, Probing
      <4>2. sockets[i].queue[j] \in Packet
        BY SMTT(30), <3>1, ScanInGroup, QueueType, ElementOfSeq
      <4> QED BY SMTT(30), <4>1, <4>2 DEF Packet
    <3> QED BY Zenon, <3>1 DEF ProbeFree
  <2>3. Quiet' /\ Probing'
    BY Zenon, <2>1, <2>2 DEF Quiet, Probing, ProbeFree, ProbePacket
  <2>4. Sorted'
    BY SMTT(30), <2>1 DEF SelectorInv, Sorted, Verified, Selects
  <2> QED BY Zenon, <2>3, <2>4 DEF SelectorInv
<1>4. CASE ScanEmpty \/ Deadline
  <2>1. /\ probe'.sent = probe.sent /\ probe'.expected = probe.expected
        /\ UNCHANGED <<flow, pc, mode, sockets, honoured, inFlight>>
    BY SMTT(30), <1>4 DEF ScanEmpty, Deadline, Base, TypeOK
  <2> QED BY <2>1, SelectorUnmoved, Zenon
<1>5. CASE BindDone \/ EbpfFails \/ DrainNext \/ DrainDone \/ Submit \/ TakePort
  <2>1. /\ UNCHANGED <<flow, mode, sockets, honoured, probe, inFlight>>
        /\ \/ pc' = pc
           \/ pc \in {"bind", "ebpf"} /\ (pc' \in {"ebpf", "cbpf"} \/ mode # "selector")
           \/ pc \in {"drain", "submit"} /\ pc' \in {"submit", "serving"}
    BY Zenon, <1>5 DEF BindDone, EbpfFails, DrainNext, DrainDone, Submit, TakePort
  <2>2. Quiet'
    <3>1. ProbeFree => ProbeFree'
      BY Zenon, <2>1 DEF ProbeFree
    <3>2. mode' = "selector" /\ pc' # "probe" => mode = "selector" /\ pc # "probe"
      BY Zenon, <2>1
    <3>3. inFlight' = inFlight
      BY SMTT(30), <2>1
    <3> QED BY Zenon, <3>1, <3>2, <3>3 DEF SelectorInv, Quiet
  <2>3. Probing'
    <3>1. mode' = "selector" /\ pc' = "probe" => mode = "selector" /\ pc = "probe" /\ pc' = pc
      BY Zenon, <2>1
    <3>2. CASE pc' = pc
      BY Zenon, <2>1, <3>2, SelectorUnmoved DEF SelectorInv
    <3> QED BY Zenon, <3>1, <3>2 DEF Probing
  <2>4. Sorted'
    BY Zenon, <2>1 DEF SelectorInv, Sorted, Verified, Selects
  <2> QED BY SMTT(30), <2>2, <2>3, <2>4 DEF SelectorInv
<1> QED BY <1>1, <1>2, <1>3, <1>4, <1>5, Zenon

\* The group, its selector and the probe, in every state.
THEOREM SelectorInvHolds == Spec => []SelectorInv
<1>1. Init => SelectorInv
  BY Zenon DEF Init, SelectorInv, Quiet, Probing, Sorted
<1>2. Base /\ SelectorInv /\ [Next]_vars => SelectorInv'
  <2> SUFFICES ASSUME Base, SelectorInv, [Next]_vars PROVE SelectorInv'
    BY Zenon
  <2>1. CASE CbpfFails \/ ProbeFails \/ ScanMiss \/ ProbeTimeout
    BY SMTT(30), <2>1, OtherPaths DEF CbpfFails, ProbeFails, ScanMiss, ProbeTimeout, GiveUp
  <2>2. CASE BindFails \/ LocalAddrFails
    <3>1. mode' # "selector" \/ (pc = "bind" /\ mode = "selector" /\ pc' = "error")
      BY <2>2 DEF BindFails, LocalAddrFails, GiveUp
    <3>2. sockets' = <<>> /\ inFlight' = inFlight
      BY Zenon, <2>2 DEF BindFails, LocalAddrFails, GiveUp, CloseAll
    <3>3. CASE mode' # "selector"
      BY Zenon, <3>3, OtherPaths
    <3>4. CASE pc = "bind" /\ mode = "selector" /\ pc' = "error"
      <4>1. inFlight' = <<>>
        BY Zenon, <3>2, <3>4 DEF SelectorInv, Quiet
      <4>2. Quiet' /\ Probing'
        BY <3>2, <3>4, <4>1, EmptySeq DEF Quiet, Probing, ProbeFree
      <4>3. Sorted'
        BY <3>2, EmptySeq DEF Sorted
      <4> QED BY Zenon, <4>2, <4>3 DEF SelectorInv
    <3> QED BY Zenon, <3>1, <3>3, <3>4
  <2>3. CASE \/ Choose \/ BindDone \/ AttachEbpf \/ EbpfFails \/ AttachCbpf \/ ProbeSend \/ ScanEmpty
             \/ Deadline \/ DrainNext \/ DrainDone \/ Submit \/ TakePort
    BY Zenon, <2>3, ProgressKeepsSelector
  <2>4. CASE Bind
    BY Zenon, <2>4, BindKeepsSelector
  <2>5. CASE ScanHit
    BY Zenon, <2>5, HitKeepsSelector
  <2>6. CASE ProbeArrives
    BY Zenon, <2>6, ProbeKeepsSelector
  <2>7. CASE DrainOne
    BY Zenon, <2>7, DrainKeepsSelector
  <2>8. ASSUME NEW w \in Workers, ClientSends(w) PROVE SelectorInv'
    BY <2>8, ClientsKeepSelector, Zenon
  <2>9. CASE UNCHANGED vars
    <3>1. UNCHANGED <<flow, pc, mode, sockets, honoured, probe, inFlight>>
      BY Zenon, <2>9 DEF vars, kernelVars, probeVars
    <3> QED BY Zenon, <3>1, SelectorUnmoved
  <2>10. CASE CloneFails
    BY Zenon, <2>10, OtherPaths DEF CloneFails
  <2> QED BY SMTT(30), <2>1, <2>2, <2>3, <2>4, <2>5, <2>6, <2>7, <2>8, <2>9, <2>10 DEF Next, Serve, Others
<1> QED BY <1>1, <1>2, BaseHolds, PTL DEF Spec

\* The verdict of the probe is right: a group that is handed over is one in which
\* the kernel takes every worker's datagrams to that worker's socket.
THEOREM SelectorVerifiedHolds == Spec => []SelectorVerified
<1>1. Base /\ SelectorInv => SelectorVerified
  BY Zenon DEF Base, Paths, AtGroup, Target, Workers, SelectorInv, Sorted, Verified, SelectorVerified, Serving
<1> QED BY <1>1, BaseHolds, SelectorInvHolds, PTL

\* The group is handed over without a probe packet, and with no datagram at a
\* socket other than that of the worker its connection id names.
THEOREM CleanHandOverHolds == Spec => []CleanHandOver
<1>1. Base /\ SelectorInv => CleanHandOver
  <2> SUFFICES ASSUME Base, SelectorInv, Serving, mode = "selector"
               PROVE  /\ inFlight = <<>>
                      /\ \A i \in DOMAIN sockets : \A j \in DOMAIN sockets[i].queue :
                           sockets[i].queue[j] = [kind |-> "client", worker |-> i]
    BY Zenon DEF CleanHandOver
  <2>1. /\ sockets \in Seq(Socket) /\ Len(sockets) = NumWorkers
        /\ inFlight = <<>> /\ ProbeFree
        /\ \A i \in 1..Len(sockets) : Verified(i)
    BY SMTT(30), ScanInGroup DEF Base, Paths, AtGroup, Target, SelectorInv, Quiet, Serving, Verified
  <2>2. ASSUME NEW i \in 1..Len(sockets), NEW j \in 1..Len(sockets[i].queue)
        PROVE  sockets[i].queue[j] = [kind |-> "client", worker |-> i]
    <3>1. sockets[i].queue[j] \in Packet /\ sockets[i].queue[j].kind = "client"
      BY Zenon, <2>1, <2>2, QueueType, ElementOfSeq DEF ProbeFree
    <3>2. sockets[i].queue[j].worker = i
      <4>1. CASE honoured
        BY Zenon, <2>1, <2>2, <4>1 DEF SelectorInv, Sorted
      <4>2. CASE ~honoured
        <5>1. \A n \in 1..Len(sockets) : flow = n
          BY Zenon, <2>1, <4>2 DEF SelectorInv, Sorted, Selects
        <5>2. sockets[i].queue[j].worker \in 1..Len(sockets)
          BY Zenon, <2>1, <3>1 DEF Packet, Workers
        <5> QED BY Zenon, <5>1, <5>2
      <4> QED BY Zenon, <4>1, <4>2
    <3> QED BY Zenon, <3>1, <3>2 DEF Packet
  <2>3. \A i \in DOMAIN sockets : i \in 1..Len(sockets) /\ DOMAIN sockets[i].queue = 1..Len(sockets[i].queue)
    BY <2>1, QueueType
  <2> QED BY Zenon, <2>1, <2>2, <2>3
<1> QED BY <1>1, BaseHolds, SelectorInvHolds, PTL
=============================================================================

----------------------------- MODULE ServiceBind -----------------------------
(***************************************************************************)
(* How serve() comes to its sockets: platform/mod.rs (bind_tcp, bind_udp   *)
(* and their per-worker forms), platform/linux.rs (transparent options,    *)
(* the QUIC reuse-port group, its kernel selector and the probe of it) and *)
(* the choice of a path in core/tcp.rs, core/udp.rs and core/quic.rs, up   *)
(* to the submission of the server's tasks.                                *)
(*                                                                         *)
(* The group is bound, and receives, before a selector is attached; other  *)
(* programs send to the port and may take it when it is free.              *)
(***************************************************************************)
EXTENDS Integers, Sequences, FiniteSets

CONSTANTS NumWorkers,
          MaxPackets,    \* bound: client datagrams during the start
          Configs        \* the services to consider

\* callback: serve_socket instead of serve (UDP and QUIC); family: whether the
\* transparent option asked for is that of the bind address.
Config == [kind : {"tcp", "udp", "quic"}, callback : BOOLEAN,
           os : {"linux", "bsd", "windows"}, port : {"fixed", "any"}, bpf : BOOLEAN,
           transparent : {"disabled", "best_effort", "required"}, family : BOOLEAN]

ASSUME WorkersAssumption == NumWorkers \in Nat \ {0}
ASSUME PacketsAssumption == MaxPackets \in Nat
ASSUME ConfigsAssumption == Configs \subseteq Config

Workers == 1..NumWorkers
FixedPort == 0
Ports == 0..(NumWorkers + 1)   \* 0 is the configured one, the others ephemeral
Options == {"transparent", "original_dst", "freebind"}
Packet == [kind : {"client", "probe"}, worker : Workers]

VARIABLES conf,
          flow,       \* the socket to which the kernel hashes the probe sender's flow
          pc,
          mode,       \* native, selector or simulated
          sockets,    \* bound so far: port, options set, receive queue
          program,    \* attached to the group: none, ebpf or cbpf
          honoured,   \* the kernel selects by the attached program
          probe,      \* the probe at work: expected socket, sent, position of the scan, deadline over
          inFlight,   \* the probe that has left the sender and not arrived, if any
          drainAt,    \* the socket being drained
          submitted,  \* tasks submitted
          packets,    \* client datagrams so far
          foreign     \* another program has the configured port

probeVars == <<probe, inFlight, drainAt>>
kernelVars == <<program, honoured>>
vars == <<conf, flow, pc, mode, sockets, kernelVars, probeVars, submitted, packets, foreign>>

ReusePort == conf.os \in {"linux", "bsd"}         \* reuse_port_balancing
NoProbe == [expected |-> 0, sent |-> FALSE, at |-> 1, expired |-> FALSE]

Init == /\ conf \in Configs /\ flow \in Workers
        /\ pc = "choose" /\ mode = "native" /\ sockets = <<>>
        /\ program = "none" /\ honoured = FALSE
        /\ probe = NoProbe /\ inFlight = <<>> /\ drainAt = 1
        /\ submitted = 0 /\ packets = 0 /\ foreign = FALSE

-----------------------------------------------------------------------------
(* The path.                                                               *)

\* TCP and UDP: one socket per worker where the platform balances.  QUIC: a
\* group with a selector on Linux, unless the environment disables it; the BSD
\* form of the bind returns None.  All others simulate.
Choose ==
  /\ pc = "choose" /\ pc' = "bind"
  /\ mode' = IF ReusePort /\ conf.kind # "quic" THEN "native"
             ELSE IF conf.kind = "quic" /\ conf.os = "linux" /\ conf.bpf THEN "selector"
             ELSE "simulated"
  /\ UNCHANGED <<conf, flow, sockets, kernelVars, probeVars, submitted, packets, foreign>>

\* How many sockets the path binds.
Target == IF mode = "simulated" THEN 1 ELSE NumWorkers

-----------------------------------------------------------------------------
(* bind_tcp() and bind_udp(): one socket.                                  *)

\* Mutant of TransparentOutcomes: a failed option is never an error on Linux.
TransparentOutcomesLenient ==
  IF conf.os = "linux" /\ conf.family /\ conf.transparent # "disabled" THEN SUBSET Options
  ELSE IF conf.transparent = "required" THEN {} ELSE {{}}

\* The option sets with which apply_transparent succeeds.
TransparentOutcomes ==
  IF conf.os = "linux" /\ conf.family
  THEN CASE conf.transparent = "disabled" -> {{}}
         [] conf.transparent = "required" -> {Options}
         [] conf.transparent = "best_effort" -> SUBSET Options
  ELSE IF conf.transparent = "required" THEN {} ELSE {{}}

InUse == {sockets[i].port : i \in DOMAIN sockets}

\* The ports a bind may give: the QUIC group pins the first socket's.
BindPorts ==
  IF mode = "selector" /\ sockets # <<>> THEN {sockets[1].port}
  ELSE IF conf.port = "any" THEN Ports \ {FixedPort}
  ELSE IF foreign THEN {} ELSE {FixedPort}

Bind ==
  /\ pc = "bind" /\ Len(sockets) < Target
  /\ \E options \in TransparentOutcomes, port \in BindPorts :
        sockets' = Append(sockets, [port |-> port, options |-> options, queue |-> <<>>])
  /\ UNCHANGED <<conf, flow, pc, mode, kernelVars, probeVars, submitted, packets, foreign>>

BindDone ==
  /\ pc = "bind" /\ Len(sockets) = Target
  /\ pc' = IF mode = "selector" THEN "ebpf" ELSE "submit"
  /\ UNCHANGED <<conf, flow, mode, sockets, kernelVars, probeVars, submitted, packets, foreign>>

\* The vector of sockets goes out of scope and closes them.
CloseAll == /\ sockets' = <<>> /\ program' = "none" /\ honoured' = FALSE
            /\ probe' = NoProbe /\ drainAt' = 1 /\ UNCHANGED inFlight

\* Mutant of GiveUp: the group stays open beside the fallback.
GiveUpOpen ==
  /\ pc' = "bind" /\ mode' = "simulated"
  /\ UNCHANGED <<sockets, program, honoured, probeVars>>

\* bind_quic_udp_reuseport_workers returns None: the userspace path starts over.
GiveUp == /\ pc' = "bind" /\ mode' = "simulated" /\ CloseAll

\* A step of the bind fails: creation, the init callback, an option, the
\* address, listen or non-blocking mode.
BindFails ==
  /\ pc = "bind" /\ Len(sockets) < Target
  /\ IF mode = "selector" THEN GiveUp ELSE pc' = "error" /\ UNCHANGED mode /\ CloseAll
  /\ UNCHANGED <<conf, flow, submitted, packets, foreign>>

\* The first socket of the QUIC group, or the single one of a userspace path that
\* asks for it, does not tell its address (or cannot be cloned for close()).
LocalAddrFails ==
  /\ pc = "bind" /\ Len(sockets) = 1
  /\ mode = "selector" \/ (mode = "simulated" /\ (conf.kind = "tcp" \/ conf.callback))
  /\ pc' = "error" /\ CloseAll
  /\ UNCHANGED <<conf, flow, mode, submitted, packets, foreign>>

-----------------------------------------------------------------------------
(* Attaching a selector to the group.                                      *)

\* Mutant of Attach: the program is trusted without a probe.
AttachTrusts(p) == /\ program' = p
                   /\ honoured' \in BOOLEAN
                   /\ pc' = "submit" /\ UNCHANGED probe

\* The kernel takes the program; whether it then selects by it is what the
\* probe finds out.
Attach(p) == /\ program' = p
             /\ honoured' \in BOOLEAN
             /\ pc' = "probe" /\ probe' = [NoProbe EXCEPT !.expected = 1]

AttachEbpf ==
  /\ pc = "ebpf" /\ Attach("ebpf")
  /\ UNCHANGED <<conf, flow, mode, sockets, inFlight, drainAt, submitted, packets, foreign>>

\* No bpf() on this architecture, or load or setsockopt fails.
EbpfFails ==
  /\ pc = "ebpf" /\ pc' = "cbpf"
  /\ UNCHANGED <<conf, flow, mode, sockets, program, honoured, probeVars, submitted, packets, foreign>>

AttachCbpf ==
  /\ pc = "cbpf" /\ Attach("cbpf")
  /\ UNCHANGED <<conf, flow, mode, sockets, inFlight, drainAt, submitted, packets, foreign>>

CbpfFails ==
  /\ pc = "cbpf" /\ GiveUp
  /\ UNCHANGED <<conf, flow, submitted, packets, foreign>>

-----------------------------------------------------------------------------
(* quic_reuseport_selector_routes_probe()                                  *)

\* Where the kernel puts a datagram for worker w whose flow hashes to h.
Selects(w, h) == IF honoured THEN w ELSE h

ProbePacket == [kind |-> "probe", worker |-> probe.expected]

ProbeSend ==
  /\ pc = "probe" /\ ~probe.sent
  /\ probe' = [probe EXCEPT !.sent = TRUE]
  /\ inFlight' = <<[port |-> sockets[1].port, packet |-> ProbePacket]>>
  /\ UNCHANGED <<conf, flow, pc, mode, sockets, kernelVars, drainAt, submitted, packets, foreign>>

\* A socket call of the probe or the drain fails.
ProbeFails ==
  /\ pc \in {"probe", "drain"} /\ GiveUp
  /\ UNCHANGED <<conf, flow, submitted, packets, foreign>>

\* A datagram reaches its port; it is lost when nothing is bound to it.
Arrives(port, packet, h) ==
  LET hosts == {i \in DOMAIN sockets : sockets[i].port = port}
      host == CHOOSE i \in hosts : Selects(packet.worker, h) \in hosts => i = Selects(packet.worker, h)
  IN sockets' = IF hosts = {} THEN sockets
                ELSE [sockets EXCEPT ![host].queue = Append(@, packet)]

\* Mutant of ProbeArrives: a sender of its own for each probe.
ProbeArrivesAnyFlow ==
  /\ inFlight # <<>> /\ inFlight' = <<>>
  /\ \E h \in Workers : Arrives(inFlight[1].port, inFlight[1].packet, h)
  /\ UNCHANGED <<conf, flow, pc, mode, kernelVars, probe, drainAt, submitted, packets, foreign>>

\* All probes come from one sender, hence from one flow; one may come late,
\* after the deadline, to whatever has the port then.
ProbeArrives ==
  /\ inFlight # <<>> /\ inFlight' = <<>>
  /\ Arrives(inFlight[1].port, inFlight[1].packet, flow)
  /\ UNCHANGED <<conf, flow, pc, mode, kernelVars, probe, drainAt, submitted, packets, foreign>>

Scanned == sockets[probe.at].queue

\* Within a scan; the deadline is looked at before the first socket only.
Scanning == pc = "probe" /\ probe.sent /\ (probe.at = 1 => ~probe.expired)

\* Mutant of ScanEmpty: the scan is not left when the deadline is over.
ScanForever ==
  /\ pc = "probe" /\ probe.sent /\ Scanned = <<>>
  /\ probe' = [probe EXCEPT !.at = IF @ = NumWorkers THEN 1 ELSE @ + 1, !.expired = FALSE]
  /\ UNCHANGED <<conf, flow, pc, mode, sockets, kernelVars, inFlight, drainAt, submitted, packets,
                 foreign>>

\* recv_from would block: the next socket, and after the last one again the first.
ScanEmpty ==
  /\ Scanning /\ Scanned = <<>>
  /\ probe' = [probe EXCEPT !.at = IF @ = NumWorkers THEN 1 ELSE @ + 1]
  /\ UNCHANGED <<conf, flow, pc, mode, sockets, kernelVars, inFlight, drainAt, submitted, packets,
                 foreign>>

\* The probe at its socket: on to the next one, or to the drain.
ScanHit ==
  /\ Scanning /\ Scanned # <<>>
  /\ Head(Scanned) = ProbePacket /\ probe.at = probe.expected
  /\ sockets' = [sockets EXCEPT ![probe.at].queue = Tail(@)]
  /\ IF probe.expected = NumWorkers
     THEN pc' = "drain" /\ probe' = NoProbe
     ELSE UNCHANGED pc /\ probe' = [NoProbe EXCEPT !.expected = probe.expected + 1]
  /\ UNCHANGED <<conf, flow, mode, kernelVars, inFlight, drainAt, submitted, packets, foreign>>

\* The probe at another socket, or any other datagram.
ScanMiss ==
  /\ Scanning /\ Scanned # <<>>
  /\ ~(Head(Scanned) = ProbePacket /\ probe.at = probe.expected)
  /\ GiveUp
  /\ UNCHANGED <<conf, flow, submitted, packets, foreign>>

\* 100 ms have passed since the send, whether or not the packet is still to come.
Deadline ==
  /\ pc = "probe" /\ probe.sent /\ ~probe.expired
  /\ probe' = [probe EXCEPT !.expired = TRUE]
  /\ UNCHANGED <<conf, flow, pc, mode, sockets, kernelVars, inFlight, drainAt, submitted, packets,
                 foreign>>

ProbeTimeout ==
  /\ pc = "probe" /\ probe.expired /\ probe.at = 1
  /\ GiveUp
  /\ UNCHANGED <<conf, flow, submitted, packets, foreign>>

\* quic_reuseport_selector_drain_probe_packets: whatever is queued is discarded.
DrainOne ==
  /\ pc = "drain" /\ drainAt <= NumWorkers /\ sockets[drainAt].queue # <<>>
  /\ sockets' = [sockets EXCEPT ![drainAt].queue = Tail(@)]
  /\ UNCHANGED <<conf, flow, pc, mode, kernelVars, probeVars, submitted, packets, foreign>>

DrainNext ==
  /\ pc = "drain" /\ drainAt <= NumWorkers /\ sockets[drainAt].queue = <<>>
  /\ drainAt' = drainAt + 1
  /\ UNCHANGED <<conf, flow, pc, mode, sockets, kernelVars, probe, inFlight, submitted, packets,
                 foreign>>

DrainDone ==
  /\ pc = "drain" /\ drainAt > NumWorkers /\ pc' = "submit"
  /\ UNCHANGED <<conf, flow, mode, sockets, kernelVars, probeVars, submitted, packets, foreign>>

-----------------------------------------------------------------------------
(* The tasks: one listener per socket, or one dispatcher per worker and    *)
(* the acceptor that owns the single socket.                               *)

Tasks == IF mode = "simulated" THEN NumWorkers + 1 ELSE Len(sockets)

Submit ==
  /\ pc = "submit" /\ submitted < Tasks /\ submitted' = submitted + 1
  /\ pc' = IF submitted' = Tasks THEN "serving" ELSE pc
  /\ UNCHANGED <<conf, flow, mode, sockets, kernelVars, probeVars, packets, foreign>>

\* The socket cannot be cloned for the next worker's view: serve_socket returns
\* the error, the callbacks submitted before run on, and their clones keep the port.
CloneFails ==
  /\ pc = "submit" /\ mode = "simulated" /\ conf.callback /\ submitted < NumWorkers
  /\ pc' = "error"
  /\ sockets' = IF submitted = 0 THEN <<>> ELSE sockets
  /\ UNCHANGED <<conf, flow, mode, kernelVars, probeVars, submitted, packets, foreign>>

-----------------------------------------------------------------------------
(* Other programs.                                                         *)

\* A QUIC client whose connection id names worker w sends to the port; without
\* a selector its flow hashes to some socket of the group.
ClientSends(w) ==
  /\ conf.kind = "quic" /\ sockets # <<>> /\ packets < MaxPackets
  /\ packets' = packets + 1
  /\ \E h \in DOMAIN sockets : Arrives(sockets[1].port, [kind |-> "client", worker |-> w], h)
  /\ UNCHANGED <<conf, flow, pc, mode, kernelVars, probeVars, submitted, foreign>>

TakePort ==
  /\ ~foreign /\ FixedPort \notin InUse /\ foreign' = TRUE
  /\ UNCHANGED <<conf, flow, pc, mode, sockets, kernelVars, probeVars, submitted, packets>>

-----------------------------------------------------------------------------
Serve == \/ Choose \/ Bind \/ BindDone \/ BindFails \/ LocalAddrFails
         \/ AttachEbpf \/ EbpfFails \/ AttachCbpf \/ CbpfFails
         \/ ProbeSend \/ ProbeFails \/ ScanEmpty \/ ScanHit \/ ScanMiss \/ ProbeTimeout
         \/ DrainOne \/ DrainNext \/ DrainDone \/ Submit \/ CloneFails

Others == ProbeArrives \/ TakePort \/ \E w \in Workers : ClientSends(w)

Next == Serve \/ Deadline \/ Others

Spec == Init /\ [][Next]_vars

\* The calling thread goes on and time passes; no packet has to arrive.
FairSpec == Spec /\ WF_vars(Serve) /\ WF_vars(Deadline)

-----------------------------------------------------------------------------
Serving == pc \in {"submit", "serving"}

TypeOK ==
  /\ conf \in Config /\ flow \in Workers
  /\ pc \in {"choose", "bind", "ebpf", "cbpf", "probe", "drain", "submit", "serving", "error"}
  /\ mode \in {"native", "selector", "simulated"}
  /\ sockets \in Seq([port : Ports, options : SUBSET Options, queue : Seq(Packet)])
  /\ Len(sockets) <= NumWorkers
  /\ program \in {"none", "ebpf", "cbpf"} /\ honoured \in BOOLEAN
  /\ probe \in [expected : 0..NumWorkers, sent : BOOLEAN, at : Workers,
               expired : BOOLEAN]
  /\ inFlight \in Seq([port : Ports, packet : Packet]) /\ Len(inFlight) <= 1
  /\ drainAt \in 1..(NumWorkers + 1) /\ submitted \in 0..(NumWorkers + 1)
  /\ packets \in 0..MaxPackets /\ foreign \in BOOLEAN

\* A QUIC group is handed to the workers only if the kernel takes every worker's
\* datagrams to that worker's socket (the probe's verdict is right: hashing alone
\* cannot pass, since one flow hashes to one socket).
SelectorVerified ==
  /\ TypeOK
  /\ (Serving /\ mode = "selector") => \A w \in Workers : Selects(w, flow) = w

\* What came to the group before the selector was attached went by hash; when the
\* group is handed over, every datagram queued is at the worker its connection id
\* names (bpf_callback_listener does not route again), and no probe is left in a
\* queue or under way.
CleanHandOver ==
  (Serving /\ mode = "selector") =>
     /\ inFlight = <<>>
     /\ \A i \in DOMAIN sockets : \A j \in DOMAIN sockets[i].queue :
           sockets[i].queue[j] = [kind |-> "client", worker |-> i]

\* The sockets of a service agree: a group for a fixed port, and a QUIC group on
\* any port, is bound to one port; a Required transparent option is on all of them.
GroupConsistent ==
  Serving =>
     /\ (conf.port = "fixed" \/ conf.kind = "quic") => Cardinality(InUse) = 1
     /\ conf.transparent = "required" => \A i \in DOMAIN sockets : sockets[i].options = Options

\* The userspace path never shares its port with a socket of an abandoned group,
\* to which the kernel would go on handing datagrams.  An error leaves neither
\* socket nor task behind, with one exception: serve_socket in userspace, when it
\* fails between the callbacks of two workers.
NoSocketLeftBehind ==
  /\ mode = "simulated" => Len(sockets) <= 1 /\ program = "none"
  /\ pc = "error" => \/ sockets = <<>> /\ submitted = 0
                     \/ mode = "simulated" /\ conf.callback /\ submitted \in 1..(NumWorkers - 1)

\* serve() returns, with a server or an error, whatever the probe meets.
ServeReturns == <>(pc \in {"serving", "error"})
=============================================================================

---------------------------- MODULE QuicSelector ----------------------------
(***************************************************************************)
(* One packet on its way to a worker of a QuicServer: through the          *)
(* userspace rule, or through the eBPF or the classic BPF program that     *)
(* platform/linux.rs attaches to the reuse-port group, one instruction per *)
(* step, and then the check of the worker loop.  What is modelled of the   *)
(* kernel is the instruction set and that the program's value names the    *)
(* socket.                                                                 *)
(***************************************************************************)
EXTENDS QuicRouting

CONSTANTS Packets,       \* packets that clients send
          Randoms,       \* byte strings getrandom may produce
          WorkerCounts

ASSUME SelectorAssumption == WorkerCounts \subseteq Nat \ {0}
ASSUME BytesAssumption == Packets \subseteq Seq(Byte) /\ Randoms \subseteq Seq(Byte)

VARIABLES selector,  \* "userspace", "ebpf" or "cbpf"
          workers,   \* number of workers
          packet,
          origin,    \* the worker whose connection id the packet carries
          stage,     \* where the packet is on the receive path
          pc,        \* the next instruction of the kernel program
          reg,       \* eBPF registers; the classic accumulator is reg[0]
          selected,  \* the socket the kernel chose
          delivered  \* the worker whose handler gets the packet

vars == <<selector, workers, packet, origin, stage, pc, reg, selected, delivered>>

\* Mutant of Ins: the bounds checks do not jump.
InsUnchecked(op, dst, src, off, imm) ==
  [op |-> op, dst |-> dst, src |-> src, off |-> IF op = "jgtx" THEN 0 ELSE off, imm |-> imm]

Ins(op, dst, src, off, imm) == [op |-> op, dst |-> dst, src |-> src, off |-> off, imm |-> imm]

\* quic_reuseport_ebpf: r1 is the context, r2 the data, r3 its end.  modw is the
\* remainder by the worker count the program was built with.
Ebpf == <<
  Ins("movx", 6, 1, 0, 0), Ins("ldctx", 2, 6, 0, 0), Ins("ldctx", 3, 6, 8, 0),
  Ins("movx", 4, 2, 0, 0), Ins("addk", 4, 0, 0, 1),  Ins("jgtx", 4, 3, 26, 0),
  Ins("ldxb", 0, 2, 0, 0), Ins("andk", 0, 0, 0, 128), Ins("jeqk", 0, 0, 14, 0),
  Ins("movx", 4, 2, 0, 0), Ins("addk", 4, 0, 0, 6),  Ins("jgtx", 4, 3, 20, 0),
  Ins("ldxb", 4, 2, 5, 0), Ins("jltk", 4, 0, 18, 2),
  Ins("movx", 5, 2, 0, 0), Ins("addk", 5, 0, 0, 8),  Ins("jgtx", 5, 3, 15, 0),
  Ins("ldxb", 0, 2, 6, 0), Ins("lshk", 0, 0, 0, 8),  Ins("ldxb", 4, 2, 7, 0),
  Ins("orx", 0, 4, 0, 0),  Ins("modw", 0, 0, 0, 0), Ins("exit", 0, 0, 0, 0),
  Ins("movx", 4, 2, 0, 0), Ins("addk", 4, 0, 0, 3),  Ins("jgtx", 4, 3, 6, 0),
  Ins("ldxb", 0, 2, 1, 0), Ins("lshk", 0, 0, 0, 8),  Ins("ldxb", 4, 2, 2, 0),
  Ins("orx", 0, 4, 0, 0),  Ins("modw", 0, 0, 0, 0), Ins("exit", 0, 0, 0, 0),
  Ins("movk", 0, 0, 0, 0), Ins("exit", 0, 0, 0, 0) >>

\* quic_reuseport_cbpf: ld byte or half-word at k, jump if set, jump always.
Cbpf == <<
  Ins("ldb", 0, 0, 0, 0), Ins("jset", 0, 2, 0, 128), Ins("ldh", 0, 0, 0, 6),
  Ins("ja", 0, 0, 1, 0),  Ins("ldh", 0, 0, 0, 1),    Ins("modw", 0, 0, 0, 0),
  Ins("exit", 0, 0, 0, 0) >>

Program == IF selector = "ebpf" THEN Ebpf ELSE Cbpf

\* x & 2^k, and x | y for operands without a common bit.
AndBit(x, bit) == ((x \div bit) % 2) * bit
OrDisjoint(x, y) == x + y
-----------------------------------------------------------------------------
\* quic_reuseport_selector_routes_probe refuses a group whose indices do not fit
\* the two bytes of the prefix: it sends no probe, and the service falls back.
FitsPrefix == workers <= MaxWorkerIndex + 1

Init == /\ selector \in {"userspace", "ebpf", "cbpf"}
        /\ workers \in WorkerCounts
        /\ selector # "userspace" => FitsPrefix
        /\ packet = <<>> /\ origin = NoWorker
        /\ stage = "idle" /\ pc = 0
        /\ reg = [i \in 0 .. 6 |-> 0]
        /\ selected = NoWorker /\ delivered = NoWorker

Arrives(p, w) == /\ packet' = p /\ origin' = w
                 /\ stage' = IF selector = "userspace" THEN "route" ELSE "kernel"
                 /\ UNCHANGED <<selector, workers, pc, reg, selected, delivered>>

\* A packet whose connection id the client chose, or that is not QUIC at all.
ClientPacket == stage = "idle" /\ \E p \in Packets : Arrives(p, NoWorker)

\* A packet that carries a connection id generated by worker w.
ConnectionPacket ==
  /\ stage = "idle"
  /\ \E w \in 0 .. workers - 1, r \in Randoms :
       /\ ValidGenerator(w, Len(r))
       /\ LET cid == GenerateCid(w, r)
          IN  Arrives(LongPacket(cid, <<>>), w) \/ Arrives(ShortPacket(cid, <<9>>), w)

\* The probe of the bind, before the server has any traffic.
ProbePacket ==
  stage = "idle" /\ FitsPrefix /\ \E i \in 0 .. workers - 1 : Arrives(QuicReuseportProbePacket(i), i)

\* Mutant of Route: an unroutable packet is tried again instead of dropped.
RouteRetries == /\ stage = "route" /\ QuicWorkerIndex(packet, workers) # NoWorker
                /\ delivered' = QuicWorkerIndex(packet, workers)
                /\ stage' = "done"
                /\ UNCHANGED <<selector, workers, packet, origin, pc, reg, selected>>

\* quic_routed_udp_listener_loop and the fallback dispatcher.
Route == /\ stage = "route"
         /\ delivered' = QuicWorkerIndex(packet, workers)
         /\ stage' = "done"
         /\ UNCHANGED <<selector, workers, packet, origin, pc, reg, selected>>

\* Mutant of Check: the worker loop trusts the kernel's selection.
CheckNothing == /\ stage = "check"
                /\ delivered' = selected
                /\ stage' = "done"
                /\ UNCHANGED <<selector, workers, packet, origin, pc, reg, selected>>

\* quic_reuseport_bpf_listener_loop_with_state on the selected socket.
Check == /\ stage = "check"
         /\ delivered' = IF QuicReuseportBpfAcceptsPacket(packet, workers)
                         THEN selected ELSE NoWorker
         /\ stage' = "done"
         /\ UNCHANGED <<selector, workers, packet, origin, pc, reg, selected>>

Set(i, v) == reg' = [reg EXCEPT ![i] = v] /\ pc' = pc + 1 /\ UNCHANGED <<stage, selected>>

Jump(cond, off) == /\ pc' = IF cond THEN pc + 1 + off ELSE pc + 1
                   /\ UNCHANGED <<stage, reg, selected>>
Return(v) == selected' = v /\ stage' = "check" /\ UNCHANGED <<pc, reg>>

\* Data starts at address 0 and ends at Len(packet).  A classic load outside
\* the packet ends the program with 0.
Execute ==
  /\ stage = "kernel"
  /\ LET i == Program[pc + 1]
         d == reg[i.dst]
         s == reg[i.src]
     IN CASE i.op = "movx"  -> Set(i.dst, s)
          [] i.op = "movk"  -> Set(i.dst, i.imm)
          [] i.op = "ldctx" -> Set(i.dst, IF i.off = 0 THEN 0 ELSE Len(packet))
          [] i.op = "addk"  -> Set(i.dst, d + i.imm)
          [] i.op = "ldxb"  -> Set(i.dst, packet[s + i.off + 1])
          [] i.op = "andk"  -> Set(i.dst, AndBit(d, i.imm))
          [] i.op = "lshk"  -> Set(i.dst, d * 2^i.imm)
          [] i.op = "orx"   -> Set(i.dst, OrDisjoint(d, s))
          [] i.op = "modw"  -> Set(i.dst, d % workers)
          [] i.op = "jgtx"  -> Jump(d > s, i.off)
          [] i.op = "jeqk"  -> Jump(d = i.imm, i.off)
          [] i.op = "jltk"  -> Jump(d < i.imm, i.off)
          [] i.op = "ja"    -> Jump(TRUE, i.off)
          [] i.op = "jset"  -> Jump(AndBit(d, i.imm) = 0, i.src)
          [] i.op = "ldb"   -> IF i.imm + 1 <= Len(packet)
                               THEN Set(0, packet[i.imm + 1]) ELSE Return(0)
          [] i.op = "ldh"   -> IF i.imm + 2 <= Len(packet)
                               THEN Set(0, packet[i.imm + 1] * 256 + packet[i.imm + 2])
                               ELSE Return(0)
          [] i.op = "exit"  -> Return(reg[0])
  /\ UNCHANGED <<selector, workers, packet, origin, delivered>>

Next == ClientPacket \/ ConnectionPacket \/ ProbePacket \/ Route \/ Execute \/ Check

Spec == Init /\ [][Next]_vars

\* The kernel runs a program to its end and the worker loop takes the packet.
FairSpec == Spec /\ WF_vars(Route \/ Execute \/ Check)

-----------------------------------------------------------------------------
TypeOK == /\ selector \in {"userspace", "ebpf", "cbpf"}
          /\ workers \in WorkerCounts
          /\ packet \in Seq(Byte)
          /\ origin \in 0 .. workers - 1 \cup {NoWorker}
          /\ stage \in {"idle", "route", "kernel", "check", "done"}
          /\ pc \in 0 .. Len(Program) - 1
          /\ reg \in [0 .. 6 -> Nat]
          /\ selected \in Nat \cup {NoWorker} /\ delivered \in Nat \cup {NoWorker}

\* Every byte the eBPF program loads lies inside the packet: each load is
\* covered by a comparison with data_end on every path that reaches it, as the
\* kernel's verifier demands of quic_reuseport_ebpf.
LoadsInBounds ==
  /\ TypeOK
  /\ (selector = "ebpf" /\ stage = "kernel") =>
       LET i == Ebpf[pc + 1] IN i.op = "ldxb" => reg[i.src] + i.off < Len(packet)

\* All three ways to a handler agree with one rule: the packet goes to the
\* worker that quic_worker_index names, or to none if it names none.
SelectorsAgree == stage = "done" => delivered = QuicWorkerIndex(packet, workers)

\* A packet with a connection id that worker w generated reaches worker w, under
\* a long and a short header, through every selector, and so does w's probe.
ConnectionAffinity == (stage = "done" /\ origin # NoWorker) => delivered = origin

\* Every packet that arrives is decided: no selector program loops or gets stuck.
Decided == (stage # "idle") ~> (stage = "done")
=============================================================================

---------------------------- MODULE RoutedReceive ----------------------------
(***************************************************************************)
(* Reading a routed socket view: RoutedUdpSocket of core/udp.rs.  The       *)
(* receiver of the view's packet channel is read by recv_from().await and,  *)
(* for quinn, by poll_recv_from.  On tokio the receiver is behind an async  *)
(* mutex, which recv_from holds while it waits; on async-std each reader    *)
(* has a listener of its own.  The primitives are external: the mutex is    *)
(* fair and hands over, the tokio receiver keeps one waker, the async-std   *)
(* channel notifies one listener per packet.                                *)
(***************************************************************************)
EXTENDS Naturals, Sequences, FiniteSets

CONSTANTS NumReaders,
          Capacity,     \* routed_packet_channel_capacity
          MaxPackets,   \* bound: packets routed to the view
          MaxDrops,     \* bound: recv futures dropped before they are done
          Configs       \* the runtimes and reader kinds to consider

Readers == 1..NumReaders
NoReader == 0

Config == [runtime : {"tokio", "async-std"}, kind : [Readers -> {"await", "poll", "off"}]]

ASSUME CountsAssumption == /\ NumReaders \in Nat \ {0} /\ Capacity \in Nat \ {0}
                           /\ MaxPackets \in Nat /\ MaxDrops \in Nat
ASSUME ConfigsAssumption == Configs \subseteq Config

VARIABLES conf,
          stage,      \* what each reader's task is doing
          owner,      \* tokio: the reader with the mutex guard
          waiters,    \* tokio: lock futures in the mutex's queue
          rxWaker,    \* tokio: the task the receiver would wake
          listeners,  \* async-std: recv futures with a listener, oldest first
          queue,      \* ids of the packets in the channel
          closed,     \* the dispatcher has dropped the sender
          sent, drops

lockVars == <<owner, waiters>>
vars == <<conf, stage, lockVars, rxWaker, listeners, queue, closed, sent, drops>>

Stages == {"idle", "lock", "lock_wait", "recv", "recv_wait", "notified", "poll", "poll_locked",
           "parked", "done"}
Tokio == conf.runtime = "tokio"

Init == /\ conf \in Configs
        /\ stage = [r \in Readers |-> "idle"]
        /\ owner = NoReader /\ waiters = <<>> /\ rxWaker = NoReader /\ listeners = <<>>
        /\ queue = <<>> /\ closed = FALSE /\ sent = 0 /\ drops = 0

-----------------------------------------------------------------------------
(* The mutex, the wakers and the listeners (external).                     *)

\* A future has at most one place in a queue; it gives that up.
Without(q, r) ==
  IF \E i \in DOMAIN q : q[i] = r
  THEN LET at == CHOOSE i \in DOMAIN q : q[i] = r IN SubSeq(q, 1, at - 1) \o SubSeq(q, at + 1, Len(q))
  ELSE q

\* The readers' stages s after reader r has given the guard back.
Unlock(s, r) ==
  IF owner # r THEN /\ owner' = owner /\ waiters' = Without(waiters, r) /\ stage' = s
  ELSE IF waiters = <<>> THEN owner' = NoReader /\ waiters' = waiters /\ stage' = s
  ELSE /\ owner' = Head(waiters) /\ waiters' = Tail(waiters)
       /\ stage' = [s EXCEPT ![Head(waiters)] = "recv"]

\* The task of reader r is woken: its future, if it waits, is polled again.
Woken(s) == CASE s = "recv_wait" -> "recv" [] s = "parked" -> "poll" [] OTHER -> s

WakeReceiver == /\ rxWaker' = NoReader
                /\ stage' = [r \in Readers |-> IF r = rxWaker THEN Woken(stage[r]) ELSE stage[r]]

\* n listeners are notified: one for a packet, all of them at the close.
Notify(n) ==
  LET woken == {listeners[i] : i \in {j \in DOMAIN listeners : j <= n}}
  IN /\ stage' = [r \in Readers |-> IF r \in woken THEN "notified" ELSE stage[r]]
     /\ listeners' = SubSeq(listeners, n + 1, Len(listeners))

-----------------------------------------------------------------------------
(* recv_from().await: recv_packet.                                         *)

\* The application calls recv_from, or quinn polls the view.
Begin(r) ==
  /\ stage[r] = "idle" /\ conf.kind[r] # "off"
  /\ stage' = [stage EXCEPT ![r] = IF conf.kind[r] = "poll" THEN "poll"
                                   ELSE IF Tokio THEN "lock" ELSE "recv"]
  /\ UNCHANGED <<conf, lockVars, rxWaker, listeners, queue, closed, sent, drops>>

\* self.receiver.lock().await
Lock(r) ==
  /\ stage[r] = "lock"
  /\ IF owner = NoReader
     THEN owner' = r /\ stage' = [stage EXCEPT ![r] = "recv"] /\ UNCHANGED waiters
     ELSE waiters' = Append(waiters, r) /\ stage' = [stage EXCEPT ![r] = "lock_wait"]
          /\ UNCHANGED owner
  /\ UNCHANGED <<conf, rxWaker, listeners, queue, closed, sent, drops>>

\* A packet, or the end of the channel, is there: the call returns.
Ready(r) ==
  /\ queue # <<>> \/ closed
  /\ Unlock([stage EXCEPT ![r] = IF queue = <<>> THEN "done" ELSE "idle"], r)
  /\ queue' = IF queue = <<>> THEN queue ELSE Tail(queue)
  /\ UNCHANGED <<conf, rxWaker, listeners, closed, sent, drops>>

\* The receive of a reader whose future is polled (on tokio with the guard).
Recv(r) == stage[r] \in {"recv", "notified"} /\ Ready(r)

\* Mutant of RecvPending: the tokio future does not register.
RecvPendingMute(r) ==
  /\ stage[r] \in {"recv", "notified"} /\ queue = <<>> /\ ~closed
  /\ stage' = [stage EXCEPT ![r] = "recv_wait"]
  /\ IF Tokio THEN UNCHANGED <<rxWaker, listeners>>
              ELSE listeners' = Append(listeners, r) /\ UNCHANGED rxWaker
  /\ UNCHANGED <<conf, lockVars, queue, closed, sent, drops>>

\* Nothing there: the future keeps its place, on tokio the guard as well.
RecvPending(r) ==
  /\ stage[r] \in {"recv", "notified"} /\ queue = <<>> /\ ~closed
  /\ stage' = [stage EXCEPT ![r] = "recv_wait"]
  /\ IF Tokio THEN rxWaker' = r /\ UNCHANGED listeners
              ELSE listeners' = Append(listeners, r) /\ UNCHANGED rxWaker
  /\ UNCHANGED <<conf, lockVars, queue, closed, sent, drops>>

\* Mutant of Drop: the guard is not given back.
DropKeepsGuard(r) ==
  /\ conf.kind[r] = "await" /\ stage[r] \notin {"idle", "done"} /\ drops < MaxDrops
  /\ drops' = drops + 1
  /\ stage' = [stage EXCEPT ![r] = "idle"]
  /\ UNCHANGED owner /\ waiters' = Without(waiters, r) /\ listeners' = Without(listeners, r)
  /\ UNCHANGED <<conf, rxWaker, queue, closed, sent>>

\* The application drops the recv_from future (a timeout, a select).  Its place
\* in a queue and its guard go with it; a notification it had goes to the next.
Drop(r) ==
  /\ conf.kind[r] = "await" /\ stage[r] \notin {"idle", "done"} /\ drops < MaxDrops
  /\ drops' = drops + 1
  /\ IF stage[r] = "notified" /\ listeners # <<>>
     THEN /\ stage' = [stage EXCEPT ![r] = "idle", ![Head(listeners)] = "notified"]
          /\ listeners' = Tail(listeners) /\ UNCHANGED lockVars
     ELSE Unlock([stage EXCEPT ![r] = "idle"], r) /\ listeners' = Without(listeners, r)
  /\ UNCHANGED <<conf, rxWaker, queue, closed, sent>>

-----------------------------------------------------------------------------
(* poll_recv_packet: futures made for one poll.                            *)

\* tokio: the lock; a Pending lock future is dropped, and with it its waker.
PollLock(r) ==
  /\ Tokio /\ stage[r] = "poll"
  /\ IF owner = NoReader
     THEN owner' = r /\ stage' = [stage EXCEPT ![r] = "poll_locked"]
     ELSE stage' = [stage EXCEPT ![r] = "parked"] /\ UNCHANGED owner
  /\ UNCHANGED <<conf, waiters, rxWaker, listeners, queue, closed, sent, drops>>

AtReceiver(r) == stage[r] = IF Tokio THEN "poll_locked" ELSE "poll"

PollRecv(r) == AtReceiver(r) /\ Ready(r)

\* Pending.  The tokio receiver keeps the waker when the future is dropped; the
\* listener of an async-std future does not outlive it.
PollPending(r) ==
  /\ AtReceiver(r) /\ queue = <<>> /\ ~closed
  /\ Unlock([stage EXCEPT ![r] = "parked"], r)
  /\ rxWaker' = IF Tokio THEN r ELSE rxWaker
  /\ UNCHANGED <<conf, listeners, queue, closed, sent, drops>>

-----------------------------------------------------------------------------
(* The dispatcher.                                                         *)

\* send_routed_packet
Send ==
  /\ ~closed /\ sent < MaxPackets /\ Len(queue) < Capacity
  /\ sent' = sent + 1 /\ queue' = Append(queue, sent + 1)
  /\ IF Tokio THEN WakeReceiver /\ UNCHANGED listeners ELSE Notify(1) /\ UNCHANGED rxWaker
  /\ UNCHANGED <<conf, lockVars, closed, drops>>

\* The dispatcher ends and drops its senders.
Close ==
  /\ ~closed /\ closed' = TRUE
  /\ IF Tokio THEN WakeReceiver /\ UNCHANGED listeners
              ELSE Notify(Len(listeners)) /\ UNCHANGED rxWaker
  /\ UNCHANGED <<conf, lockVars, queue, sent, drops>>

-----------------------------------------------------------------------------
Reader(r) == \/ Begin(r) \/ Lock(r) \/ Recv(r) \/ RecvPending(r)
             \/ PollLock(r) \/ PollRecv(r) \/ PollPending(r)

Next == Send \/ Close \/ \E r \in Readers : Reader(r) \/ Drop(r)

Spec == Init /\ [][Next]_vars

\* A woken task is polled, and a reader that got a packet asks for the next.
FairSpec == Spec /\ \A r \in Readers : WF_vars(Reader(r))

-----------------------------------------------------------------------------
TypeOK == /\ conf \in Config
          /\ stage \in [Readers -> Stages]
          /\ owner \in Readers \cup {NoReader} /\ waiters \in Seq(Readers)
          /\ rxWaker \in Readers \cup {NoReader} /\ listeners \in Seq(Readers)
          /\ queue \in Seq(1..MaxPackets) /\ Len(queue) <= Capacity
          /\ closed \in BOOLEAN /\ sent \in 0..MaxPackets /\ drops \in 0..MaxDrops

Asleep(r) == stage[r] \in {"lock_wait", "recv_wait", "parked"}

\* No wake-up is lost: while a packet is queued, or the channel has ended, the
\* readers that wait for the view are not all asleep, whichever recv futures the
\* application has dropped, with or without the guard or a notification.
PacketWakesReader ==
  /\ TypeOK
  /\ (queue # <<>> \/ closed) =>
       ((\E r \in Readers : Asleep(r)) =>
           \E r \in Readers : ~Asleep(r) /\ stage[r] \notin {"idle", "done"})

\* The end of the channel reaches every reader, also those that wait for the guard.
EndReachesReaders ==
  closed ~> \A r \in Readers : conf.kind[r] = "off" \/ stage[r] = "done"

\* The design document's claim: a poll that finds no packet registers the waker,
\* so that a parked poller is polled again when a packet has come.
PollerIsWoken ==
  \A r \in Readers : (stage[r] = "parked" /\ queue # <<>>) ~> (stage[r] # "parked")
=============================================================================

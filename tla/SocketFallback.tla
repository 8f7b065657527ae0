--------------------------- MODULE SocketFallback ---------------------------
(***************************************************************************)
(* serve_socket on the userspace path: a dispatcher task on worker 0 reads  *)
(* the only socket and routes each packet to the bounded channel of one     *)
(* worker's routed socket view; each worker's callback task reads its own   *)
(* view.  On the tokio runtime.                                             *)
(***************************************************************************)
EXTENDS Naturals, Sequences

CONSTANTS NumWorkers,
          Capacity,     \* routed_packet_channel_capacity
          MaxArrivals   \* bound: packets in a behaviour

ASSUME FallbackAssumption == /\ NumWorkers \in Nat \ {0} /\ Capacity \in Nat \ {0}
                             /\ MaxArrivals \in Nat

Workers == 0 .. NumWorkers - 1

VARIABLES
  active, runtimeActive,
  closing,     \* how far close() is: no, sockets, tasks, closed
  stopped,     \* worker threads that have been shut down and joined
  dispatcher,  \* stage of the dispatcher task
  cancelled,   \* its Cancel command is in the executor's queue
  held,        \* the packet it is working on
  inbox,       \* the socket's unread packets
  view,        \* each worker's callback: queued, open, closed
  queue,       \* each view's routed packet channel
  routed,      \* history: ids for which send_routed_packet was called, per worker
  read,        \* history: ids the callback has read, per worker
  lateRouted,  \* history: packets routed after close() had begun
  arrivals

stateVars == <<active, runtimeActive, closing, stopped, cancelled>>
vars == <<stateVars, dispatcher, held, inbox, view, queue, routed, read, lateRouted, arrivals>>

\* A packet: its id (0 for the wake-up datagram), and its worker or none when
\* the QUIC rule cannot route it.
NoRoute == NumWorkers
Packet == [id : 0 .. MaxArrivals, to : 0 .. NumWorkers]
Nothing == [id |-> 0, to |-> NoRoute]
Stages == {"queued", "check", "recv", "received", "send", "ended"}

Init == /\ active = TRUE /\ runtimeActive = TRUE /\ closing = "no" /\ stopped = {}
        /\ dispatcher = "queued" /\ cancelled = FALSE /\ held = Nothing /\ inbox = <<>>
        /\ view = [w \in Workers |-> "queued"]
        /\ queue = [w \in Workers |-> <<>>]
        /\ routed = [w \in Workers |-> <<>>]
        /\ read = [w \in Workers |-> <<>>]
        /\ lateRouted = 0 /\ arrivals = 0

-----------------------------------------------------------------------------
(* dispatch_socket_only_packets.                                           *)

Start == /\ dispatcher = "queued" /\ 0 \notin stopped
         /\ dispatcher' \in {"check", "ended"}     \* the conversion may fail
         /\ UNCHANGED <<stateVars, held, inbox, view, queue, routed, read, lateRouted, arrivals>>

\* Mutant of Check: the flag is not looked at.
CheckNothing == /\ dispatcher = "check"
                /\ dispatcher' = "recv"
                /\ UNCHANGED <<stateVars, held, inbox, view, queue, routed, read, lateRouted, arrivals>>

Check == /\ dispatcher = "check"
         /\ dispatcher' = IF active THEN "recv" ELSE "ended"
         /\ UNCHANGED <<stateVars, held, inbox, view, queue, routed, read, lateRouted, arrivals>>

Receive == /\ dispatcher = "recv" /\ inbox # <<>>
           /\ held' = Head(inbox)
           /\ inbox' = Tail(inbox)
           /\ dispatcher' = "received"
           /\ UNCHANGED <<stateVars, view, queue, routed, read, lateRouted, arrivals>>

ReceiveError == /\ dispatcher = "recv"
                /\ dispatcher' = IF active THEN "check" ELSE "ended"
                /\ UNCHANGED <<stateVars, held, inbox, view, queue, routed, read, lateRouted, arrivals>>

\* route_packet, directly after the recv: the flag is not looked at again.
Route == /\ dispatcher = "received"
         /\ IF held.to = NoRoute
            THEN dispatcher' = "check" /\ held' = Nothing /\ UNCHANGED <<routed, lateRouted>>
            ELSE /\ dispatcher' = "send"
                 /\ routed' = [routed EXCEPT ![held.to] = Append(@, held.id)]
                 /\ lateRouted' = IF active THEN lateRouted ELSE lateRouted + 1
                 /\ UNCHANGED held
         /\ UNCHANGED <<stateVars, inbox, view, queue, read, arrivals>>

\* Mutant of Send: a full channel drops the packet.
TrySend == /\ dispatcher = "send"
           /\ held' = Nothing
           /\ queue' = [queue EXCEPT ![held.to] = IF Len(@) < Capacity THEN Append(@, held) ELSE @]
           /\ dispatcher' = "check"
           /\ UNCHANGED <<stateVars, inbox, view, routed, read, lateRouted, arrivals>>

\* send_routed_packet: waits for room; fails when the view is gone.
Send == /\ dispatcher = "send"
        /\ held' = Nothing
        /\ IF view[held.to] = "closed"
           THEN dispatcher' = "ended" /\ UNCHANGED queue
           ELSE /\ Len(queue[held.to]) < Capacity
                /\ queue' = [queue EXCEPT ![held.to] = Append(@, held)]
                /\ dispatcher' = "check"
        /\ UNCHANGED <<stateVars, inbox, view, routed, read, lateRouted, arrivals>>

ExecuteCancel == /\ cancelled /\ 0 \notin stopped /\ dispatcher \in {"recv", "send", "ended"}
                 /\ cancelled' = FALSE
                 /\ dispatcher' = "ended" /\ held' = Nothing
                 /\ UNCHANGED <<active, runtimeActive, closing, stopped, inbox, view, queue, routed,
                                read, lateRouted, arrivals>>

-----------------------------------------------------------------------------
(* The callback tasks.                                                     *)

CallbackStarts(w) == /\ view[w] = "queued" /\ w \notin stopped
                     /\ view' = [view EXCEPT ![w] = "open"]
                     /\ UNCHANGED <<stateVars, dispatcher, held, inbox, queue, routed, read, lateRouted, arrivals>>

\* RoutedUdpSocket::recv_packet
CallbackReads(w) == /\ view[w] = "open" /\ queue[w] # <<>>
                    /\ read' = [read EXCEPT ![w] = Append(@, Head(queue[w]).id)]
                    /\ queue' = [queue EXCEPT ![w] = Tail(@)]
                    /\ UNCHANGED <<stateVars, dispatcher, held, inbox, view, routed, lateRouted, arrivals>>

CloseView(w) == /\ view' = [view EXCEPT ![w] = "closed"]
                /\ queue' = [queue EXCEPT ![w] = <<>>]

\* "routed UDP socket closed": the senders are gone and the channel is empty.
CallbackSeesEnd(w) == /\ view[w] = "open" /\ queue[w] = <<>> /\ dispatcher = "ended"
                      /\ CloseView(w)
                      /\ UNCHANGED <<stateVars, dispatcher, held, inbox, routed, read, lateRouted, arrivals>>

\* The application ends its callback future.
CallbackReturns(w) == /\ view[w] = "open"
                      /\ CloseView(w)
                      /\ UNCHANGED <<stateVars, dispatcher, held, inbox, routed, read, lateRouted, arrivals>>

-----------------------------------------------------------------------------
CloseBegin == /\ closing = "no"
              /\ active' = FALSE
              /\ closing' = "sockets"
              /\ UNCHANGED <<runtimeActive, stopped, cancelled, dispatcher, held, inbox, view, queue,
                             routed, read, lateRouted, arrivals>>

\* The socket in close_sockets is sent the wake-up datagram (which may be lost)
\* and shut down.  The address rule routes it like any packet; the QUIC rule does not.
CloseSockets == /\ closing = "sockets"
                /\ closing' = "tasks"
                /\ \/ UNCHANGED inbox
                   \/ \E w \in 0 .. NumWorkers :
                        inbox' = Append(inbox, [id |-> 0, to |-> w])
                /\ UNCHANGED <<active, runtimeActive, stopped, cancelled, dispatcher, held, view,
                               queue, routed, read, lateRouted, arrivals>>

\* Mutant of CloseTasks: the dispatcher's handle is only dropped, too.
CloseForgetsTasks == /\ closing = "tasks"
                     /\ closing' = "closed"
                     /\ UNCHANGED <<active, runtimeActive, stopped, cancelled, dispatcher, held, inbox,
                                    view, queue, routed, read, lateRouted, arrivals>>

\* The dispatcher is cancelled; the callback tasks' handles are only dropped.
CloseTasks == /\ closing = "tasks"
              /\ closing' = "closed"
              /\ cancelled' = (0 \notin stopped)
              /\ UNCHANGED <<active, runtimeActive, stopped, dispatcher, held, inbox, view, queue,
                             routed, read, lateRouted, arrivals>>

DropRuntime == /\ runtimeActive
               /\ runtimeActive' = FALSE
               /\ UNCHANGED <<active, closing, stopped, cancelled, dispatcher, held, inbox, view,
                              queue, routed, read, lateRouted, arrivals>>

StopWorker(w) == /\ ~runtimeActive /\ w \notin stopped
                 /\ \A v \in Workers : v < w => v \in stopped
                 /\ w = 0 => dispatcher \in {"queued", "recv", "send", "ended"}
                 /\ stopped' = stopped \cup {w}
                 /\ CloseView(w)
                 /\ IF w = 0 THEN dispatcher' = "ended" /\ held' = Nothing /\ cancelled' = FALSE
                             ELSE UNCHANGED <<dispatcher, held, cancelled>>
                 /\ UNCHANGED <<active, runtimeActive, closing, inbox, routed, read, lateRouted, arrivals>>

Arrive == /\ arrivals < MaxArrivals
          /\ \E w \in 0 .. NumWorkers :
               inbox' = Append(inbox, [id |-> arrivals + 1, to |-> w])
          /\ arrivals' = arrivals + 1
          /\ UNCHANGED <<stateVars, dispatcher, held, view, queue, routed, read, lateRouted>>

-----------------------------------------------------------------------------
DispatcherStep == Start \/ Check \/ Receive \/ Route \/ Send

CallbackStep(w) == CallbackStarts(w) \/ CallbackReads(w) \/ CallbackSeesEnd(w)

CloseStep == CloseSockets \/ CloseTasks

Next == \/ DispatcherStep \/ ReceiveError \/ ExecuteCancel
        \/ \E w \in Workers : CallbackStep(w) \/ CallbackReturns(w) \/ StopWorker(w)
        \/ CloseBegin \/ CloseStep \/ DropRuntime \/ Arrive

Spec == Init /\ [][Next]_vars

\* Ready tasks are polled, commands are taken, a begun close() or drop goes on;
\* a callback keeps reading its view until it sees the end or returns.
Fairness == /\ WF_vars(DispatcherStep) /\ WF_vars(ExecuteCancel) /\ WF_vars(CloseStep)
            /\ \A w \in Workers : WF_vars(CallbackStep(w)) /\ WF_vars(StopWorker(w))

FairSpec == Spec /\ Fairness

-----------------------------------------------------------------------------
Ids(packets) == [i \in 1 .. Len(packets) |-> packets[i].id]

InFlight(w) == IF dispatcher = "send" /\ held.to = w THEN <<held.id>> ELSE <<>>

TypeOK == /\ active \in BOOLEAN /\ runtimeActive \in BOOLEAN /\ cancelled \in BOOLEAN
          /\ closing \in {"no", "sockets", "tasks", "closed"}
          /\ stopped \subseteq Workers
          /\ dispatcher \in Stages /\ held \in Packet /\ inbox \in Seq(Packet)
          /\ view \in [Workers -> {"queued", "open", "closed"}]
          /\ queue \in [Workers -> Seq(Packet)] /\ \A w \in Workers : Len(queue[w]) <= Capacity
          /\ routed \in [Workers -> Seq(0 .. MaxArrivals)] /\ read \in [Workers -> Seq(0 .. MaxArrivals)]
          /\ lateRouted \in Nat /\ arrivals \in 0 .. MaxArrivals

\* A full channel delays packets and loses none: while the dispatcher runs, what
\* a live view has read, what waits in its channel and what is being sent to it
\* are, in order, exactly the packets that were routed to its worker.  No channel
\* outgrows its capacity (TypeOK).
RoutedNeverDropped ==
  /\ TypeOK
  /\ dispatcher # "ended" => \A w \in Workers :
       view[w] # "closed" => routed[w] = read[w] \o Ids(queue[w]) \o InFlight(w)

\* The dispatcher does not test the flag between its recv and the send, so that
\* a packet (perhaps close()'s own wake-up datagram) can be routed after close()
\* has begun; but only one, whatever keeps arriving and however long it waits.
AtMostOneLateDelivery == lateRouted <= 1

\* close() ends the fallback views: every callback that keeps reading gets to
\* the end of its channel, whatever the other workers' callbacks do.
CloseEndsViews == (closing = "closed") ~> (\A w \in Workers : view[w] = "closed")

\* "an application that wants to stop reading may end its own callback future":
\* that does not stop the dispatcher while another worker's view is live.
CallbackEndIsLocal ==
  [][(active /\ runtimeActive /\ dispatcher = "send" /\ dispatcher' = "ended")
        => \A w \in Workers : view[w] = "closed"]_vars
=============================================================================

-------------------------- MODULE SimulatedServer --------------------------
(***************************************************************************)
(* A server on the userspace path (platforms without SO_REUSEPORT           *)
(* balancing, and QUIC when no BPF selector can be attached): one acceptor  *)
(* task on worker 0 takes connections or packets from the only socket,      *)
(* picks a worker, tries to take one of its permits and sends the work to   *)
(* its bounded queue; one dispatcher task per worker spawns the handlers.   *)
(* On the tokio runtime.                                                    *)
(***************************************************************************)
EXTENDS Naturals, Sequences

CONSTANTS NumWorkers,
          Configs       \* the servers to look at, see Config

\* kind, max_concurrency_per_worker (0 is no limit), the work queue's capacity,
\* and a bound: how many connections or packets arrive in a behaviour.
Config == [kind : {"tcp", "udp", "quic"}, max : Nat, capacity : Nat \ {0}, arrivals : Nat]

ASSUME SimulatedAssumption == NumWorkers \in Nat \ {0} /\ Configs \subseteq Config

Workers == 0 .. NumWorkers - 1
Acceptor == NumWorkers            \* task t < NumWorkers is worker t's dispatcher
Tasks == 0 .. NumWorkers
Host(t) == IF t = Acceptor THEN 0 ELSE t

VARIABLES
  conf,         \* the server's configuration; it never changes
  serverActive, runtimeActive,
  closing,      \* how far close() is: no, sockets, tasks, closed
  stopped,      \* worker threads that have been shut down and joined
  task,         \* stage of each task
  cancelled,    \* a Cancel command for it is in its executor's queue
  held,         \* the item a task is working on
  registered,   \* the UDP socket is in the server state's registries
  inbox,        \* what the socket has received and nobody has read
  queue,        \* the work channel of each worker; each item owns a permit
  permits,      \* permits counted as taken per worker, when there is a limit
  handlers,     \* handler futures running on the worker
  lastStarted,  \* the item of the last handler started on the worker
  arrivals

stateVars == <<serverActive, runtimeActive, closing, stopped, registered>>
vars == <<stateVars, task, cancelled, held, inbox, queue, permits, handlers, lastStarted, conf, arrivals>>

Stages == {"queued", "check", "recv", "received", "send", "ended"}
Kinds == {"none", "data", "late", "bad", "wake"}
Item == [kind : Kinds, id : 0 .. conf.arrivals, to : Workers]
Nothing == [kind |-> "none", id |-> 0, to |-> 0]

IsActive == runtimeActive /\ serverActive

\* select_simulated_tcp_worker spares worker 0; the UDP hash and the QUIC
\* prefix reach every worker.  Which worker is a hash of the addresses, or the
\* DCID: any.
Selectable == IF conf.kind = "tcp" /\ NumWorkers > 1 THEN Workers \ {0} ELSE Workers

Init == /\ conf \in Configs
        /\ serverActive = TRUE /\ runtimeActive = TRUE /\ closing = "no" /\ stopped = {}
        /\ registered = FALSE
        /\ task = [t \in Tasks |-> "queued"]
        /\ cancelled = [t \in Tasks |-> FALSE]
        /\ held = [t \in Tasks |-> Nothing]
        /\ inbox = <<>>
        /\ queue = [w \in Workers |-> <<>>]
        /\ permits = [w \in Workers |-> 0]
        /\ handlers = [w \in Workers |-> 0]
        /\ lastStarted = [w \in Workers |-> 0]
        /\ arrivals = 0

-----------------------------------------------------------------------------
Goto(t, s) == task' = [task EXCEPT ![t] = s]

\* How many permits of worker w are freed when the futures of the tasks in T are
\* dropped: a dispatcher's receiver takes its queue with it.
Owned(T, w) == (IF w \in T THEN Len(queue[w]) + (IF held[w] # Nothing THEN 1 ELSE 0) ELSE 0)
               + (IF Acceptor \in T /\ task[Acceptor] = "send" /\ held[Acceptor].to = w THEN 1 ELSE 0)

\* The futures of the tasks in T are dropped with what they own.
EndAll(T) == /\ task' = [t \in Tasks |-> IF t \in T THEN "ended" ELSE task[t]]
             /\ held' = [t \in Tasks |-> IF t \in T THEN Nothing ELSE held[t]]
             /\ queue' = [w \in Workers |-> IF w \in T THEN <<>> ELSE queue[w]]

Free(w, n) == IF conf.max > 0 THEN permits[w] - n ELSE permits[w]

\* Mutant of End: the permits of what a dropped future owned are lost.
EndLeaks(t) == EndAll({t}) /\ UNCHANGED permits

End(t) == EndAll({t}) /\ permits' = [w \in Workers |-> Free(w, Owned({t}, w))]

\* The executor spawns the task; the UDP and QUIC acceptor registers its socket.
Start(t) == /\ task[t] = "queued" /\ Host(t) \notin stopped
            /\ Goto(t, "check")
            /\ registered' = (registered \/ (t = Acceptor /\ conf.kind # "tcp"))
            /\ UNCHANGED <<serverActive, runtimeActive, closing, stopped, cancelled, held, inbox,
                           queue, permits, handlers, lastStarted, conf, arrivals>>

\* The acceptor's socket cannot be cloned and registered, or, registered, cannot
\* be converted.
StartFails == /\ task[Acceptor] = "queued" /\ 0 \notin stopped
              /\ End(Acceptor)
              /\ registered' \in {registered, registered \/ conf.kind # "tcp"}
              /\ UNCHANGED <<serverActive, runtimeActive, closing, stopped, cancelled,
                             inbox, handlers, lastStarted, conf, arrivals>>

\* The while condition: only the acceptor looks at the runtime's flag.
Check(t) == /\ task[t] = "check"
            /\ IF serverActive /\ (t = Acceptor => runtimeActive)
               THEN Goto(t, "recv") /\ UNCHANGED <<held, queue, permits>>
               ELSE End(t)
            /\ UNCHANGED <<stateVars, cancelled, inbox, handlers, lastStarted, conf, arrivals>>

Accept == /\ task[Acceptor] = "recv" /\ inbox # <<>>
          /\ held' = [held EXCEPT ![Acceptor] = Head(inbox)]
          /\ inbox' = Tail(inbox)
          /\ Goto(Acceptor, "received")
          /\ UNCHANGED <<stateVars, cancelled, queue, permits, handlers, lastStarted, conf, arrivals>>

AcceptError == /\ task[Acceptor] = "recv"
               /\ IF conf.kind # "tcp" /\ IsActive
                  THEN Goto(Acceptor, "check") /\ UNCHANGED <<held, queue, permits>>
                  ELSE End(Acceptor)
               /\ UNCHANGED <<stateVars, cancelled, inbox, handlers, lastStarted, conf, arrivals>>

\* Mutant of NoPermit: one permit too many.
NoPermitOffByOne(w) == conf.max > 0 /\ permits[w] > conf.max

\* limit.try_acquire() returns None.
NoPermit(w) == conf.max > 0 /\ permits[w] >= conf.max

\* quic_worker_index returns None, as it does for the one-byte wake-up datagram.
Unroutable(i) == conf.kind = "quic" /\ i.kind \in {"bad", "wake"}

\* After the accept: the flags again, the worker, and its permit.  An unroutable
\* packet, and work for a worker without a free permit, is dropped.
Select == /\ task[Acceptor] = "received"
          /\ LET i == held[Acceptor]
             IN  IF ~IsActive
                 THEN End(Acceptor)
                 ELSE IF Unroutable(i) \/ NoPermit(i.to)
                 THEN /\ Goto(Acceptor, "check")
                      /\ held' = [held EXCEPT ![Acceptor] = Nothing]
                      /\ UNCHANGED <<queue, permits>>
                 ELSE /\ Goto(Acceptor, "send")
                      /\ permits' = [permits EXCEPT ![i.to] = IF conf.max > 0 THEN @ + 1 ELSE @]
                      /\ UNCHANGED <<held, queue>>
          /\ UNCHANGED <<stateVars, cancelled, inbox, handlers, lastStarted, conf, arrivals>>

\* send().await: completes when there is room, fails when the receiver is gone.
Send == /\ task[Acceptor] = "send"
        /\ LET i == held[Acceptor]
           IN  IF task[i.to] = "ended"
               THEN End(Acceptor)
               ELSE /\ Len(queue[i.to]) < conf.capacity
                    /\ queue' = [queue EXCEPT ![i.to] = Append(@, i)]
                    /\ held' = [held EXCEPT ![Acceptor] = Nothing]
                    /\ Goto(Acceptor, "check")
                    /\ UNCHANGED permits
        /\ UNCHANGED <<stateVars, cancelled, inbox, handlers, lastStarted, conf, arrivals>>

\* Mutants of Take: an empty queue is taken for a closed one; a closed one is
\* never noticed; the newest item first; nothing is taken while handlers run.
TakeGivesUp(w) == /\ task[w] = "recv"
                  /\ \/ /\ queue[w] # <<>>
                        /\ held' = [held EXCEPT ![w] = Head(queue[w])]
                        /\ queue' = [queue EXCEPT ![w] = Tail(@)]
                        /\ Goto(w, "received")
                        /\ UNCHANGED permits
                     \/ queue[w] = <<>> /\ End(w)
                  /\ UNCHANGED <<stateVars, cancelled, inbox, handlers, lastStarted, conf, arrivals>>
TakeForEver(w) == /\ task[w] = "recv" /\ queue[w] # <<>>
                  /\ held' = [held EXCEPT ![w] = Head(queue[w])]
                  /\ queue' = [queue EXCEPT ![w] = Tail(@)]
                  /\ Goto(w, "received")
                  /\ UNCHANGED <<permits, stateVars, cancelled, inbox, handlers, lastStarted, conf, arrivals>>
TakeNewest(w) == /\ task[w] = "recv" /\ queue[w] # <<>>
                 /\ held' = [held EXCEPT ![w] = queue[w][Len(queue[w])]]
                 /\ queue' = [queue EXCEPT ![w] = SubSeq(@, 1, Len(@) - 1)]
                 /\ Goto(w, "received")
                 /\ UNCHANGED <<permits, stateVars, cancelled, inbox, handlers, lastStarted, conf, arrivals>>
TakeWhenIdle(w) == handlers[w] = 0 /\ TakeForEver(w)

\* recv().await of a dispatcher: None once the acceptor, and with it the
\* sender, is gone and the queue is empty.
Take(w) == /\ task[w] = "recv"
           /\ \/ /\ queue[w] # <<>>
                 /\ held' = [held EXCEPT ![w] = Head(queue[w])]
                 /\ queue' = [queue EXCEPT ![w] = Tail(@)]
                 /\ Goto(w, "received")
                 /\ UNCHANGED permits
              \/ queue[w] = <<>> /\ task[Acceptor] = "ended" /\ End(w)
           /\ UNCHANGED <<stateVars, cancelled, inbox, handlers, lastStarted, conf, arrivals>>

\* The flag again, then the handler, which takes the permit over.
TestTaken(w) == /\ task[w] = "received"
                /\ IF serverActive THEN Goto(w, "send") /\ UNCHANGED <<held, queue, permits>>
                                   ELSE End(w)
                /\ UNCHANGED <<stateVars, cancelled, inbox, handlers, lastStarted, conf, arrivals>>

SpawnHandler(w) == /\ task[w] = "send"
                   /\ handlers' = [handlers EXCEPT ![w] = @ + 1]
                   /\ lastStarted' = [lastStarted EXCEPT ![w] = held[w].id]
                   /\ held' = [held EXCEPT ![w] = Nothing]
                   /\ Goto(w, "check")
                   /\ UNCHANGED <<stateVars, cancelled, inbox, queue, permits, conf, arrivals>>

HandlerEnds(w) == /\ handlers[w] > 0
                  /\ handlers' = [handlers EXCEPT ![w] = @ - 1]
                  /\ permits' = [permits EXCEPT ![w] = Free(w, 1)]
                  /\ UNCHANGED <<stateVars, task, cancelled, held, inbox, queue, lastStarted, conf, arrivals>>

\* A task is aborted where it is suspended: in accept, recv or send.
Suspended(t) == task[t] \in {"queued", "recv", "ended"} \/ (t = Acceptor /\ task[t] = "send")

ExecuteCancel(t) == /\ cancelled[t] /\ Host(t) \notin stopped
                    /\ task[t] # "queued" /\ Suspended(t)
                    /\ cancelled' = [cancelled EXCEPT ![t] = FALSE]
                    /\ End(t)
                    /\ UNCHANGED <<stateVars, inbox, handlers, lastStarted, conf, arrivals>>

-----------------------------------------------------------------------------
CloseBegin == /\ closing = "no"
              /\ serverActive' = FALSE
              /\ closing' = IF conf.kind = "tcp" THEN "tasks" ELSE "sockets"
              /\ UNCHANGED <<runtimeActive, stopped, registered, task, cancelled, held, inbox, queue,
                             permits, handlers, lastStarted, conf, arrivals>>

\* The registered socket, if any, is sent the wake-up datagram, and is shut down.
CloseSockets == /\ closing = "sockets"
                /\ closing' = "tasks"
                /\ \/ UNCHANGED inbox
                   \/ \E w \in Workers :
                        /\ registered
                        /\ inbox' = Append(inbox, [kind |-> "wake", id |-> 0, to |-> w])
                /\ registered' = FALSE
                /\ UNCHANGED <<serverActive, runtimeActive, stopped, task, cancelled, held, queue,
                               permits, handlers, lastStarted, conf, arrivals>>

\* Mutant of CloseTasks: only the dispatchers are cancelled.
CloseDispatchersOnly ==
  /\ closing = "tasks"
  /\ closing' = "closed"
  /\ cancelled' = [t \in Tasks |-> t # Acceptor /\ Host(t) \notin stopped]
  /\ UNCHANGED <<serverActive, runtimeActive, stopped, registered, task, held, inbox, queue, permits,
                 handlers, lastStarted, conf, arrivals>>

CloseTasks == /\ closing = "tasks"
              /\ closing' = "closed"
              /\ cancelled' = [t \in Tasks |-> Host(t) \notin stopped]
              /\ UNCHANGED <<serverActive, runtimeActive, stopped, registered, task, held, inbox,
                             queue, permits, handlers, lastStarted, conf, arrivals>>

DropRuntime == /\ runtimeActive
               /\ runtimeActive' = FALSE
               /\ UNCHANGED <<serverActive, closing, stopped, registered, task, cancelled, held, inbox,
                              queue, permits, handlers, lastStarted, conf, arrivals>>

\* The worker threads are shut down and joined in order; each drops its tasks
\* and handlers.
StopWorker(w) ==
  LET T == {t \in Tasks : Host(t) = w}
  IN  /\ ~runtimeActive /\ w \notin stopped
      /\ \A v \in Workers : v < w => v \in stopped
      /\ \A t \in T : Suspended(t)
      /\ stopped' = stopped \cup {w}
      /\ EndAll(T)
      /\ permits' = [v \in Workers |-> Free(v, Owned(T, v) + (IF v = w THEN handlers[w] ELSE 0))]
      /\ handlers' = [handlers EXCEPT ![w] = 0]
      /\ cancelled' = [t \in Tasks |-> t \notin T /\ cancelled[t]]
      /\ UNCHANGED <<serverActive, runtimeActive, closing, registered, inbox, lastStarted, conf, arrivals>>

Arrive == /\ arrivals < conf.arrivals /\ task[Acceptor] # "ended"
          /\ \E k \in {"data", "bad"}, w \in Selectable :
               /\ k = "bad" => conf.kind = "quic"
               /\ inbox' = Append(inbox, [kind |-> IF serverActive THEN k ELSE "late",
                                          id |-> arrivals + 1, to |-> w])
          /\ arrivals' = arrivals + 1
          /\ UNCHANGED <<stateVars, task, cancelled, held, queue, permits, handlers, lastStarted, conf>>

-----------------------------------------------------------------------------
AcceptorStep == Start(Acceptor) \/ Check(Acceptor) \/ Accept \/ Select \/ Send

DispatcherStep(w) == Start(w) \/ Check(w) \/ Take(w) \/ TestTaken(w) \/ SpawnHandler(w)

CloseStep == CloseSockets \/ CloseTasks

Next == \/ AcceptorStep \/ StartFails \/ AcceptError \/ Arrive
        \/ \E w \in Workers : DispatcherStep(w) \/ HandlerEnds(w) \/ StopWorker(w)
        \/ \E t \in Tasks : ExecuteCancel(t)
        \/ CloseBegin \/ CloseStep \/ DropRuntime

Spec == Init /\ [][Next]_vars

\* As on the native path: ready tasks are polled, commands are taken, a close()
\* or drop that has begun goes on; handlers may run for ever.
Fairness == /\ WF_vars(AcceptorStep) /\ WF_vars(CloseStep)
            /\ \A w \in Workers : WF_vars(DispatcherStep(w)) /\ WF_vars(StopWorker(w))
            /\ \A t \in Tasks : WF_vars(ExecuteCancel(t))

FairSpec == Spec /\ Fairness

-----------------------------------------------------------------------------
TypeOK == /\ conf \in Configs
          /\ serverActive \in BOOLEAN /\ runtimeActive \in BOOLEAN /\ registered \in BOOLEAN
          /\ closing \in {"no", "sockets", "tasks", "closed"}
          /\ stopped \subseteq Workers
          /\ task \in [Tasks -> Stages] /\ cancelled \in [Tasks -> BOOLEAN]
          /\ held \in [Tasks -> Item]
          /\ inbox \in Seq(Item) /\ queue \in [Workers -> Seq(Item)]
          /\ permits \in [Workers -> Nat] /\ handlers \in [Workers -> Nat]
          /\ lastStarted \in [Workers -> 0 .. conf.arrivals]
          /\ arrivals \in 0 .. conf.arrivals

\* Every taken permit has exactly one owner, wherever the work it was taken for
\* is: being sent, in the queue, with the dispatcher, or in a running handler.
PermitPerWorkItem ==
  /\ TypeOK
  /\ conf.max > 0 => \A w \in Workers : /\ permits[w] = handlers[w] + Owned(Tasks, w)
                                        /\ permits[w] <= conf.max

\* A worker whose handlers hold all permits never blocks the accept loop: with a
\* limit no larger than the queue, a send always finds room.
SendNeverWaits ==
  (0 < conf.max /\ conf.max <= conf.capacity /\ task[Acceptor] = "send")
     => Len(queue[held[Acceptor].to]) < conf.capacity

\* No dispatcher ends before the acceptor while the server and the runtime are
\* active, so a failing send never stops a healthy server.
DispatchersOutliveAcceptor ==
  (IsActive /\ task[Acceptor] # "ended") => \A w \in Workers : task[w] # "ended"

\* Handlers of a worker are started in the order of arrival, at most once per
\* item, and never for the wake-up datagram or what arrived after the flag was
\* cleared.
HandledInOrder ==
  [][\A w \in Workers : handlers'[w] > handlers[w] =>
       held[w].kind = "data" /\ lastStarted'[w] > lastStarted[w]]_vars

\* Without a limit a full queue makes the acceptor wait, but not for ever: the
\* dispatchers never wait for handlers.
SendCompletes == (task[Acceptor] = "send") ~> (task[Acceptor] # "send")

\* When the acceptor ends, for any reason, the dispatchers end after it, having
\* emptied their queues: nothing stays in a queue.
AcceptorEndEndsAll ==
  (task[Acceptor] = "ended") ~> (\A w \in Workers : task[w] = "ended" /\ queue[w] = <<>>)

\* close() ends every task, whatever the handlers do.
CloseStopsAll == (closing = "closed") ~> (\A t \in Tasks : task[t] = "ended")
=============================================================================

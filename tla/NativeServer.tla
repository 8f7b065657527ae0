---------------------------- MODULE NativeServer ----------------------------
(***************************************************************************)
(* A server on the SO_REUSEPORT path: one socket and one task per worker   *)
(* (core/tcp.rs, core/udp.rs, core/quic.rs), the close() of its server     *)
(* object, the executor that spawns and cancels the tasks (runtime/), and  *)
(* the drop of the ServerRuntime.                                          *)
(*                                                                         *)
(* conf.kind selects the loop: "tcp", "udp", "quic", or "socket" for the   *)
(* serve_socket callbacks, whose reads are the application's.  The permit  *)
(* counter is used through its abstract specification PermitPool.          *)
(***************************************************************************)
EXTENDS Naturals, Sequences, FiniteSets

CONSTANTS NumWorkers,
          Configs       \* the servers to look at, see Config

\* kind, the runtime feature, max_concurrency_per_worker (0 is no limit), and
\* bounds: how many connections or packets arrive in a behaviour, and whether
\* the application calls listener_socket().
Config == [kind : {"tcp", "udp", "quic", "socket"}, runtime : {"tokio", "async_std"},
           max : Nat, arrivals : Nat, lookup : BOOLEAN]

ASSUME NativeAssumption == NumWorkers \in Nat \ {0} /\ Configs \subseteq Config

Workers == 0 .. NumWorkers - 1

VARIABLES
  conf,           \* the server's configuration; it never changes
  serverActive,   \* TcpServerState.active, UdpServerState.active
  runtimeActive,  \* ServerRuntimeInner.active
  handle,         \* the application's server object: "held" or "dropped"
  closing,        \* how far close() is: no, sockets, threads, tasks, closed
  task,           \* each worker's listener task, see Stages
  cancelled,      \* a Cancel command for it is in the executor's queue
  holding,        \* the loop owns a permit guard
  item,           \* what its last accept or recv returned
  inbox,          \* what its socket has received and nobody has read
  handlers,       \* handler futures running on the worker
  permits,        \* permits counted as taken, when there is a limit
  lateStarts,     \* handlers started since active was cleared
  threadSockets, poolSockets,  \* UdpServerState.thread_sockets and .sockets
  shutSockets,    \* sockets on which shutdown() was called
  stopped,        \* worker threads that have been shut down and joined
  lookup,         \* the application's call of listener_socket()
  arrivals

stateVars == <<serverActive, runtimeActive, handle, closing, stopped>>
loopVars == <<task, holding, item, permits>>
registryVars == <<threadSockets, poolSockets, shutSockets>>
vars == <<stateVars, loopVars, registryVars, cancelled, inbox, handlers, lateStarts, conf, lookup, arrivals>>

\* queued: in the executor's queue; spawned: a local task, not polled yet;
\* acquire, recv, callback: suspended in an await; the others: being polled.
Stages == {"queued", "spawned", "thread", "pool", "convert", "check", "acquire", "acquired",
           "recv", "received", "deliver", "callback", "ended"}
Items == {"none", "data", "late", "bad", "wake"}

\* A thread that is not a worker, and no socket.
Outside == NumWorkers
NoLookup == [stage |-> "none", by |-> Outside, live |-> FALSE, own |-> FALSE, socket |-> Outside]

\* Mutant of IsActive: the server's flag is left out.
IsRuntimeActive == runtimeActive

\* Two loads in the code; as flags are only ever cleared they act as one.
IsActive == runtimeActive /\ serverActive

Init == /\ conf \in Configs
        /\ serverActive = TRUE /\ runtimeActive = TRUE
        /\ handle = "held" /\ closing = "no" /\ stopped = {}
        /\ task = [w \in Workers |-> "queued"]
        /\ cancelled = [w \in Workers |-> FALSE]
        /\ holding = [w \in Workers |-> FALSE]
        /\ item = [w \in Workers |-> "none"]
        /\ inbox = [w \in Workers |-> <<>>]
        /\ handlers = [w \in Workers |-> 0]
        /\ permits = [w \in Workers |-> 0]
        /\ lateStarts = [w \in Workers |-> 0]
        /\ threadSockets = {} /\ poolSockets = {} /\ shutSockets = {}
        /\ lookup = NoLookup /\ arrivals = 0

-----------------------------------------------------------------------------
(* Steps of the listener task of worker w.                                 *)

Goto(w, s) == task' = [task EXCEPT ![w] = s]

\* The guard the loop owns, if any, is dropped.
DropGuard(w) == /\ permits' = [permits EXCEPT ![w] = IF holding[w] /\ conf.max > 0 THEN @ - 1 ELSE @]
                /\ holding' = [holding EXCEPT ![w] = FALSE]

\* The task's future is dropped: its socket, its guard, the item it holds.
End(w) == Goto(w, "ended") /\ DropGuard(w) /\ item' = [item EXCEPT ![w] = "none"]

\* Mutant of NextIteration: the guard is forgotten, not dropped.
IterationLeaks(w) == /\ Goto(w, "check") /\ item' = [item EXCEPT ![w] = "none"]
                     /\ holding' = [holding EXCEPT ![w] = FALSE] /\ UNCHANGED permits

\* Back to the loop's condition; the locals of the iteration are dropped.
NextIteration(w) == Goto(w, "check") /\ DropGuard(w) /\ item' = [item EXCEPT ![w] = "none"]

\* TaskCommand::Spawn is taken from the queue; async-std runs the spawning shim.
SpawnLocal(w) == /\ task[w] = "queued" /\ w \notin stopped
                 /\ Goto(w, "spawned")
                 /\ UNCHANGED <<stateVars, holding, item, permits, registryVars, cancelled,
                                inbox, handlers, lateStarts, conf, lookup, arrivals>>

\* The first poll: UDP and QUIC tasks register their socket, in two locks.
Start(w) == /\ task[w] = "spawned"
            /\ Goto(w, IF conf.kind = "tcp" THEN "convert" ELSE "thread")
            /\ UNCHANGED <<stateVars, holding, item, permits, registryVars, cancelled,
                           inbox, handlers, lateStarts, conf, lookup, arrivals>>

RegisterThread(w) == /\ task[w] = "thread"
                     /\ threadSockets' = threadSockets \cup {w}
                     /\ Goto(w, "pool")
                     /\ UNCHANGED <<stateVars, holding, item, permits, poolSockets, shutSockets,
                                    cancelled, inbox, handlers, lateStarts, conf, lookup, arrivals>>

RegisterPool(w) == /\ task[w] = "pool"
                   /\ poolSockets' = poolSockets \cup {w}
                   /\ Goto(w, "convert")
                   /\ UNCHANGED <<stateVars, holding, item, permits, threadSockets, shutSockets,
                                  cancelled, inbox, handlers, lateStarts, conf, lookup, arrivals>>

\* The socket becomes one of the runtime's; then the loop, or the callback.
Convert(w) == /\ task[w] = "convert"
              /\ Goto(w, IF conf.kind = "socket" THEN "callback" ELSE "check")
              /\ UNCHANGED <<stateVars, holding, item, permits, registryVars, cancelled,
                             inbox, handlers, lateStarts, conf, lookup, arrivals>>

\* Cloning the socket for the registries (nothing is registered then) or the
\* conversion fails: the task ends without a trace.
StartFails(w) == /\ task[w] \in {"spawned", "convert"} /\ (conf.kind = "tcp" => task[w] = "convert")
                 /\ End(w)
                 /\ UNCHANGED <<stateVars, registryVars, cancelled, inbox, handlers,
                                lateStarts, conf, lookup, arrivals>>

\* Mutant of TestActive: no test after the accept or recv.
TestActiveBefore(w) == /\ task[w] \in {"check", "acquired", "received"}
                       /\ IF IsActive \/ task[w] = "received"
                          THEN /\ Goto(w, CASE task[w] = "check" -> "acquire"
                                            [] task[w] = "acquired" -> "recv"
                                            [] task[w] = "received" -> "deliver")
                               /\ UNCHANGED <<holding, item, permits>>
                          ELSE End(w)
                       /\ UNCHANGED <<stateVars, registryVars, cancelled, inbox, handlers,
                                      lateStarts, conf, lookup, arrivals>>

\* The tests of is_active: in the while condition, after the permit, after the
\* accept or recv.
TestActive(w) == /\ task[w] \in {"check", "acquired", "received"}
                 /\ IF IsActive
                    THEN /\ Goto(w, CASE task[w] = "check" -> "acquire"
                                      [] task[w] = "acquired" -> "recv"
                                      [] task[w] = "received" -> "deliver")
                         /\ UNCHANGED <<holding, item, permits>>
                    ELSE End(w)
                 /\ UNCHANGED <<stateVars, registryVars, cancelled, inbox, handlers,
                                lateStarts, conf, lookup, arrivals>>

\* limit.acquire().await
Acquire(w) == /\ task[w] = "acquire" /\ (conf.max > 0 => permits[w] < conf.max)
              /\ permits' = [permits EXCEPT ![w] = IF conf.max > 0 THEN @ + 1 ELSE @]
              /\ holding' = [holding EXCEPT ![w] = TRUE]
              /\ Goto(w, "acquired")
              /\ UNCHANGED <<stateVars, item, registryVars, cancelled, inbox, handlers,
                             lateStarts, conf, lookup, arrivals>>

\* accept() or recv resolves.
Receive(w) == /\ task[w] = "recv" /\ inbox[w] # <<>>
              /\ item' = [item EXCEPT ![w] = Head(inbox[w])]
              /\ inbox' = [inbox EXCEPT ![w] = Tail(@)]
              /\ Goto(w, "received")
              /\ UNCHANGED <<stateVars, holding, permits, registryVars, cancelled, handlers,
                             lateStarts, conf, lookup, arrivals>>

\* It fails: a TCP loop ends, the others go on while the server is active.
ReceiveError(w) == /\ task[w] = "recv"
                   /\ IF conf.kind # "tcp" /\ IsActive THEN NextIteration(w) ELSE End(w)
                   /\ UNCHANGED <<stateVars, registryVars, cancelled, inbox, handlers,
                                  lateStarts, conf, lookup, arrivals>>

\* quic_reuseport_bpf_accepts_packet refuses the packet, as it does the one-byte
\* wake-up datagram.
Unroutable(i) == conf.kind = "quic" /\ i \in {"bad", "wake"}

\* The handler is spawned with the guard; QUIC first drops what it cannot route.
\* spawn_local does not fail on a worker's own thread.
Deliver(w) == /\ task[w] = "deliver"
              /\ IF Unroutable(item[w])
                 THEN NextIteration(w) /\ UNCHANGED <<handlers, lateStarts>>
                 ELSE /\ handlers' = [handlers EXCEPT ![w] = @ + 1]
                      /\ lateStarts' = [lateStarts EXCEPT ![w] = IF serverActive THEN @ ELSE @ + 1]
                      /\ holding' = [holding EXCEPT ![w] = FALSE]
                      /\ item' = [item EXCEPT ![w] = "none"]
                      /\ Goto(w, "check")
                      /\ UNCHANGED permits
              /\ UNCHANGED <<stateVars, registryVars, cancelled, inbox, conf, lookup, arrivals>>

\* A handler future ends, with or without an error, and drops its guard.
HandlerEnds(w) == /\ handlers[w] > 0
                  /\ handlers' = [handlers EXCEPT ![w] = @ - 1]
                  /\ permits' = [permits EXCEPT ![w] = IF conf.max > 0 THEN @ - 1 ELSE @]
                  /\ UNCHANGED <<stateVars, task, holding, item, registryVars, cancelled, inbox,
                                 lateStarts, conf, lookup, arrivals>>

\* A serve_socket callback reads its socket, or returns.
CallbackReads(w) == /\ task[w] = "callback" /\ inbox[w] # <<>>
                    /\ inbox' = [inbox EXCEPT ![w] = Tail(@)]
                    /\ UNCHANGED <<stateVars, loopVars, registryVars, cancelled, handlers,
                                   lateStarts, conf, lookup, arrivals>>

CallbackReturns(w) == /\ task[w] = "callback"
                      /\ End(w)
                      /\ UNCHANGED <<stateVars, registryVars, cancelled, inbox, handlers,
                                     lateStarts, conf, lookup, arrivals>>

\* Mutant of ExecuteCancel: a task that waits for a permit is not aborted.
CancelReceiversOnly(w) == /\ cancelled[w] /\ w \notin stopped
                          /\ task[w] \in {"spawned", "recv", "ended"}
                          /\ cancelled' = [cancelled EXCEPT ![w] = FALSE]
                          /\ End(w)
                          /\ UNCHANGED <<stateVars, registryVars, inbox, handlers, lateStarts,
                                         conf, lookup, arrivals>>

\* TaskCommand::Cancel, behind the Spawn in the queue: the task is aborted
\* where it is suspended; a task that has ended is no longer known.
ExecuteCancel(w) == /\ cancelled[w] /\ w \notin stopped
                    /\ task[w] \in {"spawned", "acquire", "recv", "ended"}
                    /\ cancelled' = [cancelled EXCEPT ![w] = FALSE]
                    /\ End(w)
                    /\ UNCHANGED <<stateVars, registryVars, inbox, handlers, lateStarts, conf, lookup, arrivals>>

-----------------------------------------------------------------------------
(* listener_socket(), called on any thread.                                *)

\* The call is between its test of the flag and its result.
LookingUp == lookup.stage \in {"thread", "pool"}

\* Worker w's thread is inside the call and polls nothing else.
Busy(w) == LookingUp /\ lookup.by = w

\* Where a worker's thread is free to run a handler, which may make the call.
Suspended(w) == w \notin stopped
                /\ task[w] \in {"queued", "spawned", "acquire", "recv", "callback", "ended"}

\* Mutant of LookupBegin: the flag is not tested.
LookupAnyway(t) == /\ conf.lookup /\ lookup.stage = "none" /\ handle = "held"
                   /\ t \in Workers => Suspended(t)
                   /\ lookup' = [NoLookup EXCEPT !.by = t, !.live = serverActive, !.stage = "thread",
                                                !.own = t \in threadSockets]
                   /\ UNCHANGED <<stateVars, loopVars, registryVars, cancelled, inbox, handlers,
                                  lateStarts, conf, arrivals>>

LookupBegin(t) == /\ conf.lookup /\ lookup.stage = "none" /\ handle = "held"
                  /\ t \in Workers => Suspended(t)
                  /\ lookup' = [NoLookup EXCEPT !.by = t, !.live = serverActive,
                                               !.own = t \in threadSockets,
                                               !.stage = IF serverActive THEN "thread" ELSE "failed"]
                  /\ UNCHANGED <<stateVars, loopVars, registryVars, cancelled, inbox, handlers,
                                 lateStarts, conf, arrivals>>

\* try_clone or the conversion fails, as the latter does outside a runtime.
Answer(s) == lookup' \in {[lookup EXCEPT !.stage = "got", !.socket = s],
                          [lookup EXCEPT !.stage = "failed"]}

\* The calling thread's own socket, if it has one.
LookupThread == /\ lookup.stage = "thread"
                /\ IF lookup.by \in threadSockets THEN Answer(lookup.by)
                                                 ELSE lookup' = [lookup EXCEPT !.stage = "pool"]
                /\ UNCHANGED <<stateVars, loopVars, registryVars, cancelled, inbox, handlers,
                               lateStarts, conf, arrivals>>

\* Otherwise some socket of the server.
LookupPool == /\ lookup.stage = "pool"
              /\ IF poolSockets = {} THEN lookup' = [lookup EXCEPT !.stage = "failed"]
                                     ELSE \E s \in poolSockets : Answer(s)
              /\ UNCHANGED <<stateVars, loopVars, registryVars, cancelled, inbox, handlers,
                             lateStarts, conf, arrivals>>

LookupStep == LookupThread \/ LookupPool

-----------------------------------------------------------------------------
(* The application.                                                        *)

\* close() clears the flag before anything else.
CloseBegin == /\ handle = "held" /\ closing = "no"
              /\ serverActive' = FALSE
              /\ closing' = IF conf.kind = "tcp" THEN "tasks" ELSE "sockets"
              /\ UNCHANGED <<runtimeActive, handle, stopped, loopVars, registryVars, cancelled,
                             inbox, handlers, lateStarts, conf, lookup, arrivals>>

\* Each registered socket is sent a datagram, which the kernel gives to any
\* socket of the group, and is shut down.
CloseSockets == /\ closing = "sockets"
                /\ \E woken \in SUBSET {w \in Workers : task[w] # "ended"} :
                     /\ Cardinality(woken) <= Cardinality(poolSockets)
                     /\ inbox' = [w \in Workers |-> IF w \in woken THEN Append(inbox[w], "wake")
                                                                   ELSE inbox[w]]
                /\ shutSockets' = shutSockets \cup poolSockets
                /\ poolSockets' = {}
                /\ closing' = "threads"
                /\ UNCHANGED <<serverActive, runtimeActive, handle, stopped, loopVars,
                               threadSockets, cancelled, handlers, lateStarts, conf, lookup, arrivals>>

CloseThreads == /\ closing = "threads"
                /\ threadSockets' = {}
                /\ closing' = "tasks"
                /\ UNCHANGED <<serverActive, runtimeActive, handle, stopped, loopVars, poolSockets,
                               shutSockets, cancelled, inbox, handlers, lateStarts, conf, lookup, arrivals>>

\* TaskHandle::cancel of every task in "tasks"; callback tasks are only
\* forgotten.  On async-std the handle is the spawning shim's: it has no effect
\* once the shim has run.
CloseTasks == /\ closing = "tasks"
              /\ closing' = "closed"
              /\ IF conf.kind = "socket" THEN UNCHANGED <<task, cancelled>>
                 ELSE IF conf.runtime = "tokio"
                 THEN /\ cancelled' = [w \in Workers |-> w \notin stopped]
                      /\ UNCHANGED task
                 ELSE /\ task' = [w \in Workers |-> IF task[w] = "queued" THEN "ended" ELSE task[w]]
                      /\ UNCHANGED cancelled
              /\ UNCHANGED <<serverActive, runtimeActive, handle, stopped, holding, item, permits,
                             registryVars, inbox, handlers, lateStarts, conf, lookup, arrivals>>

\* The server object is dropped instead: none of the servers implements Drop.
\* A UDP task keeps the state, and with it the registered sockets, alive.
DropServer == /\ handle = "held" /\ closing \in {"no", "closed"} /\ ~LookingUp
              /\ handle' = "dropped"
              /\ UNCHANGED <<serverActive, runtimeActive, closing, stopped, loopVars, registryVars,
                             cancelled, inbox, handlers, lateStarts, conf, lookup, arrivals>>

\* ServerRuntimeInner::drop, then each WorkerHandle::drop in order: the executor
\* leaves its loop at a suspension point and drops every task of the thread.
DropRuntime == /\ runtimeActive
               /\ runtimeActive' = FALSE
               /\ UNCHANGED <<serverActive, handle, closing, stopped, loopVars, registryVars,
                              cancelled, inbox, handlers, lateStarts, conf, lookup, arrivals>>

\* Mutant of StopWorker: the thread first waits for its handlers and callback.
StopWorkerGracefully(w) == /\ ~runtimeActive /\ w \notin stopped
                           /\ \A v \in Workers : v < w => v \in stopped
                           /\ handlers[w] = 0 /\ task[w] \in {"queued", "acquire", "recv", "ended"}
                           /\ stopped' = stopped \cup {w}
                           /\ permits' = [permits EXCEPT ![w] = 0]
                           /\ holding' = [holding EXCEPT ![w] = FALSE]
                           /\ Goto(w, "ended")
                           /\ cancelled' = [cancelled EXCEPT ![w] = FALSE]
                           /\ UNCHANGED <<serverActive, runtimeActive, handle, closing, item,
                                          registryVars, inbox, handlers, lateStarts, conf, lookup, arrivals>>

StopWorker(w) == /\ ~runtimeActive /\ w \notin stopped
                 /\ \A v \in Workers : v < w => v \in stopped
                 /\ task[w] \in {"queued", "spawned", "acquire", "recv", "callback", "ended"}
                 /\ stopped' = stopped \cup {w}
                 /\ handlers' = [handlers EXCEPT ![w] = 0]
                 /\ permits' = [permits EXCEPT ![w] =
                      IF conf.max > 0 THEN @ - handlers[w] - (IF holding[w] THEN 1 ELSE 0) ELSE @]
                 /\ holding' = [holding EXCEPT ![w] = FALSE]
                 /\ Goto(w, "ended")
                 /\ cancelled' = [cancelled EXCEPT ![w] = FALSE]
                 /\ UNCHANGED <<serverActive, runtimeActive, handle, closing, item, registryVars,
                                inbox, lateStarts, conf, lookup, arrivals>>

\* A connection or packet reaches the socket of worker w: before or after
\* active was cleared, and for QUIC routable or not.
Arrive(w) == /\ arrivals < conf.arrivals /\ task[w] # "ended"
             /\ \E i \in {"data", "bad"} :
                  /\ i = "bad" => conf.kind = "quic"
                  /\ inbox' = [inbox EXCEPT ![w] =
                                 Append(@, IF serverActive THEN i ELSE "late")]
             /\ arrivals' = arrivals + 1
             /\ UNCHANGED <<stateVars, loopVars, registryVars, cancelled, handlers, lateStarts, conf,
                            lookup>>

-----------------------------------------------------------------------------
LoopStep(w) == \/ SpawnLocal(w) \/ Start(w) \/ RegisterThread(w) \/ RegisterPool(w) \/ Convert(w)
               \/ TestActive(w) \/ Acquire(w) \/ Receive(w) \/ Deliver(w)

CloseStep == CloseSockets \/ CloseThreads \/ CloseTasks

ThreadStep(w) == \/ LoopStep(w) \/ ExecuteCancel(w) \/ StartFails(w) \/ ReceiveError(w)
                 \/ HandlerEnds(w) \/ CallbackReads(w) \/ CallbackReturns(w) \/ StopWorker(w)

Next == \/ CloseBegin \/ CloseStep \/ DropServer \/ DropRuntime \/ LookupStep
        \/ \E t \in Workers \cup {Outside} : LookupBegin(t)
        \/ \E w \in Workers : Arrive(w) \/ (~Busy(w) /\ ThreadStep(w))

Spec == Init /\ [][Next]_vars

\* Worker threads poll what is ready and take commands, and a close() or a drop
\* of the runtime that has begun goes on, as does a lookup.  Handlers may run for ever, and nothing
\* has to arrive.
Fairness == /\ WF_vars(CloseStep) /\ WF_vars(LookupStep)
            /\ \A w \in Workers : /\ WF_vars(LoopStep(w))
                                  /\ WF_vars(ExecuteCancel(w))
                                  /\ WF_vars(StopWorker(w))

FairSpec == Spec /\ Fairness

-----------------------------------------------------------------------------
TypeOK == /\ conf \in Configs
          /\ serverActive \in BOOLEAN /\ runtimeActive \in BOOLEAN
          /\ handle \in {"held", "dropped"}
          /\ closing \in {"no", "sockets", "threads", "tasks", "closed"}
          /\ stopped \subseteq Workers
          /\ task \in [Workers -> Stages]
          /\ cancelled \in [Workers -> BOOLEAN] /\ holding \in [Workers -> BOOLEAN]
          /\ item \in [Workers -> Items]
          /\ inbox \in [Workers -> Seq(Items)]
          /\ handlers \in [Workers -> Nat] /\ permits \in [Workers -> Nat]
          /\ lateStarts \in [Workers -> Nat]
          /\ threadSockets \subseteq Workers /\ poolSockets \subseteq Workers
          /\ shutSockets \subseteq Workers
          /\ lookup \in [stage : {"none", "thread", "pool", "got", "failed"}, by : 0 .. Outside,
                         live : BOOLEAN, own : BOOLEAN, socket : 0 .. Outside]
          /\ arrivals \in 0 .. conf.arrivals

\* On every path out of an iteration (error, unroutable packet, close, abort,
\* handler end) the permit goes with its owner: the count is the handlers that
\* run plus the guard the loop holds, so at most conf.max handlers run per worker.
PermitsBalanced ==
  /\ TypeOK
  /\ conf.max > 0 => \A w \in Workers :
       /\ permits[w] = handlers[w] + (IF holding[w] THEN 1 ELSE 0)
       /\ permits[w] <= conf.max

\* What arrives once close() has cleared the flag, the wake-up datagrams of
\* close() and unroutable QUIC packets never reach a handler: the loop tests the
\* flag again between its recv and the handler.
OnlyLiveDataHandled ==
  [][\A w \in Workers : handlers'[w] > handlers[w] => item[w] = "data"]_vars

\* A worker starts at most one handler after the flag is cleared: the one whose
\* item had passed the test already.
AtMostOneLateStart == \A w \in Workers : lateStarts[w] <= 1

\* listener_socket() against registrations and a concurrent close(): it gives no
\* socket to a call made after close() began, even though a task may register its
\* socket later than that; and unless close() overtakes the call, the socket is
\* not shut down and is the calling worker's own if that one had registered it.
LookupHandsOutLive ==
  [][(lookup.stage # "got" /\ lookup'.stage = "got") =>
       /\ lookup.live
       /\ serverActive => /\ lookup'.socket \notin shutSockets
                          /\ lookup.own => lookup'.socket = lookup.by]_vars

\* On tokio, after close() every listener task ends, even while handlers keep
\* all permits and nothing arrives: the Cancel command aborts it.
CloseStopsListeners ==
  (closing = "closed" /\ conf.runtime = "tokio" /\ conf.kind # "socket")
     ~> (\A w \in Workers : task[w] = "ended")

\* A listener that close() could not cancel (async-std) ends as soon as a permit is
\* free for it or something arrives on its socket.
CanGoOn(w) == \/ task[w] = "acquire" /\ (conf.max > 0 => permits[w] < conf.max)
              \/ task[w] = "recv" /\ inbox[w] # <<>>
LeftoverEndsOnEvent ==
  \A w \in Workers : (closing = "closed" /\ CanGoOn(w)) ~> (task[w] = "ended")

\* Dropping the runtime ends every task and every handler on every worker.
RuntimeDropStopsAll ==
  ~runtimeActive ~> (\A w \in Workers : task[w] = "ended" /\ handlers[w] = 0)

\* "the close method closes or releases the listening sockets, so that later
\* accepts and recvs exit": on either runtime the listeners end after close().
CloseStopsEveryListener == (closing = "closed") ~> (\A w \in Workers : task[w] = "ended")

\* "the loop must be able to exit after the server is closed or dropped".
DropStopsListeners == (handle = "dropped") ~> (\A w \in Workers : task[w] = "ended")
=============================================================================

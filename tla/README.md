# sfo-reuseport in TLA+

Specifications of sfo-reuseport, their model checking with TLC, and proofs
checked by TLAPS. Paths are relative to the crate's `src/`.

## The system

A `ServerRuntime` owns worker threads, each with a current-thread executor
(tokio with a `LocalSet`, or async-std). TCP, UDP and QUIC servers put tasks on
the workers in one of two ways:

- **reuse-port**: a socket per worker (`SO_REUSEPORT`) and a listener task on
  each. QUIC also attaches a BPF program that selects the socket by the worker
  index in the destination connection id (DCID);
- **userspace**: one socket, read by one task on worker 0, which chooses the
  worker and passes the work through a bounded queue.

`serve_socket` hands the application a socket per worker instead of calling a
handler: the worker's own, or a view fed by a dispatcher. Handlers run on the
worker, and `max_concurrency_per_worker` limits them by permits.

### Inventory

| Component | Source | State | Operations |
|---|---|---|---|
| Concurrency limit | `core/concurrency.rs` | atomic count, waker, guards | `acquire().await`, `try_acquire`, guard drop |
| QUIC rule, connection ids | `core/quic.rs`, `core/cid.rs` | none | `quic_worker_index`, accept check, `generate` |
| BPF selectors | `platform/linux.rs` | registers of a run | two programs, probe |
| TCP/UDP/QUIC, reuse-port | `core/tcp.rs`, `udp.rs`, `quic.rs` | flag, task handles, socket registries | serve, loop, `close`, `listener_socket` |
| TCP/UDP/QUIC, userspace | the same | the same, work queues | acceptor, dispatchers, `close` |
| `serve_socket` | `core/udp.rs`, `quic.rs` | views, channels, callback handles | dispatcher, callbacks, `recv_from`, `poll_recv_from`, `close` |
| Executors | `runtime/tokio.rs`, `async_std.rs` | command queue, handle table | spawn, cancel, completion, shutdown |
| `ServerRuntime` | `core/server_runtime.rs` | flag, worker handles | `start`, `spawn_task`, drop |
| Bind and options | `platform/*` | sockets | bind, attach, probe |
| Address hash | `core/schedule.rs` | none | `linux_reuseport_select` |
| Configuration, errors | `core/config.rs`, `error.rs` | none | builders, validation |

Hard behaviours: atomic accesses from several threads; a flag tested before and
after every await while `close()` runs elsewhere; tasks that start while
`close()` walks the registries; a Cancel command behind the Spawn in the
executor's queue, or (async-std) a handle that no longer names the task;
permits that travel with the work through queues, handlers and error paths;
bounded queues between tasks on one thread; ordered shutdown of workers; three
implementations of one routing rule; a kernel selector attached to sockets that
already receive, and checked by probes that may come late; wakers shared by
readers of one view. `PROJECT.json` lists them under `hazards`.

## Modules

| Module | Models |
|---|---|
| `PermitPool` | what the limit promises: a pool of permits and one waiting listener |
| `ConcurrencyLimit` | the limit, one step per atomic access |
| `QuicRouting` | the routing rule and the connection ids, as operators |
| `QuicSelector` | a packet on its way through the userspace rule, the eBPF or the classic BPF program, one instruction per step |
| `ServiceBind` | how `serve` gets its sockets: choice of the path, bind, options, selector, probe, drain, fallback, submission of the tasks |
| `NativeServer` | reuse-port servers, `serve_socket` callbacks and `listener_socket` |
| `SimulatedServer` | userspace servers |
| `SocketFallback` | userspace `serve_socket` |
| `RoutedReceive` | reading a routed view by await and by poll |
| `WorkerRuntime` | `ServerRuntime` and the executors |
| `*Proofs` | the proofs about the module of that name (`QuicSelectorProofs`: also about `QuicRouting`) |
| `MC*` | the instances for TLC |

In every module with `conf` the configuration (kind of server, runtime feature,
limit, platform) is chosen by Init and never changes, so that one run covers
several builds.

**ConcurrencyLimit.** `active`, the `AtomicWaker` (`registered`, `notified`), and
a program counter with the loaded value for the listener in `poll` (`wpc`), each
`try_acquire` (`cpc`) and each guard (`permit`). `PollLoad`, `PollCasOk`,
`PollCasFail`, `PollRegister` and `PollRecheck` are `AcquirePermit::poll`; `Try*`
and `Drop*`, `Wake` likewise. `compare_exchange_weak` may fail spuriously.
External: the executor that polls a woken task (`Repoll`).

**QuicSelector.** `Ebpf` and `Cbpf` are the instruction sequences of
`quic_reuseport_ebpf` and `quic_reuseport_cbpf`. The instruction set, and that a
program's value names the socket, is external. Packets are sequences of bytes of any
length, and a group is no larger than the prefix can name (`FitsPrefix`, which the
probe refuses otherwise).

**ServiceBind.** `sockets` is the group bound so far, each with its port, options
and receive queue; `program` and `honoured` say what is attached and whether the
kernel goes by it; `probe` and `inFlight` are the probe at work. Each bind, option,
attachment, send, scan of one socket, drained datagram and submitted task is a
step, with its failure. Around them clients send to the port, a probe arrives
late or not at all, the deadline passes, and another program takes a free port.
How the kernel picks a socket without a program is external: one flow, one socket.

**NativeServer.** `task[w]` is where worker w's listener task is: in the
executor's queue, spawned, registering its socket (two locks), converting, at one
of the tests of `is_active`, or suspended in `acquire`, in accept/recv or in a
callback. `TestActive` is all three tests. `CloseBegin`, `CloseSockets`,
`CloseThreads` and `CloseTasks` are the consecutive parts of `close()`, between
which workers run; `StopWorker` is a worker's `WorkerHandle::drop`.
`LookupBegin`, `LookupThread` and `LookupPool` are `listener_socket`: the flag,
then one registry, then the other. The permit counter is used at the level of
`PermitPool`. The wake-up datagram of `close()` may reach any socket of the group
or none.

**SimulatedServer**, **SocketFallback.** The same for the acceptor and the
dispatchers, on tokio. The address hash is abstracted to "some worker", with the
worker 0 exception of `select_simulated_tcp_worker`. A future that is dropped
takes with it what it owns: a dispatcher its queue, with the permits in it.

**RoutedReceive.** Readers of one `RoutedUdpSocket`. On tokio `recv_packet` holds
the async mutex (`owner`, `waiters`) while it waits, and `poll_recv_packet` only
tries it; the receiver keeps one waker (`rxWaker`). On async-std each receive
future has a listener. `Drop` is the application dropping a receive future, with
the mutex, in its queue, or just notified.

**WorkerRuntime.** `holders` are the clones of the runtime, owned by the
application or captured by tasks; `call` is a `spawn_task` in progress on a
thread, in three steps (test and choice of the worker, number, send). `queue`,
`table` and `completions` are the command loop of tokio's `park_until_shutdown`;
on async-std the queue holds spawning shims and `localHandle` the handles that
reach the task itself. The drop of the last clone, on whatever thread, sends
shutdown to and joins one worker after the other; a failed `start` does the same
with the workers it has. A thread that joins itself panics or hangs, by platform.
`blocked` are the threads inside async-std's `block_on(handle.cancel())`
(`async_std.rs:37`): `CancelDirect` enters it for a handle of the task itself,
`CancelReturns` leaves it when the task's worker has dropped the task, and in
between the thread does nothing else. A worker's thread is inside a `block_on`
already, so a nested one parks it and drives no executor: a worker that cancels a
task of its own never returns.

## Runs

| Run | Instance | Question |
|---|---|---|
| `permits` | 3 guards; limits 2 with one `try_acquire` caller, 1 with two, 2 with none, `Some(0)`, `None` | Is the count exact, the bound kept, no wake-up lost, the pool implemented, and a waiting listener served, in every interleaving? |
| `quic_selector` | 1, 3 and 300 workers; every truncation of packets with both headers, DCID lengths 0-5 and 255 | Do the three selectors agree, stay inside the packet, and lead a connection back to its worker? |
| `service_bind` | 3 workers, 2 client packets; every kind on three platforms, fixed and ephemeral port, transparent modes | Is a group handed over only if it is verified, clean and consistent, does a failure or fallback leave anything behind, does `serve` return? |
| `native` | 2 workers; TCP, UDP, QUIC, `serve_socket` on tokio, TCP on async-std, UDP with lookups | Do permits balance on every path, is only live data handled, are only open sockets handed out, do `close()` and runtime drop end what they must? |
| `simulated` | 2 workers; TCP with limit 2 and without one, UDP and QUIC with limit 1 | Do permits follow the work, can the acceptor block, do tasks end in the right order? |
| `socket_fallback` | 2 workers, capacity 1, 3 packets | Is a routed packet ever lost, how many are routed after `close()`, do views end? |
| `routed_receive` | awaiting readers on both runtimes, one polling reader on tokio | Does a packet, or the end, ever find all readers asleep? |
| `worker_runtime` | 2 workers, 3 tasks; tokio and async-std, a self-join that panics and one that hangs | Does a submission meet a stopped worker, does the table track the tasks, does cancel stop and drop join? |
| `close_async_std`, `drop_server`, `fallback_callback_end`, `async_std_poll` | 1 or 2 workers or readers | What the design document says and the code does not do, see below |

**Bounds.** Three guards with limit 2 give a full pool, a waiter, and concurrent
drops. 300 workers need both bytes of the prefix. Three workers let a wrong
selection be neither the right socket nor the first; two client packets, one
before and one after the attachment. With limit 1 two arrivals (for UDP, one and
the wake-up datagram) fill a worker and make its loop wait; capacity 1 or 2 makes
queues full. One arrival is enough for the QUIC servers' own branch, unroutable
packets; the rest of their loop is UDP's. Three tasks on two workers put two in
one table, and let one hold the last clone while another is cancelled; a worker
that cancels its own task, and a dropping worker and another one that wait for each
other, are within the bound, two workers that cancel each other's tasks (four tasks)
are not. Deadlock is
not checked where the system may stop: servers are closed and arrivals are
bounded. The proofs lift the safety properties above these bounds.

**Fairness.** Weak fairness of the steps of a task that can run (executors poll
woken tasks), of taking commands from the queue, of the thread inside `serve`,
`spawn_task`, `cancel()`, `close()` or the runtime drop once it has begun (and not
waiting for another thread), and of a deadline.
Nothing has to arrive, and handlers and tasks may run for ever, except in
`permits`: there handlers end, and `compare_exchange_weak` does not fail
spuriously for ever (strong fairness of its success). `ListenerServed` speaks of
the configurations without `try_acquire` callers, since a native loop is the only
acquirer of its limit; with a caller that keeps taking the freed permits it does
not hold. In `socket_fallback` a callback goes on reading its view until it sees
the end or returns, and in `routed_receive` a reader that got a packet asks for
the next.

## Where the code differs from the design document

`docs/versions/v0.1/modules/sfo-reuseport/design.md` says more than the code does
in four places for which a run shows a behaviour:

- `close_async_std`: on async-std `close()` does not end a listener that waits in
  accept; the handle it cancels is that of the shim that spawned the listener.
  What holds instead is `LeftoverEndsOnEvent`: it ends at the next event.
- `drop_server`: dropping a server object does not stop its listeners.
- `fallback_callback_end`: when one worker's callback has returned, the next
  packet for it ends the dispatcher for all workers.
- `async_std_poll`: on async-std `poll_recv_from` drops the future that registered
  the waker (design.md:479), so that a packet does not wake the poller.

Others have no run of their own:

- a `serve_socket` callback task first polled after `close()` gets a socket that
  was not shut down (`core/udp.rs:482`, design.md:196);
- the fallback dispatcher does not test the flag after its recv and may route one
  packet, the wake-up datagram included, after `close()` began (`core/udp.rs:864`);
  `AtMostOneLateDelivery` bounds it;
- the classic BPF program is not tried when the eBPF program is attached and its
  probe fails (`platform/linux.rs:245`, design.md:208);
- UDP and QUIC loops go on after a recv error (design.md:444);
- a UDP or QUIC listener task first polled while `close()` runs registers its
  socket in lists `close()` has already drained, so the closed server object
  keeps it (design.md:235).

Observations from the models that contradict no document:

- What reaches a group before its selector is attached makes the probe's scan meet
  another packet first and the service fall back; so the drain after a successful probe
  discards only packets that were routed correctly.
- A probe that comes after the deadline can reach the fallback socket on a fixed
  port. The drain loop has no bound of its own under constant traffic.
- With port 0, the per-worker sockets of a TCP or UDP server are bound to different
  ports; only the QUIC group pins its port.
- `serve_socket` in userspace that fails between two callbacks leaves the first
  ones submitted (the exception in `NoSocketLeftBehind`).
- On tokio a view with two pollers, or a poller beside an awaiting reader, loses a
  waker, since the receiver keeps one; `routed_receive` has the uses that are safe.
- A task that drops the last clone of the runtime makes its worker join itself:
  a panic in the drop, or on some platforms a hang. After the panic the model lets
  the task go on or end.
- On async-std a worker that cancels a task of its own thread is parked for good, and
  with it the drop of the runtime that comes to join it. `Stuck` names these waits in
  a circle and the self-join that hangs, and nothing else: `CancelStops` and
  `DropEnds` show that they are the only way a cancelled task is not stopped and the
  drop does not end.
- A call of `listener_socket` that `close()` overtakes may return a socket that is
  being shut down (the exception in `LookupHandsOutLive`).

## Proofs

All are for every value of the constants, from the `ASSUME`s of the modules
(positive numbers of workers, limits and capacities in the naturals). None of the
invariants is inductive as stated; each module has an `IndInv` that is, proved
action by action. A leaf without arithmetic names Zenon: `tlapm` translates each
obligation for the SMT solver more slowly than the one before it, and the long
modules would time out on steps that are easy on their own.

`ConcurrencyLimitProofs`, for every limit (none and zero included), every finite
set of guards and any set of callers:

- `TypeCorrect`: the types, in particular that the counter stays a natural number;
- `AccountingHolds`, `BoundHolds`: the count is the number of guards that hold a
  permit, and at most the limit;
- `NoLostWakeupHolds`: a pending listener with a free permit has been woken, or a
  drop that freed a permit is about to wake it;
- `ReleaseHolds`: a drop never leaves its loop without the decrement;
- `PoolRefinement`: every step is a step of `PermitPool` or a stutter;
- `UnlimitedHolds`: without a limit the listener never registers a waker.

`IndInv` adds to the types that a compare-and-exchange in flight expects a value
below the limit, that a drop in flight expects a positive one (`InFlight`), and
`WakeComing`, which follows the wake-up through the steps between registration and
the next poll. The cardinality facts are lemmas about adding and removing one guard.

`WorkerRuntimeProofs`: `NoStaleSubmitHolds` and `JoinedHolds`. A call holds a clone
(`Clones`), a clone keeps the runtime running, and then every worker is in its loop
(`Phases`); `Joined` says how far the drop has come. `TableTracksTasksHolds` rests on
`TableInv`: an id is given to one call (`Fresh`; that ids do not run out is a count,
`Bounded`), a spawn in a worker's queue is of a task that waits, and there once
(`QueuedAt`), and a worker on its way out has an empty table (`TableAt`).

`ServiceBindProofs`: `NoSocketLeftBehindHolds` and `GroupConsistentHolds` from
`Base` (the types, what is bound on which path, one port per group), and
`SelectorVerifiedHolds` and `CleanHandOverHolds` from `SelectorInv`: outside the
probe there is no probe packet (`Quiet`); during it there is at most one, under way
or at the socket the kernel selects, and what is queued behind it came after the
selector (`Probing`); a socket whose probe was seen is the one the kernel selects
for its worker and holds nothing older than the selector (`Sorted`).

`NativeServerProofs`: `PermitsBalancedHolds`, `AtMostOneLateStartHolds`,
`OnlyLiveDataHandledHolds`, `LookupHandsOutLiveHolds`. `IndInv` says in which
stages a loop owns a guard, what can be in a socket before the flag is cleared and
past the last test, that a loop that started a handler late is before its next
test, and that a registered socket is not shut down before `close()`.

`SimulatedServerProofs`: `PermitPerWorkItemHolds`, `SendNeverWaitsHolds`,
`DispatchersOutliveHolds`. The permits are split by owner (handlers, queue,
dispatcher, acceptor); that the one being sent is not in the queue is why a queue
as large as the limit has room. `HandledInOrderHolds` needs `OrderInv`: along the
way from the socket through the acceptor, the queue and the dispatcher to the last
handler started the numbers of the items fall, and what has passed `Select` is data,
because what came after the close is read with the flag down.

`SocketFallbackProofs`: `RoutedNeverDroppedHolds`, by moving one id along the
concatenation of what was read, what waits and what is in flight; and
`AtMostOneLateDeliveryHolds`.

`QuicSelectorProofs`, for packets and random bytes of any length and content, and
every number of workers the two-byte prefix can name: `DcidRoundTrip`, that
`quic_worker_index` undoes the encoding of `QuicCidGenerator` under both headers,
and `RuleInRange`, about the rule alone; and about the runs of the two programs
`LoadsInBoundsHolds`, `SelectorsAgreeHolds` and `ConnectionAffinityHolds`.
`IndInv` has an assertion for every instruction (`EbpfAt`, `CbpfAt`): what the
tests that led there have established about the packet's length and first byte,
and which byte or number each register still in use holds. A step takes the
assertion of an instruction to that of its successor, and at the exits the register
is the worker of the rule. The arithmetic on bytes (the high bit, the shift and
the sum for the prefix) is in lemmas of its own.

`RoutedReceiveProofs`, for any number of readers and dropped futures:
`PacketWakesReaderHolds`, for the uses that are safe (`SafeUse`: only awaiting
readers, or on tokio a single polling one); and `AwaiterNotLeftHolds`, which is true
of every mix of readers: only pollers can be forgotten. On tokio the argument is
that the guard is with the reader at the receiver and a receive that waits owns the
waker (`TokioInv`); on async-std it is a count: while a listener waits, there are
at least as many notified readers as packets (`AsyncStdInv`), which the hand-over in
`Drop` preserves.

Only model-checked: liveness (`ListenerServed`, `Decided`, `ServeReturns`,
`EndReachesReaders`, `SendCompletes`, `CancelStops`, `DropEnds`, and everything
about `close()` and drop ending tasks), which is outside the prover. Every safety
invariant and action property that a run checks is also proved.

## Not modelled

- The public `block_on` and `spawn` of an executor used without a `ServerRuntime`,
  and tokio's local handles.
- On async-std, a server started by a task on a worker. `NativeServer` has
  `serve` called outside the workers, so that every handle is a shim's; the handle of
  a listener that `serve` spawns on its own worker is local, and `close()` on that
  worker would block as in `WorkerRuntime`.
- The system calls behind bind, options and the transparent receive path, with its
  parsing of control messages.
- The FNV hash of `core/schedule.rs`: its users need only that it names a worker.
- Configuration builders, errors and examples: no behaviour over time.
- Memory orderings: atomic accesses are sequentially consistent in the models. The
  `AtomicWaker`, mutexes and channels are modelled by their documented behaviour.

## Plan

1. async-std variants of `SimulatedServer` and `SocketFallback`.
2. One module that composes `WorkerRuntime` with a server, so that the cancel of
   `close()` goes through the command loop; now each server module has its own
   short form of it.

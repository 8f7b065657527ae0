---------------------------- MODULE WorkerRuntime ----------------------------
(***************************************************************************)
(* ServerRuntime (core/server_runtime.rs) and the executors it starts      *)
(* (runtime/tokio.rs, runtime/async_std.rs): start(), which may fail       *)
(* midway, spawn_task(), the command loop of a worker with its table of    *)
(* task handles, TaskHandle::cancel(), and the drop of the last clone,     *)
(* which stops and joins the workers one after the other.                  *)
(*                                                                         *)
(* Threads: one application thread and the workers.  A clone of the        *)
(* runtime is held by the application or captured by a task.               *)
(***************************************************************************)
EXTENDS Integers, Sequences, FiniteSets

CONSTANTS NumWorkers,   \* config.workers
          MaxTasks,     \* bound: tasks submitted in all
          Configs       \* the builds to consider

\* A build: the runtime feature, and what joining the own thread does on the
\* platform (pthread_join reports an error and std panics; Windows waits).
Config == [runtime: {"tokio", "async-std"}, selfJoin: {"panics", "hangs"}]

ASSUME WorkersAssumption == NumWorkers \in Nat \ {0}
ASSUME TasksAssumption == MaxTasks \in Nat
ASSUME ConfigsAssumption == Configs \subseteq Config

Workers == 0..(NumWorkers - 1)
Ids == 1..MaxTasks
App == -1                        \* the application thread
AppClone == <<App, 0>>
Threads == Workers \cup {App}

VARIABLES conf,
          phase,        \* of the runtime: starting, running, dropping, dropped
          started,      \* workers pushed by start()
          active,       \* ServerRuntimeInner.active
          holders,      \* clones: AppClone, or the task <<w, id>> that captured one
          dropper,      \* the thread that drops the workers
          dropAt,       \* the WorkerHandle it is at
          joining,      \* shutdown() was sent to it, join() is next
          thread,       \* each worker thread: none, up, leaving, ended
          shutdown,     \* the shutdown channel holds the signal
          queue,        \* TaskCommands (async-std: shims) not yet taken
          table,        \* task_handles of the command loop
          completions,  \* ids sent by TaskCompletionGuard
          nextId,       \* next_task_id
          nextWorker,   \* next_worker % worker_count
          task,         \* state of each task
          handles,      \* TaskHandles not yet used
          localHandle,  \* those that hold the task itself (async-std)
          cancelled,    \* tasks whose handle was cancelled
          blocked,      \* <<c, t>>: thread c is inside cancel() until task t is dropped
          call          \* spawn_task() in progress on each thread

runtimeVars == <<phase, started, active, dropper, dropAt, joining>>
loopVars == <<queue, table, completions>>
handleVars == <<handles, localHandle, cancelled, blocked>>
spawnVars == <<nextId, nextWorker, call>>
vars == <<conf, runtimeVars, holders, thread, shutdown, loopVars, spawnVars, task, handleVars>>

Idle == [pc |-> "idle", at |-> 0, id |-> 0]
Command == [op : {"spawn", "cancel"}, id : Ids]
TaskStates == {"none", "queued", "running", "aborting", "ended", "lost", "refused"}

Tokio == conf.runtime = "tokio"
Task(t) == task[t[1]][t[2]]
\* The thread is not inside the drop of the runtime, spawn_task() or cancel().
Free(c) == /\ ~(phase = "dropping" /\ dropper = c)
           /\ call[c].pc = "idle"
           /\ \A b \in blocked : b[1] # c
\* The worker's executor can poll something.
Runs(w) == thread[w] = "up" /\ Free(w)
\* The thread executes code of the application.
Executes(c) == IF c = App THEN phase # "starting" /\ Free(App)
               ELSE Runs(c) /\ \E id \in Ids : task[c][id] = "running"
Running(w) == {id \in Ids : task[w][id] = "running"}

Init == /\ conf \in Configs
        /\ phase = "starting" /\ started = 0 /\ active = TRUE
        /\ holders = {} /\ dropper = App /\ dropAt = 0 /\ joining = FALSE
        /\ thread = [w \in Workers |-> "none"]
        /\ shutdown = [w \in Workers |-> FALSE]
        /\ queue = [w \in Workers |-> <<>>]
        /\ table = [w \in Workers |-> {}]
        /\ completions = [w \in Workers |-> {}]
        /\ nextId = [w \in Workers |-> 1] /\ nextWorker = 0
        /\ task = [w \in Workers |-> [id \in Ids |-> "none"]]
        /\ handles = {} /\ localHandle = {} /\ cancelled = {} /\ blocked = {}
        /\ call = [c \in Threads |-> Idle]

-----------------------------------------------------------------------------
(* start()                                                                 *)

\* start_worker: the thread is running and has sent its executor handle.
StartWorker ==
  /\ phase = "starting" /\ started < NumWorkers
  /\ thread' = [thread EXCEPT ![started] = "up"]
  /\ started' = started + 1
  /\ UNCHANGED <<conf, phase, active, holders, dropper, dropAt, joining, shutdown, loopVars,
                 spawnVars, task, handleVars>>

\* Thread creation fails, or the thread ends before it sends its handle: the
\* workers pushed so far are dropped and start() returns the error.
StartFails ==
  /\ phase = "starting" /\ started < NumWorkers
  /\ phase' = "dropping" /\ dropper' = App
  /\ UNCHANGED <<conf, started, active, holders, dropAt, joining, thread, shutdown, loopVars,
                 spawnVars, task, handleVars>>

StartDone ==
  /\ phase = "starting" /\ started = NumWorkers
  /\ phase' = "running" /\ holders' = {AppClone}
  /\ UNCHANGED <<conf, started, active, dropper, dropAt, joining, thread, shutdown, loopVars,
                 spawnVars, task, handleVars>>

-----------------------------------------------------------------------------
(* Clones and the drop of the last one.                                    *)

\* Thread c drops the clone of h; with the last one Inner::drop begins there.
Release(h, c) ==
  /\ holders' = holders \ {h}
  /\ IF h \in holders /\ holders = {h}
     THEN /\ phase' = "dropping" /\ active' = FALSE /\ dropper' = c
          /\ UNCHANGED <<started, dropAt, joining>>
     ELSE UNCHANGED runtimeVars

\* The application drops its clone.
AppReleases ==
  /\ phase = "running" /\ AppClone \in holders /\ Free(App)
  /\ Release(AppClone, App)
  /\ UNCHANGED <<conf, thread, shutdown, loopVars, spawnVars, task, handleVars>>

\* A task drops its clone and goes on.
TaskReleases(w, id) ==
  /\ Runs(w) /\ task[w][id] = "running" /\ <<w, id>> \in holders
  /\ Release(<<w, id>>, w)
  /\ UNCHANGED <<conf, thread, shutdown, loopVars, spawnVars, task, handleVars>>

\* Mutant of DropSignal: shutdown() is not called before the join.
DropUnsignalled ==
  /\ phase = "dropping" /\ dropAt < started /\ ~joining
  /\ joining' = TRUE
  /\ UNCHANGED <<conf, phase, started, active, holders, dropper, dropAt, thread, shutdown, loopVars,
                 spawnVars, task, handleVars>>

\* WorkerHandle::drop, first half.
DropSignal ==
  /\ phase = "dropping" /\ dropAt < started /\ ~joining
  /\ shutdown' = [shutdown EXCEPT ![dropAt] = TRUE]
  /\ joining' = TRUE
  /\ UNCHANGED <<conf, phase, started, active, holders, dropper, dropAt, thread, loopVars,
                 spawnVars, task, handleVars>>

\* Mutant of DropJoin: the thread is left behind.
DropDetach ==
  /\ phase = "dropping" /\ joining
  /\ dropAt' = dropAt + 1 /\ joining' = FALSE
  /\ UNCHANGED <<conf, phase, started, active, holders, dropper, thread, shutdown, loopVars,
                 spawnVars, task, handleVars>>

\* WorkerHandle::drop, second half: join() returns when the thread ended.  On
\* the worker's own thread it cannot: std panics, which unwinds through the
\* remaining handles, or it waits for ever.
DropJoin ==
  /\ phase = "dropping" /\ joining
  /\ thread[dropAt] = "ended" \/ (dropper = dropAt /\ conf.selfJoin = "panics")
  /\ dropAt' = dropAt + 1 /\ joining' = FALSE
  /\ UNCHANGED <<conf, phase, started, active, holders, dropper, thread, shutdown, loopVars,
                 spawnVars, task, handleVars>>

DropDone ==
  /\ phase = "dropping" /\ dropAt = started
  /\ phase' = "dropped"
  /\ UNCHANGED <<conf, started, active, holders, dropper, dropAt, joining, thread, shutdown,
                 loopVars, spawnVars, task, handleVars>>

-----------------------------------------------------------------------------
(* spawn_task() and submit_to_worker(): three atomic accesses.             *)

HoldsClone(c) == IF c = App THEN AppClone \in holders
                 ELSE \E id \in Running(c) : <<c, id>> \in holders

\* The bound on submissions, those in progress included.
Room == Cardinality({t \in Workers \X Ids : task[t[1]][t[2]] # "none"})
          + Cardinality({c \in Threads : call[c].pc # "idle"}) < MaxTasks

\* Mutant of SpawnPick: the caller's own clone is not needed.
SpawnPickUnheld(c) ==
  /\ Executes(c) /\ active
  /\ Room
  /\ \E w \in Workers : call' = [call EXCEPT ![c] = [pc |-> "picked", at |-> w, id |-> 0]]
  /\ UNCHANGED <<conf, runtimeVars, holders, thread, shutdown, loopVars, nextId, nextWorker, task,
                 handleVars>>

\* ensure_running, then the worker of this thread or the next in turn.
SpawnPick(c) ==
  /\ Executes(c) /\ HoldsClone(c) /\ active /\ Room
  /\ LET w == IF c = App THEN nextWorker ELSE c
     IN /\ call' = [call EXCEPT ![c] = [pc |-> "picked", at |-> w, id |-> 0]]
        /\ nextWorker' = IF c = App THEN (nextWorker + 1) % NumWorkers ELSE nextWorker
  /\ UNCHANGED <<conf, runtimeVars, holders, thread, shutdown, loopVars, nextId, task, handleVars>>

\* next_task_id.fetch_add (on async-std only a name for the task).
SpawnNumber(c) ==
  /\ call[c].pc = "picked"
  /\ LET w == call[c].at
     IN /\ call' = [call EXCEPT ![c].pc = "numbered", ![c].id = nextId[w]]
        /\ nextId' = [nextId EXCEPT ![w] = nextId[w] + 1]
  /\ UNCHANGED <<conf, runtimeVars, holders, thread, shutdown, loopVars, nextWorker, task, handleVars>>

\* The command is sent and a handle returned; a clone may travel with the task.
\* A tokio worker that has left its loop refuses the command.  An async-std
\* worker is never refused, and on its own thread the task is spawned directly.
SpawnSend(c) ==
  /\ call[c].pc = "numbered"
  /\ LET w == call[c].at
         id == call[c].id
         local == ~Tokio /\ c = w
         ok == ~Tokio \/ thread[w] = "up"
     IN /\ task' = [task EXCEPT ![w][id] = IF local THEN "running" ELSE IF ok THEN "queued" ELSE "refused"]
        /\ queue' = IF ok /\ ~local
                    THEN [queue EXCEPT ![w] = Append(@, [op |-> "spawn", id |-> id])] ELSE queue
        /\ handles' = IF ok THEN handles \cup {<<w, id>>} ELSE handles
        /\ localHandle' = IF local THEN localHandle \cup {<<w, id>>} ELSE localHandle
        /\ \E captured \in BOOLEAN :
              holders' = IF ok /\ captured THEN holders \cup {<<w, id>>} ELSE holders
  /\ call' = [call EXCEPT ![c] = Idle]
  /\ UNCHANGED <<conf, runtimeVars, thread, shutdown, table, completions, nextId, nextWorker,
                 cancelled, blocked>>

-----------------------------------------------------------------------------
(* TaskHandle::cancel()                                                    *)

\* tokio: send Cancel, which a worker that left its loop never sees.
CancelRemote(c, t) ==
  /\ Executes(c) /\ Tokio /\ t \in handles
  /\ queue' = IF thread[t[1]] = "up"
              THEN [queue EXCEPT ![t[1]] = Append(@, [op |-> "cancel", id |-> t[2]])] ELSE queue
  /\ handles' = handles \ {t} /\ cancelled' = cancelled \cup {t}
  /\ UNCHANGED <<conf, runtimeVars, holders, thread, shutdown, table, completions, spawnVars, task,
                 localHandle, blocked>>

\* async-std: the shim is dropped by its executor if it has not run yet; the
\* handle of a shim that ran refers to nothing.  A handle of the task itself
\* cancels the task, and block_on(handle.cancel()) keeps the calling thread until
\* the task's worker has dropped it.  Called on a worker, whose executor is in a
\* block_on already, it parks the thread and polls nothing else.
CancelDirect(c, t) ==
  /\ Executes(c) /\ ~Tokio /\ t \in handles
  /\ task' = [task EXCEPT ![t[1]][t[2]] =
                IF @ = "queued" \/ (@ = "running" /\ t \in localHandle) THEN "aborting" ELSE @]
  /\ blocked' = IF t \in localHandle /\ Task(t) # "ended" THEN blocked \cup {<<c, t>>} ELSE blocked
  /\ handles' = handles \ {t} /\ cancelled' = cancelled \cup {t}
  /\ UNCHANGED <<conf, runtimeVars, holders, thread, shutdown, loopVars, spawnVars, localHandle>>

\* The task is dropped and block_on returns.
CancelReturns(c) ==
  /\ \E b \in blocked : b[1] = c /\ Task(b[2]) = "ended" /\ blocked' = blocked \ {b}
  /\ UNCHANGED <<conf, runtimeVars, holders, thread, shutdown, loopVars, spawnVars, task, handles,
                 localHandle, cancelled>>

-----------------------------------------------------------------------------
(* A worker thread: park_until_shutdown().                                 *)

NextCommand(w, op) == Runs(w) /\ queue[w] # <<>> /\ Head(queue[w]).op = op
Taken(w) == queue' = [queue EXCEPT ![w] = Tail(@)]

\* TaskCommand::Spawn: the handle goes into the table.
LoopSpawn(w) ==
  /\ Tokio /\ NextCommand(w, "spawn")
  /\ LET id == Head(queue[w]).id
     IN /\ table' = [table EXCEPT ![w] = @ \cup {id}]
        /\ task' = [task EXCEPT ![w][id] = "running"]
  /\ Taken(w)
  /\ UNCHANGED <<conf, runtimeVars, holders, thread, shutdown, completions, spawnVars, handleVars>>

\* Mutant of LoopCancel: the handle is dropped and the task not aborted.
LoopForgets(w) ==
  /\ Tokio /\ NextCommand(w, "cancel")
  /\ table' = [table EXCEPT ![w] = @ \ {Head(queue[w]).id}]
  /\ Taken(w)
  /\ UNCHANGED <<conf, runtimeVars, holders, thread, shutdown, completions, spawnVars, task, handleVars>>

\* TaskCommand::Cancel: abort() of a task that is in the table; one that has
\* completed already is not disturbed.
LoopCancel(w) ==
  /\ Tokio /\ NextCommand(w, "cancel")
  /\ LET id == Head(queue[w]).id
     IN /\ table' = [table EXCEPT ![w] = @ \ {id}]
        /\ task' = [task EXCEPT ![w][id] = IF id \in table[w] /\ @ = "running" THEN "aborting" ELSE @]
  /\ Taken(w)
  /\ UNCHANGED <<conf, runtimeVars, holders, thread, shutdown, completions, spawnVars, handleVars>>

\* completion_receiver.recv()
LoopComplete(w) ==
  /\ Tokio /\ Runs(w)
  /\ \E id \in completions[w] : /\ table' = [table EXCEPT ![w] = @ \ {id}]
                                /\ completions' = [completions EXCEPT ![w] = @ \ {id}]
  /\ UNCHANGED <<conf, runtimeVars, holders, thread, shutdown, queue, spawnVars, task, handleVars>>

\* async-std: the shim spawns the task and forgets its handle, unless it was
\* dropped before; with it goes the clone it captured.
RunShim(w) ==
  /\ ~Tokio /\ NextCommand(w, "spawn")
  /\ LET id == Head(queue[w]).id
     IN IF task[w][id] = "aborting"
        THEN task' = [task EXCEPT ![w][id] = "ended"] /\ Release(<<w, id>>, w)
        ELSE task' = [task EXCEPT ![w][id] = "running"] /\ UNCHANGED <<holders, runtimeVars>>
  /\ Taken(w)
  /\ UNCHANGED <<conf, thread, shutdown, table, completions, spawnVars, handleVars>>

\* Mutant of TaskEnds: no completion guard.
TaskEndsSilently(w, id) ==
  /\ Runs(w) /\ task[w][id] = "running"
  /\ task' = [task EXCEPT ![w][id] = "ended"]
  /\ Release(<<w, id>>, w)
  /\ UNCHANGED <<conf, thread, shutdown, loopVars, spawnVars, handleVars>>

\* The future returns: its clone, if it has one, goes and the guard reports it.
TaskEnds(w, id) ==
  /\ Runs(w) /\ task[w][id] = "running"
  /\ task' = [task EXCEPT ![w][id] = "ended"]
  /\ completions' = IF Tokio THEN [completions EXCEPT ![w] = @ \cup {id}] ELSE completions
  /\ Release(<<w, id>>, w)
  /\ UNCHANGED <<conf, thread, shutdown, queue, table, spawnVars, handleVars>>

\* The executor drops an aborted task; the guard exists if it was ever polled.
TaskDropped(w, id) ==
  /\ Runs(w) /\ task[w][id] = "aborting"
  /\ \A i \in 1..Len(queue[w]) : queue[w][i] # [op |-> "spawn", id |-> id]
  /\ task' = [task EXCEPT ![w][id] = "ended"]
  /\ \E polled \in BOOLEAN :
        completions' = IF Tokio /\ polled THEN [completions EXCEPT ![w] = @ \cup {id}] ELSE completions
  /\ Release(<<w, id>>, w)
  /\ UNCHANGED <<conf, thread, shutdown, queue, table, spawnVars, handleVars>>

\* The loop leaves: every handle in the table is aborted, and the commands
\* that are still queued are lost with the receiver.
LoopShutdown(w) ==
  /\ Runs(w) /\ shutdown[w]
  /\ thread' = [thread EXCEPT ![w] = "leaving"]
  /\ task' = [task EXCEPT ![w] = [id \in Ids |->
                CASE @[id] = "queued" -> "lost"
                  [] id \in table[w] /\ @[id] = "running" -> "aborting"
                  [] OTHER -> @[id]]]
  /\ table' = [table EXCEPT ![w] = {}] /\ queue' = [queue EXCEPT ![w] = <<>>]
  /\ UNCHANGED <<conf, runtimeVars, holders, shutdown, completions, spawnVars, handleVars>>

\* The runtime and its local tasks are dropped and the thread ends.
ThreadEnds(w) ==
  /\ thread[w] = "leaving"
  /\ thread' = [thread EXCEPT ![w] = "ended"]
  /\ task' = [task EXCEPT ![w] = [id \in Ids |->
                IF @[id] \in {"running", "aborting"} THEN "ended" ELSE @[id]]]
  /\ UNCHANGED <<conf, runtimeVars, holders, shutdown, loopVars, spawnVars, handleVars>>

-----------------------------------------------------------------------------
DropRuntime == DropSignal \/ DropJoin \/ DropDone
\* What a thread does inside a call; it has no choice but to go on.
Call(c) == SpawnNumber(c) \/ SpawnSend(c) \/ CancelReturns(c)
\* What a worker thread does by itself; what remains is up to its tasks.
Worker(w) == \/ LoopSpawn(w) \/ LoopCancel(w) \/ RunShim(w) \/ LoopComplete(w)
             \/ LoopShutdown(w) \/ ThreadEnds(w)
             \/ \E id \in Ids : TaskDropped(w, id)
TaskStep(w) == \E id \in Ids : TaskEnds(w, id) \/ TaskReleases(w, id)

Next == \/ StartWorker \/ StartFails \/ StartDone
        \/ AppReleases \/ DropRuntime
        \/ \E c \in Threads : SpawnPick(c) \/ Call(c)
        \/ \E c \in Threads, t \in Workers \X Ids : CancelRemote(c, t) \/ CancelDirect(c, t)
        \/ \E w \in Workers : Worker(w) \/ TaskStep(w)

Spec == Init /\ [][Next]_vars

\* A thread that can go on does, in whatever order select! and the executor
\* choose; no task has to end and nobody has to cancel.  Submissions are
\* bounded, so that no channel keeps another one waiting.
Fairness == /\ WF_vars(DropRuntime)
            /\ \A c \in Threads : WF_vars(Call(c))
            /\ \A w \in Workers : WF_vars(Worker(w))

FairSpec == Spec /\ Fairness

-----------------------------------------------------------------------------
TypeOK ==
  /\ conf \in Config
  /\ phase \in {"starting", "running", "dropping", "dropped"}
  /\ started \in 0..NumWorkers /\ dropAt \in 0..NumWorkers /\ dropper \in Threads
  /\ active \in BOOLEAN /\ joining \in BOOLEAN
  /\ holders \subseteq {AppClone} \cup (Workers \X Ids)
  /\ thread \in [Workers -> {"none", "up", "leaving", "ended"}]
  /\ shutdown \in [Workers -> BOOLEAN]
  /\ queue \in [Workers -> Seq(Command)]
  /\ table \in [Workers -> SUBSET Ids] /\ completions \in [Workers -> SUBSET Ids]
  /\ nextId \in [Workers -> 1..(MaxTasks + 1)] /\ nextWorker \in Workers
  /\ task \in [Workers -> [Ids -> TaskStates]]
  /\ handles \subseteq Workers \X Ids /\ localHandle \subseteq Workers \X Ids
  /\ cancelled \subseteq Workers \X Ids /\ blocked \subseteq Threads \X (Workers \X Ids)
  /\ call \in [Threads -> [pc : {"idle", "picked", "numbered"}, at : Workers, id : Ids \cup {0}]]

\* spawn_task() tests the flag and submits two steps later, and nothing tests it
\* again: this is sound because the clone the caller holds keeps every worker in
\* its loop, whatever the other threads drop meanwhile.
NoStaleSubmit ==
  \A c \in Threads : call[c].pc # "idle" =>
     active /\ \A w \in Workers : thread[w] = "up" /\ ~shutdown[w]

\* The handle table of a tokio worker has every running task, so that a cancel
\* finds it, and otherwise only tasks whose completion is on its way: no handle
\* is kept for good, however spawn, cancel, completion and abort interleave.
TableTracksTasks ==
  /\ TypeOK
  /\ Tokio => \A w \in Workers : thread[w] = "up" =>
                /\ Running(w) \subseteq table[w]
                /\ table[w] \subseteq Running(w) \cup completions[w]

\* When the drop of the runtime, or a start() that failed midway, returns, every
\* worker thread has ended; only the thread that ran the drop may still be
\* leaving, if it is a worker itself.
JoinedBeforeReturn ==
  phase = "dropped" => \A w \in Workers \ {dropper} : thread[w] \in {"none", "ended"}

\* Thread c waits for thread d: in cancel() for a task that only d can drop, or in
\* the drop of the runtime for d to end.
WaitsFor(c, d) ==
  \/ \E b \in blocked : b[1] = c /\ b[2][1] = d /\ Task(b[2]) # "ended"
  \/ /\ phase = "dropping" /\ joining /\ dropper = c /\ dropAt = d
     /\ thread[d] # "ended" /\ ~(c = d /\ conf.selfJoin = "panics")

\* Thread c is held up for good: it belongs to a set of threads each of which waits
\* for one of the set.
Stuck(c) ==
  LET waiting == {a \in Threads : \E b \in Threads : WaitsFor(a, b)}
  IN  \E S \in SUBSET waiting : c \in S /\ \A a \in S : \E b \in S : WaitsFor(a, b)

\* The tasks of worker w that were cancelled, on async-std through a handle of the
\* task's own, and are not stopped yet.
Unstopped(w) == {id \in Ids : /\ <<w, id>> \in cancelled
                              /\ Tokio \/ <<w, id>> \in localHandle
                              /\ task[w][id] \in {"queued", "running", "aborting"}}

\* Cancelled tasks stop, also when the cancel overtakes a task's first poll, comes
\* after its completion, or races the shutdown.  The one thing that keeps them is
\* that their worker waits in a circle: it joins itself, or is inside a cancel()
\* that waits for a task of its own thread.
CancelStops == \A w \in Workers : []<>(Unstopped(w) = {} \/ Stuck(w))

\* The drop of the last clone stops all workers, unless the dropping thread comes to
\* wait in a circle: for itself, where a self-join hangs, or for a worker that is
\* inside a cancel() which waits for that worker's own, or the dropping, thread.
DropEnds ==
  phase = "dropping"
     ~> \/ phase = "dropped" /\ \A w \in Workers : thread[w] \in {"none", "ended"}
        \/ Stuck(dropper)
=============================================================================

------------------------- MODULE WorkerRuntimeProofs -------------------------
(***************************************************************************)
(* NoStaleSubmit, JoinedBeforeReturn and TableTracksTasks of WorkerRuntime  *)
(* for any number of workers and tasks.  The first two rest on one          *)
(* inductive invariant: a call of spawn_task() holds a clone, a clone keeps *)
(* the runtime in its running phase, and in that phase every worker is in   *)
(* its loop.  The third on a second one, relative to it: a task's id is     *)
(* given out once, waits in one command, and stays within the bound.        *)
(***************************************************************************)
EXTENDS WorkerRuntime, FiniteSetTheorems, SequenceTheorems, TLAPS

Shape == /\ phase \in {"starting", "running", "dropping", "dropped"}
         /\ started \in 0..NumWorkers /\ dropAt \in Nat /\ dropper \in Threads
         /\ active \in BOOLEAN /\ joining \in BOOLEAN
         /\ thread \in [Workers -> {"none", "up", "leaving", "ended"}]
         /\ shutdown \in [Workers -> BOOLEAN]
         /\ nextId \in [Workers -> Nat] /\ nextWorker \in Workers
         /\ call \in [Threads -> [pc : {"idle", "picked", "numbered"}, at : Workers, id : Nat]]

\* The calls and the clones.
Clones == /\ phase = "running" <=> holders # {}
          /\ \A c \in Threads : call[c].pc # "idle" => \E h \in holders : h[1] = c

\* The worker threads in each phase.
Phases == /\ phase \in {"starting", "running"} =>
               active /\ dropAt = 0 /\ ~joining /\ \A w \in Workers : ~shutdown[w]
          /\ phase = "starting" => \A w \in Workers : w < started => thread[w] = "up"
          /\ phase = "running" => started = NumWorkers /\ \A w \in Workers : thread[w] = "up"
          /\ phase = "dropped" => dropAt = started /\ ~joining
          /\ \A w \in Workers : w >= started => thread[w] = "none"

\* How far the drop has come.
Joined == /\ dropAt <= started /\ (joining => dropAt < started)
          /\ \A w \in Workers \ {dropper} : w < dropAt => thread[w] = "ended"

IndInv == Shape /\ Clones /\ Phases /\ Joined

-----------------------------------------------------------------------------
\* The first state: no worker, no clone, no call.
LEMMA InitHolds == Init => IndInv
<1> SUFFICES ASSUME Init PROVE IndInv
  BY Zenon
<1>0. 0 \in Workers /\ Idle \in [pc : {"idle", "picked", "numbered"}, at : Workers, id : Nat]
  BY WorkersAssumption DEF Workers, Idle
<1>1. Shape
  <2>1. /\ started \in 0..NumWorkers /\ dropAt \in Nat
        /\ nextId \in [Workers -> Nat]
    BY WorkersAssumption DEF Init
  <2>2. /\ phase \in {"starting", "running", "dropping", "dropped"}
        /\ dropper \in Threads /\ nextWorker \in Workers
        /\ active \in BOOLEAN /\ joining \in BOOLEAN
        /\ thread \in [Workers -> {"none", "up", "leaving", "ended"}]
        /\ shutdown \in [Workers -> BOOLEAN]
        /\ call \in [Threads -> [pc : {"idle", "picked", "numbered"}, at : Workers, id : Nat]]
    BY <1>0, Zenon DEF Init, Threads
  <2> QED BY Zenon, <2>1, <2>2 DEF Shape
<1>2. Clones
  BY Zenon DEF Init, Clones, Idle
<1>3. Phases
  BY DEF Init, Phases, Workers
<1>4. Joined
  BY DEF Init, Joined, Workers
<1> QED BY Zenon, <1>1, <1>2, <1>3, <1>4 DEF IndInv

\* What follows for a call in progress: the runtime is running, so that its
\* worker has not left the loop.
LEMMA CallsAreSound == IndInv => NoStaleSubmit
  BY Zenon DEF IndInv, Clones, Phases, NoStaleSubmit

\* Release(h, w) on the thread to which the clone h belongs, when that thread is in no
\* call: the other threads' calls keep their clones, and the drop of the last
\* clone begins with no call in progress.
LEMMA ReleaseKeeps ==
  ASSUME IndInv, NEW c \in Threads, NEW h, h[1] = c, call[c].pc = "idle", Release(h, c),
         UNCHANGED <<thread, shutdown, nextId, nextWorker, call>>
  PROVE  IndInv'
<1>1. CASE h \in holders /\ holders = {h}
  <2>1. /\ holders' = {} /\ phase' = "dropping" /\ active' = FALSE /\ dropper' = c
        /\ UNCHANGED <<started, dropAt, joining, thread, shutdown, nextId, nextWorker, call>>
    BY Zenon, <1>1 DEF Release
  <2>2. \A d \in Threads : call[d].pc = "idle"
    BY Zenon, <1>1 DEF IndInv, Clones
  <2>3. phase = "running"
    BY Zenon, <1>1 DEF IndInv, Clones
  <2>4. Shape' /\ Clones' /\ Phases'
    BY ZenonT(30), <2>1, <2>2, <2>3 DEF IndInv, Shape, Clones, Phases
  <2>5. Joined'
    BY <2>1, <2>3 DEF IndInv, Shape, Phases, Joined, Workers
  <2> QED BY Zenon, <2>4, <2>5 DEF IndInv
<1>2. CASE ~(h \in holders /\ holders = {h})
  <2>1. holders' = holders \ {h} /\ UNCHANGED runtimeVars
    BY Zenon, <1>2 DEF Release
  <2>2. Shape' /\ Phases' /\ Joined'
    BY Zenon, <2>1 DEF IndInv, Shape, Phases, Joined, runtimeVars
  <2>3. Clones'
    BY <1>2, <2>1 DEF IndInv, Clones, runtimeVars
  <2> QED BY Zenon, <2>2, <2>3 DEF IndInv
<1> QED BY Zenon, <1>1, <1>2

\* A step that touches neither clones, calls nor threads keeps the invariant.
LEMMA FrameKeeps ==
  ASSUME IndInv, UNCHANGED <<runtimeVars, holders, thread, shutdown, spawnVars>>
  PROVE  IndInv'
  BY Zenon DEF IndInv, Shape, Clones, Phases, Joined, runtimeVars, spawnVars

\* start(): workers are added one after the other, or dropped again.
LEMMA StartKeeps ==
  ASSUME IndInv, StartWorker \/ StartFails \/ StartDone
  PROVE  IndInv'
<1>1. CASE StartWorker
  <2> USE <1>1 DEF StartWorker, spawnVars
  <2>1. started \in Workers /\ started' = started + 1 /\ started' \in 0..NumWorkers
    BY WorkersAssumption DEF IndInv, Shape, Workers
  <2>2. Shape' /\ Clones'
    BY Zenon, <2>1 DEF IndInv, Shape, Clones
  <2>3. Phases' /\ Joined'
    BY <2>1, WorkersAssumption DEF IndInv, Shape, Phases, Joined, Workers
  <2> QED BY Zenon, <2>2, <2>3 DEF IndInv
<1>2. CASE StartFails
  <2> USE <1>2 DEF StartFails, spawnVars
  <2>1. Shape' /\ Clones'
    BY Zenon DEF IndInv, Shape, Clones, Threads
  <2>2. Phases' /\ Joined'
    BY DEF IndInv, Shape, Phases, Joined, Workers
  <2> QED BY Zenon, <2>1, <2>2 DEF IndInv
<1>3. CASE StartDone
  <2> USE <1>3 DEF StartDone, spawnVars
  <2>1. \A c \in Threads : call[c].pc = "idle"
    BY Zenon DEF IndInv, Clones
  <2>2. Shape' /\ Clones'
    BY Zenon, <2>1 DEF IndInv, Shape, Clones
  <2>3. Phases' /\ Joined'
    BY DEF IndInv, Shape, Phases, Joined, Workers
  <2> QED BY Zenon, <2>2, <2>3 DEF IndInv
<1> QED BY Zenon, <1>1, <1>2, <1>3

\* The drop of the runtime: the handle at dropAt is signalled, then joined.
LEMMA DropKeeps ==
  ASSUME IndInv, DropSignal \/ DropJoin \/ DropDone
  PROVE  IndInv'
<1>1. CASE DropSignal
  <2> USE <1>1 DEF DropSignal, spawnVars
  <2>1. Shape' /\ Clones'
    BY Zenon DEF IndInv, Shape, Clones
  <2>2. Phases' /\ Joined'
    BY Zenon DEF IndInv, Shape, Phases, Joined, Workers
  <2> QED BY Zenon, <2>1, <2>2 DEF IndInv
<1>2. CASE DropJoin
  <2> USE <1>2 DEF DropJoin, spawnVars
  <2>0. dropAt < started /\ dropAt' = dropAt + 1
    BY Zenon DEF IndInv, Joined
  <2>1. dropAt \in Workers /\ dropAt' \in Nat /\ dropAt' <= started
    BY <2>0, WorkersAssumption DEF IndInv, Shape, Workers
  <2>2. Shape' /\ Clones'
    BY Zenon, <2>1 DEF IndInv, Shape, Clones
  <2>3. Phases'
    BY Zenon DEF IndInv, Shape, Phases
  <2>4. Joined'
    BY <2>1 DEF IndInv, Shape, Joined, Workers
  <2> QED BY Zenon, <2>2, <2>3, <2>4 DEF IndInv
<1>3. CASE DropDone
  <2> USE <1>3 DEF DropDone, spawnVars
  <2>1. Shape' /\ Clones' /\ Joined'
    BY Zenon DEF IndInv, Shape, Clones, Joined
  <2>2. Phases'
    BY DEF IndInv, Shape, Phases, Joined
  <2> QED BY Zenon, <2>1, <2>2 DEF IndInv
<1> QED BY Zenon, <1>1, <1>2, <1>3

\* spawn_task(): it begins with a clone, and with the command a second one may go.
LEMMA SpawnKeeps ==
  ASSUME IndInv, NEW c \in Threads, SpawnPick(c) \/ SpawnNumber(c) \/ SpawnSend(c)
  PROVE  IndInv'
<1>1. CASE SpawnPick(c)
  <2> USE <1>1 DEF SpawnPick, runtimeVars
  <2>1. \E h \in holders : h[1] = c
    BY Zenon DEF HoldsClone, AppClone
  <2>2. nextWorker' \in Workers
    BY WorkersAssumption DEF IndInv, Shape, Workers
  <2>3. Shape'
    BY Zenon, <2>2 DEF IndInv, Shape, Threads
  <2>4. Clones'
    BY Zenon, <2>1 DEF IndInv, Shape, Clones
  <2>5. Phases' /\ Joined'
    BY Zenon DEF IndInv, Phases, Joined
  <2> QED BY Zenon, <2>3, <2>4, <2>5 DEF IndInv
<1>2. CASE SpawnNumber(c)
  <2> USE <1>2 DEF SpawnNumber, runtimeVars
  <2>0. call[c].at \in Workers /\ nextId[call[c].at] \in Nat /\ nextId[call[c].at] + 1 \in Nat
    BY DEF IndInv, Shape
  <2>1. Shape'
    <3>1. nextId' \in [Workers -> Nat]
      BY Zenon, <2>0 DEF IndInv, Shape
    <3>2. call' \in [Threads -> [pc : {"idle", "picked", "numbered"}, at : Workers, id : Nat]]
      BY ZenonT(30), <2>0 DEF IndInv, Shape
    <3> QED BY Zenon, <3>1, <3>2 DEF IndInv, Shape
  <2>2. Clones'
    BY Zenon DEF IndInv, Shape, Clones
  <2>3. Phases' /\ Joined'
    BY Zenon DEF IndInv, Phases, Joined
  <2> QED BY Zenon, <2>1, <2>2, <2>3 DEF IndInv
<1>3. CASE SpawnSend(c)
  <2> USE <1>3 DEF SpawnSend, runtimeVars
  <2>1. phase = "running"
    BY Zenon DEF IndInv, Clones
  <2>2. holders \subseteq holders' /\ holders # {}
    BY Zenon, <2>1 DEF IndInv, Clones
  <2>3. Idle \in [pc : {"idle", "picked", "numbered"}, at : Workers, id : Nat] /\ Idle.pc = "idle"
    BY SMTT(30), WorkersAssumption DEF Workers, Idle
  <2>4. Shape'
    BY Zenon, <2>3 DEF IndInv, Shape
  <2>5. Clones'
    BY Zenon, <2>1, <2>2, <2>3 DEF IndInv, Shape, Clones
  <2>6. Phases' /\ Joined'
    BY Zenon DEF IndInv, Phases, Joined
  <2> QED BY Zenon, <2>4, <2>5, <2>6 DEF IndInv
<1> QED BY Zenon, <1>1, <1>2, <1>3

\* What a worker's own executor does, and its tasks: clones go on the thread
\* they belong to; a worker leaves its loop only when it was told to.
LEMMA WorkerKeeps ==
  ASSUME IndInv, NEW w \in Workers, Worker(w) \/ TaskStep(w)
  PROVE  IndInv'
<1>0. w \in Threads /\ \A id : <<w, id>>[1] = w
  BY Zenon DEF Threads
<1>1. CASE LoopSpawn(w) \/ LoopCancel(w) \/ LoopComplete(w)
  BY Zenon, <1>1, FrameKeeps DEF LoopSpawn, LoopCancel, LoopComplete
<1>2. CASE RunShim(w)
  <2>1. call[w].pc = "idle" /\ UNCHANGED <<thread, shutdown, spawnVars>>
    BY Zenon, <1>2 DEF RunShim, NextCommand, Runs, Free
  <2>2. CASE UNCHANGED <<holders, runtimeVars>>
    BY Zenon, <2>1, <2>2, FrameKeeps
  <2>3. CASE Release(<<w, Head(queue[w]).id>>, w)
    BY Zenon, <1>0, <2>1, <2>3, ReleaseKeeps DEF spawnVars
  <2> QED BY Zenon, <1>2, <2>2, <2>3 DEF RunShim
<1>3. ASSUME NEW id \in Ids, TaskDropped(w, id) \/ TaskEnds(w, id) \/ TaskReleases(w, id)
      PROVE  IndInv'
  <2>1. /\ call[w].pc = "idle" /\ Release(<<w, id>>, w)
        /\ UNCHANGED <<thread, shutdown, spawnVars>>
    BY Zenon, <1>3 DEF TaskDropped, TaskEnds, TaskReleases, Runs, Free
  <2> QED BY Zenon, <1>0, <2>1, ReleaseKeeps DEF spawnVars
<1>4. CASE LoopShutdown(w)
  <2> USE <1>4 DEF LoopShutdown, Runs, runtimeVars, spawnVars
  <2>1. phase \in {"dropping", "dropped"}
    BY Zenon DEF IndInv, Shape, Phases
  <2>2. Shape' /\ Clones'
    BY Zenon DEF IndInv, Shape, Clones
  <2>3. Phases' /\ Joined'
    BY Zenon, <2>1 DEF IndInv, Shape, Phases, Joined
  <2> QED BY Zenon, <2>2, <2>3 DEF IndInv
<1>5. CASE ThreadEnds(w)
  <2> USE <1>5 DEF ThreadEnds, runtimeVars, spawnVars
  <2>1. w < started /\ phase \in {"dropping", "dropped"}
    BY DEF IndInv, Shape, Phases, Workers
  <2>2. Shape' /\ Clones'
    BY Zenon DEF IndInv, Shape, Clones
  <2>3. Phases' /\ Joined'
    BY Zenon, <2>1 DEF IndInv, Shape, Phases, Joined, Workers
  <2> QED BY Zenon, <2>2, <2>3 DEF IndInv
<1> QED BY Zenon, <1>1, <1>2, <1>3, <1>4, <1>5 DEF Worker, TaskStep

\* The invariant holds in every state of WorkerRuntime.
THEOREM Invariance == Spec => []IndInv
<1>1. IndInv /\ [Next]_vars => IndInv'
  <2> SUFFICES ASSUME IndInv, [Next]_vars PROVE IndInv'
    BY Zenon
  <2>1. CASE StartWorker \/ StartFails \/ StartDone
    BY Zenon, <2>1, StartKeeps
  <2>2. CASE AppReleases
    <3>1. AppClone[1] = App /\ App \in Threads
      BY Zenon DEF AppClone, Threads
    <3>2. call[App].pc = "idle" /\ Release(AppClone, App) /\ UNCHANGED <<thread, shutdown, spawnVars>>
      BY Zenon, <2>2 DEF AppReleases, Free
    <3> QED BY Zenon, <3>1, <3>2, ReleaseKeeps DEF spawnVars
  <2>3. CASE DropRuntime
    BY Zenon, <2>3, DropKeeps DEF DropRuntime
  <2>4. ASSUME NEW c \in Threads, SpawnPick(c) \/ Call(c) PROVE IndInv'
    BY Zenon, <2>4, SpawnKeeps, FrameKeeps DEF Call, CancelReturns
  <2>5. ASSUME NEW c \in Threads, NEW t \in Workers \X Ids, CancelRemote(c, t) \/ CancelDirect(c, t)
        PROVE  IndInv'
    BY Zenon, <2>5, FrameKeeps DEF CancelRemote, CancelDirect
  <2>6. ASSUME NEW w \in Workers, Worker(w) \/ TaskStep(w) PROVE IndInv'
    BY Zenon, <2>6, WorkerKeeps
  <2>7. CASE UNCHANGED vars
    BY Zenon, <2>7, FrameKeeps DEF vars
  <2> QED BY Zenon, <2>1, <2>2, <2>3, <2>4, <2>5, <2>6, <2>7 DEF Next
<1> QED BY <1>1, InitHolds, PTL DEF Spec

\* A task is never submitted to a worker that has left, or was told to leave, its
\* loop, although spawn_task() tests the flag only once, before it picks a worker.
THEOREM NoStaleSubmitHolds == Spec => []NoStaleSubmit
  BY Invariance, CallsAreSound, PTL

\* When the drop of the runtime, or a start() that failed midway, returns, no
\* worker thread but the dropping one itself is left.
THEOREM JoinedHolds == Spec => []JoinedBeforeReturn
<1>1. IndInv => JoinedBeforeReturn
  BY DEF IndInv, Shape, Phases, Joined, JoinedBeforeReturn, Workers
<1> QED BY <1>1, Invariance, PTL

-----------------------------------------------------------------------------
(***************************************************************************)
(* The handle table.  That it follows the tasks needs that an id is never  *)
(* used twice and waits in at most one command, and that the ids stay      *)
(* within the bound on submissions, which is a count.                      *)
(***************************************************************************)
\* The tasks submitted, and the calls of spawn_task() in progress.
Used == {t \in Workers \X Ids : task[t[1]][t[2]] # "none"}
Calls == {c \in Threads : call[c].pc # "idle"}

\* Every id below next_task_id was given to a task or to a call about to submit one.
Given == \A w \in Workers : \A id \in 1..(nextId[w] - 1) :
           \/ task[w][id] # "none"
           \/ \E c \in Threads : call[c].pc = "numbered" /\ call[c].at = w /\ call[c].id = id

\* An id is given out once.
Fresh == /\ \A c \in Threads : call[c].pc = "numbered" =>
              /\ call[c].id \in Ids /\ call[c].id < nextId[call[c].at]
              /\ task[call[c].at][call[c].id] = "none"
         /\ \A c, d \in Threads :
              (call[c].pc = "numbered" /\ call[d].pc = "numbered"
                 /\ call[c].at = call[d].at /\ call[c].id = call[d].id) => c = d
         /\ \A w \in Workers, id \in Ids : id >= nextId[w] => task[w][id] = "none"

\* The task waits for its worker to take its command; an async-std shim may
\* have been dropped meanwhile.
Waits(w, id) == task[w][id] = "queued" \/ (~Tokio /\ task[w][id] = "aborting")

\* It waits in the queue of its worker, once.
Spawns(w, i) == i \in 1..Len(queue[w]) /\ queue[w][i].op = "spawn"
QueuedAt(w) ==
  /\ thread[w] \in {"leaving", "ended"} => queue[w] = <<>>
  /\ \A i \in Nat : Spawns(w, i) => Waits(w, queue[w][i].id)
  /\ \A i, j \in Nat :
        (Spawns(w, i) /\ Spawns(w, j) /\ queue[w][i].id = queue[w][j].id) => i = j

\* The table of a tokio worker, and the completions on their way to it.
TableAt(w) ==
  Tokio => /\ \A id \in completions[w] : task[w][id] = "ended"
           /\ Running(w) \subseteq table[w]
           /\ table[w] \subseteq Running(w) \cup completions[w]
           /\ thread[w] \in {"leaving", "ended"} => table[w] = {}

\* The types that Shape leaves out.
DataOK ==
  /\ conf \in Config
  /\ holders \subseteq {AppClone} \cup (Workers \X Ids)
  /\ queue \in [Workers -> Seq(Command)]
  /\ table \in [Workers -> SUBSET Ids] /\ completions \in [Workers -> SUBSET Ids]
  /\ nextId \in [Workers -> 1..(MaxTasks + 1)]
  /\ task \in [Workers -> [Ids -> TaskStates]]
  /\ handles \subseteq Workers \X Ids /\ localHandle \subseteq Workers \X Ids
  /\ cancelled \subseteq Workers \X Ids /\ blocked \subseteq Threads \X (Workers \X Ids)
  /\ \A c \in Threads : call[c].id \in Ids \cup {0}

Bounded == Cardinality(Used) + Cardinality(Calls) <= MaxTasks

TableInv == /\ DataOK /\ Bounded /\ Given /\ Fresh
            /\ \A w \in Workers : QueuedAt(w) /\ TableAt(w)

\* The sets that are counted are finite.
LEMMA Countable ==
  /\ IsFiniteSet(Used) /\ Cardinality(Used) \in Nat
  /\ IsFiniteSet(Calls) /\ Cardinality(Calls) \in Nat
<1>1. IsFiniteSet(Workers) /\ IsFiniteSet(Ids)
  BY FS_Interval, WorkersAssumption, TasksAssumption DEF Workers, Ids
<1>2. IsFiniteSet(Workers \X Ids)
  BY Zenon, <1>1, FS_Product
<1>3. IsFiniteSet(Threads)
  BY Zenon, <1>1, FS_AddElement DEF Threads
<1>4. Used \in SUBSET (Workers \X Ids) /\ Calls \in SUBSET Threads
  BY Zenon DEF Used, Calls
<1>5. IsFiniteSet(Used) /\ IsFiniteSet(Calls)
  BY Zenon, <1>2, <1>3, <1>4, FS_Subset
<1> QED BY Zenon, <1>5, FS_CardinalityType

\* A call that is about to take an id finds one within the bound: every id
\* below it belongs to a task or to another call.
LEMMA IdInBound ==
  ASSUME IndInv, TableInv, NEW c \in Threads, call[c].pc = "picked"
  PROVE  nextId[call[c].at] \in Ids
<1> DEFINE w == call[c].at
           given == 1..(nextId[w] - 1)
           others == Calls \ {c}
           taken == {t[2] : t \in Used}
           carried == {call[d].id : d \in others}
<1>1. w \in Workers /\ nextId[w] \in 1..(MaxTasks + 1) /\ c \in Calls
  BY Zenon DEF IndInv, Shape, TableInv, DataOK, Calls
<1>2. given \subseteq taken \cup carried
  <2> SUFFICES ASSUME NEW id \in given, id \notin taken PROVE id \in carried
    BY Zenon
  <2>1. id \in Ids
    BY <1>1, TasksAssumption DEF Ids
  <2>2. task[w][id] = "none"
    <3>1. <<w, id>> \in Workers \X Ids /\ <<w, id>>[1] = w /\ <<w, id>>[2] = id
      BY Zenon, <1>1, <2>1
    <3>2. <<w, id>> \notin Used
      BY Zenon, <3>1
    <3> QED BY Zenon, <3>1, <3>2 DEF Used
  <2>3. PICK d \in Threads : call[d].pc = "numbered" /\ call[d].at = w /\ call[d].id = id
    BY <1>1, <2>2 DEF TableInv, Given
  <2>4. d \in others
    BY Zenon, <2>3 DEF Calls
  <2> QED BY Zenon, <2>3, <2>4
<1>3. IsFiniteSet(taken) /\ Cardinality(taken) <= Cardinality(Used)
  <2> DEFINE f == [t \in Used |-> t[2]]
  <2>1. f \in Surjection(Used, taken)
    BY Zenon DEF Surjection
  <2> QED BY Zenon, <2>1, Countable, FS_Surjection
<1>4. /\ IsFiniteSet(others) /\ Cardinality(others) = Cardinality(Calls) - 1
      /\ IsFiniteSet(carried) /\ Cardinality(carried) <= Cardinality(others)
  <2>1. IsFiniteSet(others) /\ Cardinality(others) = Cardinality(Calls) - 1
    BY Zenon, <1>1, Countable, FS_RemoveElement
  <2> DEFINE f == [d \in others |-> call[d].id]
  <2>2. f \in Surjection(others, carried)
    BY Zenon DEF Surjection
  <2> HIDE DEF others, carried
  <2>3. IsFiniteSet(carried) /\ Cardinality(carried) <= Cardinality(others)
    BY Zenon, <2>1, <2>2, FS_Surjection
  <2> QED BY Zenon, <2>1, <2>3
<1> HIDE DEF given, others, taken, carried
<1>5. /\ IsFiniteSet(taken \cup carried)
      /\ Cardinality(taken \cup carried) <= Cardinality(taken) + Cardinality(carried)
  <2>1. IsFiniteSet(taken \cap carried) /\ Cardinality(taken \cap carried) \in Nat
    <3>1. taken \cap carried \in SUBSET taken
      BY Zenon
    <3>2. IsFiniteSet(taken \cap carried)
      BY Zenon, <1>3, <3>1, FS_Subset
    <3> QED BY Zenon, <3>2, FS_CardinalityType
  <2>2. Cardinality(taken) \in Nat /\ Cardinality(carried) \in Nat
    BY Zenon, <1>3, <1>4, FS_CardinalityType
  <2>3. /\ IsFiniteSet(taken \cup carried)
        /\ Cardinality(taken \cup carried) =
             Cardinality(taken) + Cardinality(carried) - Cardinality(taken \cap carried)
    BY Zenon, <1>3, <1>4, FS_Union
  <2> QED BY <2>1, <2>2, <2>3
<1>6. Cardinality(given) <= Cardinality(taken \cup carried)
  <2>1. given \in SUBSET (taken \cup carried)
    BY Zenon, <1>2
  <2> QED BY Zenon, <1>5, <2>1, FS_Subset
<1>7. Cardinality(given) = nextId[w] - 1
  <2> DEFINE m == nextId[w] - 1
  <2>1. m \in Int /\ 1 \in Int /\ m >= 0
    BY <1>1, TasksAssumption
  <2> HIDE DEF m
  <2>2. Cardinality(1..m) = IF 1 > m THEN 0 ELSE m - 1 + 1
    BY Zenon, <2>1, FS_Interval
  <2>3. Cardinality(1..m) = m
    BY <2>1, <2>2
  <2> QED BY Zenon, <2>3 DEF m, given
<1>8. nextId[w] <= MaxTasks
  <2>1. Cardinality(taken) \in Nat /\ Cardinality(carried) \in Nat /\ Cardinality(taken \cup carried) \in Nat
    BY Zenon, <1>3, <1>4, <1>5, FS_CardinalityType
  <2>2. Cardinality(Used) + Cardinality(Calls) <= MaxTasks
    BY Zenon DEF TableInv, Bounded
  <2>3. nextId[w] \in Nat
    BY <1>1
  <2> HIDE DEF w
  <2> QED BY <1>3, <1>4, <1>5, <1>6, <1>7, <2>1, <2>2, <2>3, Countable, TasksAssumption
<1> QED BY <1>1, <1>8, TasksAssumption DEF Ids

\* A step that submits no task and touches no call keeps the ids.
LEMMA StatusKept ==
  ASSUME IndInv, TableInv, UNCHANGED <<nextId, call>>,
         \A w \in Workers, id \in Ids : task'[w][id] = "none" <=> task[w][id] = "none"
  PROVE  Bounded' /\ Given' /\ Fresh'
<1>1. Used' = Used
  BY Zenon DEF Used
<1>2. Calls' = Calls
  BY Zenon DEF Calls
<1>3. Bounded'
  BY Zenon, <1>1, <1>2 DEF TableInv, Bounded
<1>4. Given'
  <2>1. \A w \in Workers : \A id \in 1..(nextId[w] - 1) : id \in Ids
    <3> TAKE w \in Workers
    <3>1. nextId[w] \in 1..(MaxTasks + 1)
      BY Zenon DEF TableInv, DataOK
    <3> QED BY <3>1, TasksAssumption DEF Ids
  <2> QED BY <2>1 DEF TableInv, Given
<1>5. Fresh'
  <2>1. Fresh /\ \A c \in Threads : call[c].pc = "numbered" => call[c].at \in Workers
    BY Zenon DEF TableInv, IndInv, Shape
  <2> QED BY Zenon, <2>1 DEF Fresh
<1> QED BY Zenon, <1>3, <1>4, <1>5

\* One task changes its state.
LEMMA OneTask ==
  ASSUME task \in [Workers -> [Ids -> TaskStates]], NEW w \in Workers, NEW id \in Ids,
         NEW s \in TaskStates, task' = [task EXCEPT ![w][id] = s]
  PROVE  /\ task' \in [Workers -> [Ids -> TaskStates]]
         /\ task'[w][id] = s
         /\ \A v \in Workers, k \in Ids : (v # w \/ k # id) => task'[v][k] = task[v][k]
BY Zenon

\* The queue of w stays as it is.
LEMMA QueueStays ==
  ASSUME NEW w \in Workers, QueuedAt(w), queue \in [Workers -> Seq(Command)],
         conf' = conf, queue'[w] = queue[w],
         thread'[w] \in {"leaving", "ended"} => thread[w] \in {"leaving", "ended"},
         \A i \in Nat, id \in Ids : (Spawns(w, i) /\ queue[w][i].id = id) => Waits(w, id)'
  PROVE  QueuedAt(w)'
<1>1. ASSUME NEW i \in Nat PROVE Spawns(w, i)' <=> Spawns(w, i)
  BY Zenon DEF Spawns
<1>2. ASSUME NEW i \in Nat, Spawns(w, i)' PROVE Waits(w, queue[w][i].id)'
  <2>1. Spawns(w, i)
    BY Zenon, <1>1, <1>2
  <2>2. queue[w][i] \in Command
    BY <2>1 DEF Spawns
  <2>3. queue[w][i].id \in Ids
    BY Zenon, <2>2 DEF Command
  <2>4. PICK id \in Ids : id = queue[w][i].id
    BY Zenon, <2>3
  <2>5. Waits(w, id)'
    BY Zenon, <2>1, <2>4
  <2> QED BY Zenon, <2>4, <2>5 DEF Waits
<1> QED BY Zenon, <1>1, <1>2 DEF QueuedAt

\* The loop takes the first command of w.
LEMMA QueueTaken ==
  ASSUME NEW w \in Workers, QueuedAt(w), queue \in [Workers -> Seq(Command)],
         conf' = conf, queue[w] # <<>>, Taken(w), thread' = thread, thread[w] = "up",
         NEW h \in Command, h = Head(queue[w]),
         \A id \in Ids : (h.op = "cancel" \/ h.id # id) /\ Waits(w, id) => Waits(w, id)'
  PROVE  /\ queue' \in [Workers -> Seq(Command)] /\ QueuedAt(w)'
         /\ \A v \in Workers : v # w => queue'[v] = queue[v]
<1>1. /\ queue' = [queue EXCEPT ![w] = Tail(queue[w])]
      /\ queue[w] \in Seq(Command)
  BY Zenon DEF Taken
<1>2. /\ Tail(queue[w]) \in Seq(Command) /\ Len(Tail(queue[w])) = Len(queue[w]) - 1
      /\ \A i \in 1 .. Len(Tail(queue[w])) : Tail(queue[w])[i] = queue[w][i + 1]
  BY Zenon, <1>1, HeadTailProperties
<1>3. queue' \in [Workers -> Seq(Command)] /\ queue'[w] = Tail(queue[w])
  BY Zenon, <1>1, <1>2
<1>4. h = queue[w][1] /\ Len(queue[w]) \in Nat /\ Len(queue[w]) >= 1
  BY <1>1
<1>5. ASSUME NEW i \in Nat, Spawns(w, i)'
      PROVE  /\ Spawns(w, i + 1) /\ queue'[w][i] = queue[w][i + 1] /\ queue[w][i + 1] \in Command
             /\ h.op = "cancel" \/ h.id # queue[w][i + 1].id
  <2>1. i \in 1..Len(Tail(queue[w])) /\ queue'[w][i] = queue[w][i + 1]
    BY Zenon, <1>2, <1>3, <1>5 DEF Spawns
  <2>2. i + 1 \in 1..Len(queue[w]) /\ i + 1 # 1 /\ i + 1 \in Nat
    BY <1>2, <1>4, <2>1
  <2>3. Spawns(w, i + 1)
    BY Zenon, <1>5, <2>1, <2>2 DEF Spawns
  <2>4. queue[w][i + 1] \in Command
    BY <1>1, <2>2
  <2>5. h.op = "cancel" \/ h.id # queue[w][i + 1].id
    <3> SUFFICES ASSUME h.op = "spawn" PROVE h.id # queue[w][i + 1].id
      BY Zenon DEF Command
    <3>1. Spawns(w, 1)
      BY <1>4 DEF Spawns
    <3> QED BY Zenon, <1>4, <2>2, <2>3, <3>1 DEF QueuedAt
  <2> QED BY Zenon, <2>1, <2>3, <2>4, <2>5
<1>6. ASSUME NEW i \in Nat, Spawns(w, i)' PROVE Waits(w, queue[w][i].id)'
  <2>1. i + 1 \in Nat /\ queue[w][i + 1].id \in Ids
    BY <1>5, <1>6 DEF Command
  <2>2. Waits(w, queue[w][i + 1].id)
    BY Zenon, <1>5, <1>6, <2>1 DEF QueuedAt
  <2>3. PICK id \in Ids : id = queue[w][i + 1].id
    BY Zenon, <2>1
  <2>4. Waits(w, id)'
    BY Zenon, <1>5, <1>6, <2>2, <2>3
  <2> QED BY Zenon, <1>5, <1>6, <2>3, <2>4 DEF Waits
<1>7. ASSUME NEW i \in Nat, NEW j \in Nat, Spawns(w, i)', Spawns(w, j)', queue'[w][i].id = queue'[w][j].id
      PROVE  i = j
  <2>1. /\ Spawns(w, i + 1) /\ Spawns(w, j + 1) /\ i + 1 \in Nat /\ j + 1 \in Nat
        /\ queue[w][i + 1].id = queue[w][j + 1].id
    BY <1>5, <1>7
  <2>2. i + 1 = j + 1
    BY Zenon, <2>1 DEF QueuedAt
  <2> QED BY <2>2
<1>8. QueuedAt(w)'
  BY Zenon, <1>6, <1>7 DEF QueuedAt
<1> QED BY Zenon, <1>1, <1>3, <1>8

\* A command is sent to w.
LEMMA QueueSent ==
  ASSUME NEW w \in Workers, QueuedAt(w), queue \in [Workers -> Seq(Command)],
         conf' = conf, thread' = thread, thread[w] = "up",
         NEW cmd \in Command, queue' = [queue EXCEPT ![w] = Append(queue[w], cmd)],
         \A id \in Ids : Waits(w, id) => Waits(w, id)',
         \A id \in Ids : (cmd.op = "spawn" /\ cmd.id = id) => ~Waits(w, id) /\ Waits(w, id)'
  PROVE  /\ queue' \in [Workers -> Seq(Command)] /\ QueuedAt(w)'
         /\ \A v \in Workers : v # w => queue'[v] = queue[v]
<1>1. queue[w] \in Seq(Command) /\ Len(queue[w]) \in Nat
  OBVIOUS
<1> DEFINE n == Len(queue[w])
<1>2. /\ Append(queue[w], cmd) \in Seq(Command) /\ Len(Append(queue[w], cmd)) = n + 1
      /\ \A i \in 1 .. n : Append(queue[w], cmd)[i] = queue[w][i]
      /\ Append(queue[w], cmd)[n + 1] = cmd
  BY <1>1, AppendProperties
<1>3. queue' \in [Workers -> Seq(Command)] /\ queue'[w] = Append(queue[w], cmd)
  BY Zenon, <1>2
<1>4. ASSUME NEW i \in Nat, Spawns(w, i)'
      PROVE  \/ Spawns(w, i) /\ queue'[w][i] = queue[w][i] /\ queue[w][i].id \in Ids
             \/ i = n + 1 /\ queue'[w][i] = cmd /\ cmd.op = "spawn" /\ cmd.id \in Ids
  <2>1. i \in 1..(n + 1) /\ queue'[w][i].op = "spawn"
    BY Zenon, <1>2, <1>3, <1>4 DEF Spawns
  <2>2. CASE i = n + 1
    BY Zenon, <1>2, <1>3, <2>1, <2>2 DEF Command
  <2>3. CASE i # n + 1
    <3>1. i \in 1..n
      BY <1>1, <2>1, <2>3
    <3>2. queue[w][i] \in Command /\ queue'[w][i] = queue[w][i]
      BY <1>1, <1>2, <1>3, <3>1
    <3> QED BY Zenon, <2>1, <3>1, <3>2 DEF Spawns, Command
  <2> QED BY Zenon, <2>2, <2>3
<1>5. ASSUME NEW i \in Nat, Spawns(w, i)' PROVE Waits(w, queue[w][i].id)'
  <2>1. PICK id \in Ids : id = queue'[w][i].id
    BY Zenon, <1>4, <1>5
  <2>2. Waits(w, id)'
    <3>1. CASE Spawns(w, i) /\ queue'[w][i] = queue[w][i]
      BY Zenon, <2>1, <3>1 DEF QueuedAt
    <3>2. CASE queue'[w][i] = cmd /\ cmd.op = "spawn"
      BY Zenon, <2>1, <3>2
    <3> QED BY Zenon, <1>4, <1>5, <3>1, <3>2
  <2> QED BY Zenon, <2>1, <2>2 DEF Waits
<1>6. ASSUME NEW i \in Nat, Spawns(w, i), queue[w][i].id \in Ids, cmd.op = "spawn"
      PROVE  queue[w][i].id # cmd.id
  <2>1. Waits(w, queue[w][i].id)
    BY Zenon, <1>6 DEF QueuedAt
  <2> QED BY Zenon, <1>6, <2>1
<1>7. ASSUME NEW i \in Nat, NEW j \in Nat, Spawns(w, i)', Spawns(w, j)', queue'[w][i].id = queue'[w][j].id
      PROVE  i = j
  BY Zenon, <1>4, <1>6, <1>7 DEF QueuedAt
<1>8. QueuedAt(w)'
  BY Zenon, <1>5, <1>7 DEF QueuedAt
<1> QED BY Zenon, <1>3, <1>8

-----------------------------------------------------------------------------
\* No task, no id and no queue yet.
LEMMA TableInit == Init => TableInv
<1> SUFFICES ASSUME Init PROVE TableInv
  BY Zenon
<1>1. DataOK
  <2>1. /\ conf \in Config /\ holders \subseteq {AppClone} \cup (Workers \X Ids)
        /\ queue \in [Workers -> Seq(Command)]
        /\ table \in [Workers -> SUBSET Ids] /\ completions \in [Workers -> SUBSET Ids]
        /\ task \in [Workers -> [Ids -> TaskStates]]
        /\ handles \subseteq Workers \X Ids /\ localHandle \subseteq Workers \X Ids
        /\ cancelled \subseteq Workers \X Ids /\ blocked \subseteq Threads \X (Workers \X Ids)
    BY ConfigsAssumption DEF Init, TaskStates
  <2>2. nextId \in [Workers -> 1..(MaxTasks + 1)]
    BY TasksAssumption DEF Init
  <2>3. \A c \in Threads : call[c].id \in Ids \cup {0}
    BY Zenon DEF Init, Idle
  <2> QED BY Zenon, <2>1, <2>2, <2>3 DEF DataOK
<1>2. Bounded
  <2>1. Used = {} /\ Calls = {}
    BY Zenon DEF Init, Used, Calls, Idle
  <2>2. Cardinality({}) = 0
    BY Zenon, FS_EmptySet
  <2> QED BY <2>1, <2>2, TasksAssumption DEF Bounded
<1>3. Given /\ Fresh
  BY DEF Init, Given, Fresh, Idle
<1>4. \A w \in Workers : QueuedAt(w) /\ TableAt(w)
  BY DEF Init, QueuedAt, Spawns, TableAt, Running
<1> QED BY Zenon, <1>1, <1>2, <1>3, <1>4 DEF TableInv

\* A step that touches no task, queue, table or call of spawn_task().
LEMMA TableFrame ==
  ASSUME IndInv, TableInv,
         UNCHANGED <<conf, loopVars, nextId, call, task, handles, localHandle, cancelled>>,
         blocked' \subseteq blocked,
         holders' \subseteq {AppClone} \cup (Workers \X Ids),
         \A w \in Workers : thread'[w] \in {"leaving", "ended"} => thread[w] \in {"leaving", "ended"}
  PROVE  TableInv'
<1> USE DEF loopVars
<1>1. Bounded' /\ Given' /\ Fresh'
  BY Zenon, StatusKept
<1>2. DataOK'
  BY Zenon DEF TableInv, DataOK
<1>3. ASSUME NEW w \in Workers PROVE QueuedAt(w)'
  <2>1. QueuedAt(w)
    BY Zenon DEF TableInv
  <2> QED BY Zenon, <2>1 DEF QueuedAt, Spawns, Waits, Tokio
<1>4. ASSUME NEW w \in Workers PROVE TableAt(w)'
  <2>1. TableAt(w)
    BY Zenon DEF TableInv
  <2> QED BY Zenon, <2>1 DEF TableAt, Running, Tokio
<1> QED BY Zenon, <1>1, <1>2, <1>3, <1>4 DEF TableInv

\* start(), the clones and the drop of the runtime.
LEMMA TableRuntimeKeeps ==
  ASSUME IndInv, TableInv, StartWorker \/ StartFails \/ StartDone \/ AppReleases \/ DropRuntime
  PROVE  TableInv'
<1>1. UNCHANGED <<conf, loopVars, nextId, call, task, handleVars>>
  BY Zenon DEF StartWorker, StartFails, StartDone, AppReleases, DropRuntime, DropSignal, DropJoin, DropDone,
         spawnVars
<1>2. holders' \subseteq {AppClone} \cup (Workers \X Ids)
  BY Zenon DEF StartWorker, StartFails, StartDone, AppReleases, DropRuntime, DropSignal, DropJoin, DropDone,
         Release, TableInv, DataOK
<1>3. \A w \in Workers : thread'[w] \in {"leaving", "ended"} => thread[w] \in {"leaving", "ended"}
  <2>1. CASE StartWorker
    BY Zenon, <2>1 DEF StartWorker, IndInv, Shape
  <2>2. CASE StartFails \/ StartDone \/ AppReleases \/ DropRuntime
    BY Zenon, <2>2 DEF StartFails, StartDone, AppReleases, DropRuntime, DropSignal, DropJoin, DropDone
  <2> QED BY Zenon, <2>1, <2>2
<1> QED BY Zenon, <1>1, <1>2, <1>3, TableFrame DEF handleVars

\* spawn_task() begins: there is room for one more.
LEMMA TablePickKeeps ==
  ASSUME IndInv, TableInv, NEW c \in Threads, SpawnPick(c)
  PROVE  TableInv'
<1>1. /\ UNCHANGED <<conf, holders, thread, loopVars, nextId, task, handleVars>>
      /\ call[c].pc = "idle" /\ Room
  BY Zenon DEF SpawnPick, Executes, Runs, Free
<1>2. /\ \A d \in Threads : d # c => call'[d] = call[d]
      /\ call'[c].pc = "picked" /\ call'[c].id = 0
  BY Zenon DEF SpawnPick, IndInv, Shape
<1>3. Used' = Used
  BY Zenon, <1>1 DEF Used
<1>4. Calls' = Calls \cup {c} /\ c \notin Calls
  BY Zenon, <1>1, <1>2 DEF Calls
<1>5. Bounded'
  <2>1. Cardinality(Calls') = Cardinality(Calls) + 1
    BY Zenon, <1>4, Countable, FS_AddElement
  <2>2. Cardinality(Used) + Cardinality(Calls) < MaxTasks
    BY Zenon, <1>1 DEF Room, Used, Calls
  <2> QED BY <1>3, <2>1, <2>2, Countable, TasksAssumption DEF Bounded
<1>6. Given'
  <2>1. Given
    BY Zenon DEF TableInv
  <2> QED BY <1>1, <1>2, <2>1 DEF Given
<1>7. Fresh'
  <2>1. Fresh
    BY Zenon DEF TableInv
  <2> QED BY <1>1, <1>2, <2>1 DEF Fresh
<1>8. DataOK'
  BY Zenon, <1>1, <1>2 DEF TableInv, DataOK, loopVars, handleVars
<1>9. ASSUME NEW w \in Workers PROVE QueuedAt(w)' /\ TableAt(w)'
  <2>1. QueuedAt(w) /\ TableAt(w)
    BY Zenon DEF TableInv
  <2> QED BY Zenon, <1>1, <2>1 DEF QueuedAt, Spawns, Waits, TableAt, Running, Tokio, loopVars
<1> QED BY Zenon, <1>5, <1>6, <1>7, <1>8, <1>9 DEF TableInv

\* It takes an id that nobody has.
LEMMA TableNumberKeeps ==
  ASSUME IndInv, TableInv, NEW c \in Threads, SpawnNumber(c)
  PROVE  TableInv'
<1> DEFINE w == call[c].at
           n == nextId[w]
<1>1. /\ UNCHANGED <<conf, holders, thread, loopVars, task, handleVars>>
      /\ call[c].pc = "picked" /\ w \in Workers
      /\ call' = [call EXCEPT ![c].pc = "numbered", ![c].id = n]
      /\ nextId' = [nextId EXCEPT ![w] = n + 1]
  BY Zenon DEF SpawnNumber, IndInv, Shape
<1>2. n \in Ids /\ n \in Nat /\ n + 1 \in 1..(MaxTasks + 1)
  <2>1. n \in Ids
    BY Zenon, <1>1, IdInBound
  <2> HIDE DEF n
  <2> QED BY <2>1, TasksAssumption DEF Ids
<1>3. /\ \A d \in Threads : d # c => call'[d] = call[d]
      /\ call'[c].pc = "numbered" /\ call'[c].id = n /\ call'[c].at = w
  BY Zenon, <1>1 DEF IndInv, Shape
<1>4. /\ nextId' \in [Workers -> 1..(MaxTasks + 1)] /\ nextId'[w] = n + 1
      /\ \A v \in Workers : v # w => nextId'[v] = nextId[v]
  BY Zenon, <1>1, <1>2 DEF TableInv, DataOK
<1> HIDE DEF n, w
<1>5. Used' = Used /\ Calls' = Calls
  BY Zenon, <1>1, <1>3 DEF Used, Calls
<1>6. Bounded'
  BY Zenon, <1>5 DEF TableInv, Bounded
<1>7. Given'
  <2>0. task' = task
    BY Zenon, <1>1
  <2> SUFFICES ASSUME NEW v \in Workers, NEW id \in 1..(nextId'[v] - 1), task[v][id] = "none"
               PROVE  \E d \in Threads : call'[d].pc = "numbered" /\ call'[d].at = v /\ call'[d].id = id
    BY <2>0 DEF Given
  <2>1. CASE v = w /\ id = n
    BY Zenon, <1>3, <2>1
  <2>2. CASE ~(v = w /\ id = n)
    <3>1. id \in 1..(nextId[v] - 1)
      <4>1. nextId[v] \in Nat /\ nextId'[v] \in Nat /\ id \in Nat
        BY <1>4 DEF TableInv, DataOK
      <4>2. CASE v = w
        BY <1>2, <1>4, <2>2, <4>1, <4>2 DEF n
      <4>3. CASE v # w
        BY Zenon, <1>4, <4>3
      <4> QED BY Zenon, <4>2, <4>3
    <3>2. PICK d \in Threads : call[d].pc = "numbered" /\ call[d].at = v /\ call[d].id = id
      BY <3>1 DEF TableInv, Given
    <3>3. d # c
      BY Zenon, <1>1, <3>2
    <3> QED BY Zenon, <1>3, <3>2, <3>3
  <2> QED BY Zenon, <2>1, <2>2
<1>8. Fresh'
  <2>0. Fresh /\ nextId[w] = n /\ n >= nextId[w]
    BY <1>2 DEF TableInv, n
  <2>1. task[w][n] = "none"
    BY Zenon, <1>1, <1>2, <2>0 DEF Fresh
  <2>2. ASSUME NEW d \in Threads, call[d].pc = "numbered"
        PROVE  /\ call[d].id \in Ids /\ call[d].id < nextId'[call[d].at] /\ d # c
               /\ task[call[d].at][call[d].id] = "none"
               /\ ~(call[d].at = w /\ call[d].id = n)
    <3>1. /\ call[d].id \in Ids /\ call[d].id < nextId[call[d].at] /\ d # c
          /\ task[call[d].at][call[d].id] = "none" /\ call[d].at \in Workers
      BY Zenon, <1>1, <2>0, <2>2 DEF Fresh, IndInv, Shape
    <3>2. call[d].id \in Nat /\ nextId[call[d].at] \in Nat
      BY <3>1 DEF Ids, TableInv, DataOK
    <3>3. call[d].id < nextId'[call[d].at]
      <4>1. CASE call[d].at = w
        BY <1>2, <1>4, <2>0, <3>1, <3>2, <4>1
      <4>2. CASE call[d].at # w
        BY Zenon, <1>4, <3>1, <4>2
      <4> QED BY Zenon, <4>1, <4>2
    <3>4. ~(call[d].at = w /\ call[d].id = n)
      BY <1>2, <2>0, <3>1, <3>2
    <3> QED BY Zenon, <3>1, <3>3, <3>4
  <2>3. \A d \in Threads : call'[d].pc = "numbered" =>
              /\ call'[d].id \in Ids /\ call'[d].id < nextId'[call'[d].at]
              /\ task'[call'[d].at][call'[d].id] = "none"
    <3>1. n < nextId'[w]
      BY <1>2, <1>4
    <3> QED BY Zenon, <1>1, <1>2, <1>3, <2>1, <2>2, <3>1
  <2>4. \A d, e \in Threads :
              (call'[d].pc = "numbered" /\ call'[e].pc = "numbered"
                 /\ call'[d].at = call'[e].at /\ call'[d].id = call'[e].id) => d = e
    BY <1>3, <2>0, <2>2 DEF Fresh
  <2>5. \A v \in Workers, id \in Ids : id >= nextId'[v] => task'[v][id] = "none"
    <3> SUFFICES ASSUME NEW v \in Workers, NEW id \in Ids, id >= nextId'[v] PROVE id >= nextId[v]
      BY Zenon, <1>1, <2>0 DEF Fresh
    <3>1. id \in Nat /\ nextId[v] \in Nat
      BY DEF Ids, TableInv, DataOK
    <3> QED BY <1>2, <1>4, <2>0, <3>1
  <2> QED BY Zenon, <2>3, <2>4, <2>5 DEF Fresh
<1>9. DataOK'
  BY Zenon, <1>1, <1>2, <1>3, <1>4 DEF TableInv, DataOK, loopVars, handleVars
<1>10. ASSUME NEW v \in Workers PROVE QueuedAt(v)' /\ TableAt(v)'
  <2>1. QueuedAt(v) /\ TableAt(v)
    BY Zenon DEF TableInv
  <2> QED BY Zenon, <1>1, <2>1 DEF QueuedAt, Spawns, Waits, TableAt, Running, Tokio, loopVars
<1> QED BY Zenon, <1>6, <1>7, <1>8, <1>9, <1>10 DEF TableInv

\* The command is sent: the id becomes a task, which waits in the queue of its
\* worker or, on an async-std worker's own thread, runs.
LEMMA TableSendKeeps ==
  ASSUME IndInv, TableInv, NEW c \in Threads, SpawnSend(c),
         NEW w \in Workers, w = call[c].at, NEW id \in Ids, id = call[c].id
  PROVE  TableInv'
<1> DEFINE local == ~Tokio /\ c = w
           cmd == [op |-> "spawn", id |-> id]
           s == IF local THEN "running" ELSE "queued"
<1>1. /\ call[c].pc = "numbered" /\ w \in Workers /\ id \in Ids
      /\ id < nextId[w] /\ task[w][id] = "none"
  BY Zenon DEF SpawnSend, IndInv, Shape, TableInv, Fresh
<1>2. thread[w] = "up"
  BY Zenon, <1>1, CallsAreSound DEF NoStaleSubmit
<1>3. /\ task' = [task EXCEPT ![w][id] = s]
      /\ queue' = IF local THEN queue ELSE [queue EXCEPT ![w] = Append(queue[w], cmd)]
      /\ handles' = handles \cup {<<w, id>>}
      /\ localHandle' \subseteq localHandle \cup {<<w, id>>}
      /\ holders' \subseteq holders \cup {<<w, id>>}
      /\ call' = [call EXCEPT ![c] = Idle]
      /\ UNCHANGED <<conf, thread, table, completions, nextId, cancelled, blocked>>
  BY Zenon, <1>2 DEF SpawnSend
<1>4. /\ \A d \in Threads : d # c => call'[d] = call[d]
      /\ call'[c].pc = "idle" /\ call'[c].id = 0
  BY Zenon, <1>3 DEF IndInv, Shape, Idle
<1>t. task \in [Workers -> [Ids -> TaskStates]] /\ s \in TaskStates
  BY Zenon DEF TableInv, DataOK, TaskStates
<1>5. /\ task' \in [Workers -> [Ids -> TaskStates]]
      /\ task'[w][id] = s
      /\ \A v \in Workers, k \in Ids : (v # w \/ k # id) => task'[v][k] = task[v][k]
  <2>1. task' = [task EXCEPT ![w][id] = s]
    BY Zenon, <1>3
  <2> HIDE DEF s
  <2> QED BY SMTT(30), <1>t, <2>1, OneTask
<1>s. s # "none" /\ s \in {"queued", "running"} /\ (Tokio => s = "queued") /\ (~local => s = "queued")
  BY Zenon
<1>c. cmd \in Command /\ cmd.op = "spawn" /\ cmd.id = id
  BY Zenon, <1>1 DEF Command
<1> HIDE DEF s, cmd, local
<1>6. Bounded'
  <2>1. Used' = Used \cup {<<w, id>>}
    <3>1. <<w, id>> \in Workers \X Ids
      BY Zenon, <1>1
    <3> QED BY <1>1, <1>5, <1>s, <3>1 DEF Used
  <2>2. Calls' = Calls \ {c} /\ c \in Calls
    BY Zenon, <1>1, <1>4 DEF Calls
  <2>3. Cardinality(Used') <= Cardinality(Used) + 1 /\ Cardinality(Used') \in Nat
    <3>1. /\ IsFiniteSet(Used \cup {<<w, id>>})
          /\ Cardinality(Used \cup {<<w, id>>}) = IF <<w, id>> \in Used THEN Cardinality(Used) ELSE Cardinality(Used) + 1
      BY Zenon, Countable, FS_AddElement
    <3> QED BY <2>1, <3>1, Countable
  <2>4. Cardinality(Calls') = Cardinality(Calls) - 1
    BY Zenon, <2>2, Countable, FS_RemoveElement
  <2>5. Cardinality(Used) + Cardinality(Calls) <= MaxTasks
    BY Zenon DEF TableInv, Bounded
  <2> QED BY <2>3, <2>4, <2>5, Countable, TasksAssumption DEF Bounded
<1>7. Given'
  <2> SUFFICES ASSUME NEW v \in Workers, NEW k \in 1..(nextId[v] - 1), task'[v][k] = "none"
               PROVE  \E d \in Threads : call'[d].pc = "numbered" /\ call'[d].at = v /\ call'[d].id = k
    BY <1>3 DEF Given
  <2>0. k \in Ids
    <3>1. nextId[v] \in 1..(MaxTasks + 1)
      BY Zenon DEF TableInv, DataOK
    <3> QED BY <3>1, TasksAssumption DEF Ids
  <2>1. (v # w \/ k # id) /\ task[v][k] = "none"
    BY Zenon, <1>5, <1>s, <2>0
  <2>2. PICK d \in Threads : call[d].pc = "numbered" /\ call[d].at = v /\ call[d].id = k
    BY <2>1 DEF TableInv, Given
  <2>3. d # c
    BY Zenon, <2>1, <2>2
  <2> QED BY Zenon, <1>4, <2>2, <2>3
<1>8. Fresh'
  <2>0. Fresh
    BY Zenon DEF TableInv
  <2>1. ASSUME NEW d \in Threads, call'[d].pc = "numbered"
        PROVE  /\ call'[d] = call[d] /\ call[d].id \in Ids /\ call[d].id < nextId'[call[d].at]
               /\ task'[call[d].at][call[d].id] = "none"
    <3>1. d # c /\ call'[d] = call[d] /\ call[d].pc = "numbered"
      BY Zenon, <1>4, <2>1
    <3>2. /\ call[d].id \in Ids /\ call[d].id < nextId[call[d].at] /\ call[d].at \in Workers
          /\ task[call[d].at][call[d].id] = "none"
      BY Zenon, <2>0, <3>1 DEF Fresh, IndInv, Shape
    <3>3. call[d].at # w \/ call[d].id # id
      BY Zenon, <1>1, <2>0, <3>1 DEF Fresh
    <3> QED BY Zenon, <1>3, <1>5, <3>1, <3>2, <3>3
  <2>2. \A v \in Workers, k \in Ids : k >= nextId'[v] => task'[v][k] = "none"
    <3> SUFFICES ASSUME NEW v \in Workers, NEW k \in Ids, k >= nextId[v] PROVE task'[v][k] = "none"
      BY Zenon, <1>3
    <3>1. task[v][k] = "none"
      BY Zenon, <2>0 DEF Fresh
    <3>2. nextId[v] \in Nat /\ k \in Nat /\ id \in Nat
      BY <1>1 DEF Ids, TableInv, DataOK
    <3>3. v # w \/ k # id
      BY <1>1, <3>2
    <3> QED BY Zenon, <1>5, <3>1, <3>3
  <2> QED BY <2>0, <2>1, <2>2 DEF Fresh
<1>9. ASSUME NEW v \in Workers
      PROVE  QueuedAt(v)' /\ queue' \in [Workers -> Seq(Command)]
  <2>0. QueuedAt(v) /\ QueuedAt(w) /\ queue \in [Workers -> Seq(Command)]
    BY Zenon, <1>1 DEF TableInv, DataOK
  <2>1. \A u \in Workers, k \in Ids : Waits(u, k) => Waits(u, k)'
    BY Zenon, <1>1, <1>3, <1>5 DEF Waits, Tokio
  <2>2. CASE local \/ v # w
    <3>1. queue'[v] = queue[v] /\ queue' \in [Workers -> Seq(Command)]
      <4>1. CASE local
        BY Zenon, <1>3, <2>0, <4>1
      <4>2. CASE ~local /\ v # w
        <5>1. Append(queue[w], cmd) \in Seq(Command)
          BY Zenon, <1>1, <1>c, <2>0, AppendProperties
        <5> QED BY Zenon, <1>3, <2>0, <4>2, <5>1
      <4> QED BY Zenon, <2>2, <4>1, <4>2
    <3>2. \A i \in Nat, k \in Ids : (Spawns(v, i) /\ queue[v][i].id = k) => Waits(v, k)'
      BY Zenon, <2>0, <2>1 DEF QueuedAt
    <3>3. QueuedAt(v)'
      BY Zenon, <1>3, <2>0, <3>1, <3>2, QueueStays
    <3> QED BY Zenon, <3>1, <3>3
  <2>3. CASE ~local /\ v = w
    <3>1. ~Waits(w, id) /\ Waits(w, id)'
      BY Zenon, <1>1, <1>5, <1>s, <2>3 DEF Waits
    <3>2. QueuedAt(w)' /\ queue' \in [Workers -> Seq(Command)]
      <4>1. \A k \in Ids : (cmd.op = "spawn" /\ cmd.id = k) => ~Waits(w, k) /\ Waits(w, k)'
        BY Zenon, <1>c, <3>1
      <4>2. queue' = [queue EXCEPT ![w] = Append(queue[w], cmd)]
        BY Zenon, <1>3, <2>3
      <4>3. \A k \in Ids : Waits(w, k) => Waits(w, k)'
        BY Zenon, <1>1, <2>1
      <4> QED BY Zenon, <1>1, <1>2, <1>3, <1>c, <2>0, <4>1, <4>2, <4>3, QueueSent
    <3> QED BY Zenon, <2>3, <3>2
  <2> QED BY Zenon, <2>2, <2>3
<1>10. ASSUME NEW v \in Workers PROVE TableAt(v)'
  <2>1. TableAt(v) /\ completions[v] \subseteq Ids
    BY Zenon DEF TableInv, DataOK
  <2>2. CASE Tokio
    <3>1. Running(v)' = Running(v)
      BY Zenon, <1>1, <1>5, <1>s, <2>2 DEF Running
    <3>2. \A k \in completions[v] : task'[v][k] = "ended"
      BY Zenon, <1>1, <1>5, <2>1, <2>2 DEF TableAt
    <3> QED BY Zenon, <1>3, <2>1, <2>2, <3>1, <3>2 DEF TableAt
  <2>3. CASE ~Tokio
    BY Zenon, <1>3, <2>3 DEF TableAt, Tokio
  <2> QED BY Zenon, <2>2, <2>3
<1>11. DataOK'
  <2>1. \E v \in Workers : TRUE
    BY Zenon, <1>1
  <2>2. queue' \in [Workers -> Seq(Command)]
    BY Zenon, <1>9, <2>1
  <2>3. <<w, id>> \in Workers \X Ids
    BY Zenon, <1>1
  <2>4. \A d \in Threads : call'[d].id \in Ids \cup {0}
    BY Zenon, <1>4 DEF TableInv, DataOK
  <2> QED BY Zenon, <1>3, <1>5, <2>2, <2>3, <2>4 DEF TableInv, DataOK
<1> QED BY Zenon, <1>6, <1>7, <1>8, <1>9, <1>10, <1>11 DEF TableInv

\* TaskHandle::cancel() of tokio sends a command and nothing else.
LEMMA TableCancelRemoteKeeps ==
  ASSUME IndInv, TableInv, NEW c \in Threads, NEW t \in Workers \X Ids, CancelRemote(c, t)
  PROVE  TableInv'
<1> DEFINE w == t[1]
           cmd == [op |-> "cancel", id |-> t[2]]
<1>1. /\ UNCHANGED <<conf, holders, thread, table, completions, nextId, call, task, localHandle, blocked>>
      /\ queue' = IF thread[w] = "up" THEN [queue EXCEPT ![w] = Append(queue[w], cmd)] ELSE queue
      /\ handles' \subseteq handles /\ cancelled' = cancelled \cup {t}
      /\ w \in Workers
  BY Zenon DEF CancelRemote, spawnVars
<1>c. cmd \in Command /\ cmd.op = "cancel"
  BY Zenon DEF Command
<1> HIDE DEF w, cmd
<1>2. Bounded' /\ Given' /\ Fresh'
  BY Zenon, <1>1, StatusKept
<1>3. \A v \in Workers, k \in Ids : Waits(v, k) => Waits(v, k)'
  BY Zenon, <1>1 DEF Waits, Tokio
<1>4. queue' \in [Workers -> Seq(Command)] /\ \A v \in Workers : QueuedAt(v)'
  <2>0. queue \in [Workers -> Seq(Command)] /\ \A v \in Workers : QueuedAt(v)
    BY Zenon DEF TableInv, DataOK
  <2>1. ASSUME NEW v \in Workers, queue'[v] = queue[v] PROVE QueuedAt(v)'
    <3>1. \A i \in Nat, k \in Ids : (Spawns(v, i) /\ queue[v][i].id = k) => Waits(v, k)'
      BY Zenon, <1>3, <2>0 DEF QueuedAt
    <3> QED BY Zenon, <1>1, <2>0, <2>1, <3>1, QueueStays
  <2>2. CASE thread[w] = "up"
    <3>1. queue' = [queue EXCEPT ![w] = Append(queue[w], cmd)]
      BY Zenon, <1>1, <2>2
    <3>2. \A k \in Ids : Waits(w, k) => Waits(w, k)'
      BY Zenon, <1>1, <1>3 DEF w
    <3>3. \A k \in Ids : (cmd.op = "spawn" /\ cmd.id = k) => ~Waits(w, k) /\ Waits(w, k)'
      BY Zenon, <1>c
    <3>4. /\ queue' \in [Workers -> Seq(Command)] /\ QueuedAt(w)'
          /\ \A v \in Workers : v # w => queue'[v] = queue[v]
      BY Zenon, <1>1, <1>c, <2>0, <2>2, <3>1, <3>2, <3>3, QueueSent
    <3> QED BY Zenon, <2>1, <3>4
  <2>3. CASE thread[w] # "up"
    BY Zenon, <1>1, <2>0, <2>1, <2>3
  <2> QED BY Zenon, <2>2, <2>3
<1>5. ASSUME NEW v \in Workers PROVE TableAt(v)'
  <2>1. TableAt(v)
    BY Zenon DEF TableInv
  <2> QED BY Zenon, <1>1, <2>1 DEF TableAt, Running, Tokio
<1>6. DataOK'
  BY Zenon, <1>1, <1>4 DEF TableInv, DataOK
<1> QED BY Zenon, <1>2, <1>4, <1>5, <1>6 DEF TableInv

\* That of async-std drops a shim that has not run, or the task itself.
LEMMA TableCancelDirectKeeps ==
  ASSUME IndInv, TableInv, NEW c \in Threads, NEW w \in Workers, NEW id \in Ids,
         CancelDirect(c, <<w, id>>)
  PROVE  TableInv'
<1> DEFINE hit == task[w][id] = "queued" \/ (task[w][id] = "running" /\ <<w, id>> \in localHandle)
           s == IF hit THEN "aborting" ELSE task[w][id]
<1>1. /\ UNCHANGED <<conf, holders, thread, loopVars, nextId, call, localHandle>> /\ ~Tokio
      /\ handles' \subseteq handles /\ cancelled' = cancelled \cup {<<w, id>>}
      /\ blocked' \subseteq blocked \cup {<<c, <<w, id>>>>}
      /\ task' = [task EXCEPT ![w][id] = s]
  BY Zenon DEF CancelDirect, spawnVars
<1>2. task \in [Workers -> [Ids -> TaskStates]] /\ task[w][id] \in TaskStates /\ s \in TaskStates
  BY Zenon DEF TableInv, DataOK, TaskStates
<1>3. (s = "none" <=> task[w][id] = "none") /\ (task[w][id] \in {"queued", "aborting"} => s = "aborting")
  BY Zenon
<1> HIDE DEF s
<1>4. /\ task' \in [Workers -> [Ids -> TaskStates]]
      /\ task'[w][id] = s
      /\ \A v \in Workers, k \in Ids : (v # w \/ k # id) => task'[v][k] = task[v][k]
  BY <1>1, <1>2, OneTask
<1>5. Bounded' /\ Given' /\ Fresh'
  <2>1. \A v \in Workers, k \in Ids : task'[v][k] = "none" <=> task[v][k] = "none"
    BY Zenon, <1>3, <1>4
  <2> QED BY Zenon, <1>1, <2>1, StatusKept
<1>6. ASSUME NEW v \in Workers PROVE QueuedAt(v)' /\ TableAt(v)'
  <2>0. QueuedAt(v) /\ queue \in [Workers -> Seq(Command)]
    BY Zenon DEF TableInv, DataOK
  <2>1. \A k \in Ids : Waits(v, k) => Waits(v, k)'
    BY Zenon, <1>1, <1>3, <1>4 DEF Waits, Tokio
  <2>2. \A i \in Nat, k \in Ids : (Spawns(v, i) /\ queue[v][i].id = k) => Waits(v, k)'
    BY Zenon, <2>0, <2>1 DEF QueuedAt
  <2>3. QueuedAt(v)'
    BY Zenon, <1>1, <2>0, <2>2, QueueStays DEF loopVars
  <2>4. TableAt(v)'
    BY Zenon, <1>1 DEF TableAt, Tokio
  <2> QED BY Zenon, <2>3, <2>4
<1>7. DataOK'
  <2>1. <<w, id>> \in Workers \X Ids /\ <<c, <<w, id>>>> \in Threads \X (Workers \X Ids)
    BY Zenon
  <2> QED BY Zenon, <1>1, <1>4, <2>1 DEF TableInv, DataOK, loopVars
<1> QED BY Zenon, <1>5, <1>6, <1>7 DEF TableInv

\* The loop of a worker takes a command: it starts the task, or aborts it if it
\* is in the table; a shim that was dropped ends.
LEMMA TableCommandKeeps ==
  ASSUME IndInv, TableInv, NEW w \in Workers, LoopSpawn(w) \/ LoopCancel(w) \/ RunShim(w),
         NEW h \in Command, h = Head(queue[w])
  PROVE  TableInv'
<1>0. /\ queue \in [Workers -> Seq(Command)] /\ task \in [Workers -> [Ids -> TaskStates]]
      /\ table \in [Workers -> SUBSET Ids] /\ completions \in [Workers -> SUBSET Ids]
      /\ QueuedAt(w) /\ TableAt(w)
  BY Zenon DEF TableInv, DataOK
<1> DEFINE id == h.id
           s == CASE LoopSpawn(w) -> "running"
                  [] LoopCancel(w) -> IF id \in table[w] /\ task[w][id] = "running"
                                      THEN "aborting" ELSE task[w][id]
                  [] RunShim(w) -> IF task[w][id] = "aborting" THEN "ended" ELSE "running"
<1>1. /\ id \in Ids /\ queue[w] # <<>> /\ thread[w] = "up" /\ Taken(w)
      /\ UNCHANGED <<conf, thread, completions, nextId, call, handleVars>>
      /\ h.op = "cancel" \/ h.op = "spawn"
  BY Zenon DEF LoopSpawn, LoopCancel, RunShim, NextCommand, Runs, spawnVars, Command
<1>2. /\ LoopSpawn(w) => Tokio /\ h.op = "spawn" /\ ~LoopCancel(w) /\ ~RunShim(w)
      /\ LoopCancel(w) => Tokio /\ h.op = "cancel" /\ ~LoopSpawn(w) /\ ~RunShim(w)
      /\ RunShim(w) => ~Tokio /\ h.op = "spawn" /\ ~LoopSpawn(w) /\ ~LoopCancel(w)
  BY Zenon DEF LoopSpawn, LoopCancel, RunShim, NextCommand
<1>3. h.op = "spawn" => Waits(w, id)
  <2>1. /\ 1 \in 1..Len(queue[w]) /\ queue[w][1] = h
    BY <1>0, <1>1
  <2>2. h.op = "spawn" => Spawns(w, 1)
    BY Zenon, <2>1 DEF Spawns
  <2> QED BY Zenon, <1>0, <2>1, <2>2 DEF QueuedAt
<1>4. task' = [task EXCEPT ![w][id] = s] /\ holders' \subseteq holders
  <2>1. CASE LoopSpawn(w)
    BY Zenon, <1>2, <2>1 DEF LoopSpawn
  <2>2. CASE LoopCancel(w)
    BY Zenon, <1>2, <2>2 DEF LoopCancel
  <2>3. CASE RunShim(w)
    BY Zenon, <1>2, <2>3 DEF RunShim, Release
  <2> QED BY Zenon, <2>1, <2>2, <2>3
<1>5. /\ s \in TaskStates /\ (s = "none" <=> task[w][id] = "none")
      /\ LoopCancel(w) => (Waits(w, id) => s = task[w][id])
  BY Zenon, <1>0, <1>1, <1>2, <1>3 DEF TaskStates, Waits
<1>6. /\ LoopSpawn(w) => s = "running" /\ table' = [table EXCEPT ![w] = @ \cup {id}]
      /\ LoopCancel(w) => /\ s = IF id \in table[w] /\ task[w][id] = "running"
                                 THEN "aborting" ELSE task[w][id]
                          /\ table' = [table EXCEPT ![w] = @ \ {id}]
      /\ RunShim(w) => UNCHANGED table
  BY Zenon, <1>2 DEF LoopSpawn, LoopCancel, RunShim
<1> HIDE DEF s, id
<1>7. /\ task' \in [Workers -> [Ids -> TaskStates]]
      /\ task'[w][id] = s
      /\ \A v \in Workers, k \in Ids : (v # w \/ k # id) => task'[v][k] = task[v][k]
  BY <1>0, <1>1, <1>4, <1>5, OneTask
<1>8. Bounded' /\ Given' /\ Fresh'
  <2>1. \A v \in Workers, k \in Ids : task'[v][k] = "none" <=> task[v][k] = "none"
    BY Zenon, <1>5, <1>7
  <2> QED BY Zenon, <1>1, <2>1, StatusKept
<1>9. queue' \in [Workers -> Seq(Command)] /\ \A v \in Workers : QueuedAt(v)'
  <2>1. \A k \in Ids : (h.op = "cancel" \/ h.id # k) /\ Waits(w, k) => Waits(w, k)'
    <3> SUFFICES ASSUME NEW k \in Ids, h.op = "cancel" \/ id # k, Waits(w, k) PROVE Waits(w, k)'
      BY Zenon DEF id
    <3>1. task'[w][k] = task[w][k]
      <4>1. CASE k # id
        BY Zenon, <1>7, <4>1
      <4>2. CASE k = id
        <5>1. LoopCancel(w)
          BY Zenon, <1>2, <4>2
        <5> QED BY Zenon, <1>5, <1>7, <4>2, <5>1
      <4> QED BY Zenon, <4>1, <4>2
    <3> QED BY Zenon, <1>1, <3>1 DEF Waits, Tokio
  <2>2. /\ queue' \in [Workers -> Seq(Command)] /\ QueuedAt(w)'
        /\ \A v \in Workers : v # w => queue'[v] = queue[v]
    BY Zenon, <1>0, <1>1, <2>1, QueueTaken
  <2>3. ASSUME NEW v \in Workers, v # w PROVE QueuedAt(v)'
    <3>1. QueuedAt(v)
      BY Zenon DEF TableInv
    <3>2. \A k \in Ids : Waits(v, k) => Waits(v, k)'
      BY Zenon, <1>1, <1>7, <2>3 DEF Waits, Tokio
    <3>3. \A i \in Nat, k \in Ids : (Spawns(v, i) /\ queue[v][i].id = k) => Waits(v, k)'
      BY Zenon, <3>1, <3>2 DEF QueuedAt
    <3> QED BY Zenon, <1>0, <1>1, <2>2, <2>3, <3>1, <3>3, QueueStays
  <2> QED BY Zenon, <2>2, <2>3
<1>10. table' \in [Workers -> SUBSET Ids] /\ \A v \in Workers : v # w => table'[v] = table[v]
  BY ZenonT(30), <1>0, <1>1, <1>6
<1>11. ASSUME NEW v \in Workers PROVE TableAt(v)'
  <2>0. TableAt(v) /\ completions[v] \subseteq Ids /\ table[v] \subseteq Ids
    BY Zenon, <1>0 DEF TableInv
  <2>1. CASE ~Tokio
    BY Zenon, <1>1, <2>1 DEF TableAt, Tokio
  <2>2. CASE Tokio /\ v # w
    <3>1. Running(v)' = Running(v)
      BY Zenon, <1>7, <2>2 DEF Running
    <3> QED BY Zenon, <1>1, <1>7, <1>10, <2>0, <2>2, <3>1 DEF TableAt
  <2>3. CASE Tokio /\ v = w /\ LoopSpawn(w)
    <3>1. Running(w)' = Running(w) \cup {id} /\ table'[w] = table[w] \cup {id}
      BY <1>0, <1>1, <1>6, <1>7, <2>3 DEF Running
    <3>2. id \notin completions[w]
      BY Zenon, <1>2, <1>3, <2>0, <2>3 DEF TableAt, Waits
    <3>3. \A k \in completions[w] : task'[w][k] = "ended"
      BY Zenon, <1>7, <2>0, <2>3, <3>2 DEF TableAt
    <3> QED BY Zenon, <1>1, <2>0, <2>3, <3>1, <3>3 DEF TableAt
  <2>4. CASE Tokio /\ v = w /\ LoopCancel(w)
    <3>1. Running(w) \subseteq table[w] /\ table[w] \subseteq Running(w) \cup completions[w]
      BY Zenon, <2>0, <2>4 DEF TableAt
    <3>2. Running(w)' = Running(w) \ {id} /\ table'[w] = table[w] \ {id}
      BY Zenon, <1>0, <1>1, <1>6, <1>7, <2>4, <3>1 DEF Running
    <3>3. \A k \in completions[w] : task'[w][k] = "ended"
      BY Zenon, <1>6, <1>7, <2>0, <2>4 DEF TableAt
    <3> QED BY Zenon, <1>1, <2>4, <3>1, <3>2, <3>3 DEF TableAt
  <2> QED BY Zenon, <1>2, <2>1, <2>2, <2>3, <2>4
<1>12. DataOK'
  BY Zenon, <1>1, <1>4, <1>7, <1>9, <1>10 DEF TableInv, DataOK, handleVars
<1> QED BY Zenon, <1>8, <1>9, <1>11, <1>12 DEF TableInv

\* A completion is taken out of the table.
LEMMA TableCompleteKeeps ==
  ASSUME IndInv, TableInv, NEW w \in Workers, LoopComplete(w)
  PROVE  TableInv'
<1>1. PICK id \in completions[w] : /\ table' = [table EXCEPT ![w] = @ \ {id}]
                                   /\ completions' = [completions EXCEPT ![w] = @ \ {id}]
  BY Zenon DEF LoopComplete
<1>2. UNCHANGED <<conf, holders, thread, queue, nextId, call, task, handleVars>> /\ Tokio
  BY Zenon DEF LoopComplete, spawnVars
<1>3. /\ table \in [Workers -> SUBSET Ids] /\ completions \in [Workers -> SUBSET Ids]
      /\ TableAt(w)
  BY Zenon DEF TableInv, DataOK
<1>4. /\ table' \in [Workers -> SUBSET Ids] /\ completions' \in [Workers -> SUBSET Ids]
      /\ table'[w] = table[w] \ {id} /\ completions'[w] = completions[w] \ {id}
      /\ \A v \in Workers : v # w => table'[v] = table[v] /\ completions'[v] = completions[v]
  BY Zenon, <1>1, <1>3
<1>5. Bounded' /\ Given' /\ Fresh'
  BY Zenon, <1>2, StatusKept
<1>6. ASSUME NEW v \in Workers PROVE QueuedAt(v)'
  <2>1. QueuedAt(v)
    BY Zenon DEF TableInv
  <2> QED BY Zenon, <1>2, <2>1 DEF QueuedAt, Spawns, Waits, Tokio
<1>7. ASSUME NEW v \in Workers PROVE TableAt(v)'
  <2>1. TableAt(v)
    BY Zenon DEF TableInv
  <2>2. Running(v)' = Running(v)
    BY Zenon, <1>2 DEF Running
  <2>3. CASE v # w
    BY Zenon, <1>2, <1>4, <2>1, <2>2, <2>3 DEF TableAt, Tokio
  <2>4. CASE v = w
    <3>1. id \notin Running(w)
      BY Zenon, <1>2, <1>3 DEF TableAt, Running
    <3> QED BY Zenon, <1>2, <1>3, <1>4, <2>2, <2>4, <3>1 DEF TableAt, Tokio
  <2> QED BY Zenon, <2>3, <2>4
<1>8. DataOK'
  BY Zenon, <1>2, <1>4 DEF TableInv, DataOK, handleVars
<1> QED BY Zenon, <1>5, <1>6, <1>7, <1>8 DEF TableInv

\* A task returns, or an aborted one is dropped: its guard may report it.
LEMMA TableEndKeeps ==
  ASSUME IndInv, TableInv, NEW w \in Workers, NEW id \in Ids, TaskEnds(w, id) \/ TaskDropped(w, id)
  PROVE  TableInv'
<1>0. /\ task \in [Workers -> [Ids -> TaskStates]] /\ completions \in [Workers -> SUBSET Ids]
      /\ queue \in [Workers -> Seq(Command)]
  BY Zenon DEF TableInv, DataOK
<1>1. /\ task' = [task EXCEPT ![w][id] = "ended"] /\ holders' \subseteq holders
      /\ UNCHANGED <<conf, thread, queue, table, nextId, call, handleVars>>
      /\ task[w][id] \in {"running", "aborting"}
  BY Zenon DEF TaskEnds, TaskDropped, Release, spawnVars
<1>2. /\ completions' \in {completions, [completions EXCEPT ![w] = @ \cup {id}]}
      /\ (Tokio /\ task[w][id] = "running") => completions' = [completions EXCEPT ![w] = @ \cup {id}]
  BY Zenon DEF TaskEnds, TaskDropped
<1>3. /\ task' \in [Workers -> [Ids -> TaskStates]] /\ task'[w][id] = "ended"
      /\ \A v \in Workers, k \in Ids : (v # w \/ k # id) => task'[v][k] = task[v][k]
  BY Zenon, <1>0, <1>1, OneTask DEF TaskStates
<1>4. /\ completions' \in [Workers -> SUBSET Ids]
      /\ completions[w] \subseteq completions'[w] /\ completions'[w] \subseteq completions[w] \cup {id}
      /\ (Tokio /\ task[w][id] = "running") => id \in completions'[w]
      /\ \A v \in Workers : v # w => completions'[v] = completions[v]
  BY Zenon, <1>0, <1>2
<1>5. Bounded' /\ Given' /\ Fresh'
  <2>1. \A v \in Workers, k \in Ids : task'[v][k] = "none" <=> task[v][k] = "none"
    BY Zenon, <1>1, <1>3
  <2> QED BY Zenon, <1>1, <2>1, StatusKept
<1>6. ASSUME NEW i \in Nat, Spawns(w, i) PROVE queue[w][i].id # id
  <2>1. Waits(w, queue[w][i].id)
    BY Zenon, <1>6 DEF TableInv, QueuedAt
  <2>2. CASE TaskEnds(w, id)
    BY Zenon, <2>1, <2>2 DEF TaskEnds, Waits
  <2>3. CASE TaskDropped(w, id)
    <3>1. i \in 1..Len(queue[w]) /\ queue[w][i].op = "spawn"
      BY Zenon, <1>6 DEF Spawns
    <3>2. queue[w][i] \in Command
      BY <1>0, <3>1
    <3>3. queue[w][i].id = id => queue[w][i] = [op |-> "spawn", id |-> id]
      BY Zenon, <3>1, <3>2 DEF Command
    <3> QED BY Zenon, <2>3, <3>1, <3>3 DEF TaskDropped
  <2> QED BY Zenon, <2>2, <2>3
<1>7. ASSUME NEW v \in Workers PROVE QueuedAt(v)'
  <2>1. QueuedAt(v)
    BY Zenon DEF TableInv
  <2>2. ASSUME NEW i \in Nat, NEW k \in Ids, Spawns(v, i), queue[v][i].id = k PROVE Waits(v, k)'
    <3>1. Waits(v, k) /\ (v # w \/ k # id)
      BY Zenon, <1>6, <2>1, <2>2 DEF QueuedAt
    <3>2. task'[v][k] = task[v][k]
      BY Zenon, <1>3, <3>1
    <3> QED BY Zenon, <1>1, <3>1, <3>2 DEF Waits, Tokio
  <2> QED BY Zenon, <1>0, <1>1, <2>1, <2>2, QueueStays
<1>8. ASSUME NEW v \in Workers PROVE TableAt(v)'
  <2>1. TableAt(v) /\ completions[v] \subseteq Ids
    BY Zenon, <1>0 DEF TableInv
  <2>2. CASE ~Tokio
    BY Zenon, <1>1, <2>2 DEF TableAt, Tokio
  <2>3. CASE Tokio /\ v # w
    <3>1. Running(v)' = Running(v)
      BY Zenon, <1>3, <2>3 DEF Running
    <3> QED BY <1>1, <1>3, <1>4, <2>1, <2>3, <3>1 DEF TableAt
  <2>4. CASE Tokio /\ v = w
    <3>1. Running(w)' = Running(w) \ {id}
      BY Zenon, <1>3 DEF Running
    <3>2. \A k \in completions'[w] : task'[w][k] = "ended"
      BY Zenon, <1>3, <1>4, <2>1, <2>4 DEF TableAt
    <3>3. id \in Running(w) => id \in completions'[w]
      BY Zenon, <1>4, <2>4 DEF Running
    <3> QED BY <1>1, <1>4, <2>1, <2>4, <3>1, <3>2, <3>3 DEF TableAt
  <2> QED BY Zenon, <2>2, <2>3, <2>4
<1>9. DataOK'
  BY Zenon, <1>1, <1>3, <1>4 DEF TableInv, DataOK, handleVars
<1> QED BY Zenon, <1>5, <1>7, <1>8, <1>9 DEF TableInv

\* The loop leaves and aborts what is in the table; then the thread ends.
LEMMA TableLeaveKeeps ==
  ASSUME IndInv, TableInv, NEW w \in Workers, LoopShutdown(w) \/ ThreadEnds(w)
  PROVE  TableInv'
<1>0. /\ task \in [Workers -> [Ids -> TaskStates]] /\ completions \in [Workers -> SUBSET Ids]
      /\ table \in [Workers -> SUBSET Ids] /\ queue \in [Workers -> Seq(Command)]
      /\ thread \in [Workers -> {"none", "up", "leaving", "ended"}]
  BY Zenon DEF TableInv, DataOK, IndInv, Shape
<1>1. UNCHANGED <<conf, holders, completions, nextId, call, handleVars>>
  BY Zenon DEF LoopShutdown, ThreadEnds, loopVars, spawnVars
<1>2. /\ queue' \in [Workers -> Seq(Command)] /\ queue'[w] = <<>>
      /\ \A v \in Workers : v # w => queue'[v] = queue[v]
  <2>1. CASE LoopShutdown(w)
    BY <1>0, <2>1 DEF LoopShutdown
  <2>2. CASE ThreadEnds(w)
    BY Zenon, <1>0, <2>2 DEF ThreadEnds, loopVars, TableInv, QueuedAt
  <2> QED BY Zenon, <2>1, <2>2
<1>3. /\ task' \in [Workers -> [Ids -> TaskStates]]
      /\ \A k \in Ids : /\ task'[w][k] = "none" <=> task[w][k] = "none"
                        /\ task[w][k] = "ended" => task'[w][k] = "ended"
                        /\ task'[w][k] = "running" => task[w][k] = "running"
      /\ \A v \in Workers : v # w => task'[v] = task[v]
  <2>1. CASE LoopShutdown(w)
    <3> DEFINE f == [k \in Ids |-> CASE task[w][k] = "queued" -> "lost"
                                     [] k \in table[w] /\ task[w][k] = "running" -> "aborting"
                                     [] OTHER -> task[w][k]]
    <3>1. task' = [task EXCEPT ![w] = f]
      BY Zenon, <2>1 DEF LoopShutdown
    <3>2. f \in [Ids -> TaskStates]
      BY Zenon, <1>0 DEF TaskStates
    <3>3. \A k \in Ids : /\ f[k] = "none" <=> task[w][k] = "none"
                         /\ task[w][k] = "ended" => f[k] = "ended"
                         /\ f[k] = "running" => task[w][k] = "running"
      BY Zenon
    <3> HIDE DEF f
    <3> QED BY Zenon, <1>0, <3>1, <3>2, <3>3
  <2>2. CASE ThreadEnds(w)
    <3> DEFINE f == [k \in Ids |-> IF task[w][k] \in {"running", "aborting"} THEN "ended" ELSE task[w][k]]
    <3>1. task' = [task EXCEPT ![w] = f]
      BY Zenon, <2>2 DEF ThreadEnds
    <3>2. f \in [Ids -> TaskStates]
      BY Zenon, <1>0 DEF TaskStates
    <3>3. \A k \in Ids : /\ f[k] = "none" <=> task[w][k] = "none"
                         /\ task[w][k] = "ended" => f[k] = "ended"
                         /\ f[k] = "running" => task[w][k] = "running"
      BY Zenon
    <3> HIDE DEF f
    <3> QED BY Zenon, <1>0, <3>1, <3>2, <3>3
  <2> QED BY Zenon, <2>1, <2>2
<1>4. Bounded' /\ Given' /\ Fresh'
  <2>1. \A v \in Workers, k \in Ids : task'[v][k] = "none" <=> task[v][k] = "none"
    BY Zenon, <1>3
  <2> QED BY Zenon, <1>1, <2>1, StatusKept
<1>5. ASSUME NEW v \in Workers PROVE QueuedAt(v)'
  <2>1. QueuedAt(v)
    BY Zenon DEF TableInv
  <2>2. CASE v # w
    <3>1. thread'[v] = thread[v]
      BY Zenon, <1>0, <2>2 DEF LoopShutdown, ThreadEnds
    <3> QED BY ZenonT(30), <1>1, <1>2, <1>3, <2>1, <2>2, <3>1 DEF QueuedAt, Spawns, Waits, Tokio
  <2>3. CASE v = w
    BY <1>2, <2>3 DEF QueuedAt, Spawns
  <2> QED BY Zenon, <2>2, <2>3
<1>6. ASSUME NEW v \in Workers PROVE TableAt(v)'
  <2>1. TableAt(v) /\ completions[v] \subseteq Ids
    BY Zenon, <1>0 DEF TableInv
  <2>2. CASE v # w
    <3>1. table'[v] = table[v] /\ thread'[v] = thread[v]
      BY Zenon, <1>0, <2>2 DEF LoopShutdown, ThreadEnds, loopVars
    <3>2. Running(v)' = Running(v)
      BY Zenon, <1>3, <2>2 DEF Running
    <3> QED BY Zenon, <1>1, <1>3, <2>1, <2>2, <3>1, <3>2 DEF TableAt, Tokio
  <2>3. CASE ~Tokio
    BY Zenon, <1>1, <2>3 DEF TableAt, Tokio
  <2>4. CASE v = w /\ Tokio /\ LoopShutdown(w)
    <3>1. Running(w) \subseteq table[w]
      BY Zenon, <2>1, <2>4 DEF TableAt
    <3>2. Running(w)' = {} /\ table'[w] = {}
      BY Zenon, <1>0, <2>4, <3>1 DEF LoopShutdown, Running
    <3> QED BY Zenon, <1>1, <1>3, <2>1, <2>4, <3>2 DEF TableAt
  <2>5. CASE v = w /\ Tokio /\ ThreadEnds(w)
    <3>1. Running(w)' = {} /\ table' = table
      BY Zenon, <1>0, <2>5 DEF ThreadEnds, Running, loopVars
    <3>2. table[w] = {}
      BY Zenon, <2>1, <2>5 DEF ThreadEnds, TableAt
    <3> QED BY Zenon, <1>1, <1>3, <2>1, <2>5, <3>1, <3>2 DEF TableAt
  <2> QED BY Zenon, <2>2, <2>3, <2>4, <2>5
<1>7. DataOK'
  <2>1. table' \in [Workers -> SUBSET Ids]
    BY Zenon, <1>0 DEF LoopShutdown, ThreadEnds, loopVars
  <2> QED BY Zenon, <1>1, <1>2, <1>3, <2>1 DEF TableInv, DataOK, handleVars
<1> QED BY Zenon, <1>4, <1>5, <1>6, <1>7 DEF TableInv

\* The table and the ids in every state of WorkerRuntime.
THEOREM TableInvariance == Spec => []TableInv
<1>1. IndInv /\ TableInv /\ [Next]_vars => TableInv'
  <2> SUFFICES ASSUME IndInv, TableInv, [Next]_vars PROVE TableInv'
    BY Zenon
  <2>1. CASE StartWorker \/ StartFails \/ StartDone \/ AppReleases \/ DropRuntime
    BY Zenon, <2>1, TableRuntimeKeeps
  <2>2. ASSUME NEW c \in Threads, SpawnPick(c) \/ Call(c) PROVE TableInv'
    <3>1. CASE SpawnSend(c)
      <4>1. call[c].at \in Workers /\ call[c].id \in Ids
        BY Zenon, <3>1 DEF SpawnSend, IndInv, Shape, TableInv, Fresh
      <4>2. PICK w \in Workers, id \in Ids : w = call[c].at /\ id = call[c].id
        BY Zenon, <4>1
      <4> QED BY Zenon, <3>1, <4>2, TableSendKeeps
    <3>2. CASE CancelReturns(c)
      <4>1. /\ UNCHANGED <<conf, loopVars, nextId, call, task, handles, localHandle, cancelled, thread, holders>>
            /\ blocked' \subseteq blocked
        BY Zenon, <3>2 DEF CancelReturns, spawnVars
      <4>2. holders \subseteq {AppClone} \cup (Workers \X Ids)
        BY Zenon DEF TableInv, DataOK
      <4> QED BY Zenon, <4>1, <4>2, TableFrame
    <3> QED BY Zenon, <2>2, <3>1, <3>2, TablePickKeeps, TableNumberKeeps DEF Call
  <2>3. ASSUME NEW c \in Threads, NEW t \in Workers \X Ids, CancelRemote(c, t) \/ CancelDirect(c, t)
        PROVE  TableInv'
    <3>1. PICK w \in Workers, id \in Ids : t = <<w, id>>
      OBVIOUS
    <3> QED BY Zenon, <2>3, <3>1, TableCancelRemoteKeeps, TableCancelDirectKeeps
  <2>4. ASSUME NEW w \in Workers, Worker(w) \/ TaskStep(w) PROVE TableInv'
    <3>1. CASE LoopSpawn(w) \/ LoopCancel(w) \/ RunShim(w)
      <4>1. queue[w] \in Seq(Command) /\ queue[w] # <<>>
        BY Zenon, <3>1 DEF TableInv, DataOK, LoopSpawn, LoopCancel, RunShim, NextCommand
      <4>2. Head(queue[w]) \in Command
        BY <4>1
      <4>3. PICK h \in Command : h = Head(queue[w])
        BY Zenon, <4>2
      <4> QED BY Zenon, <3>1, <4>3, TableCommandKeeps
    <3>2. CASE LoopComplete(w)
      BY Zenon, <3>2, TableCompleteKeeps
    <3>3. CASE LoopShutdown(w) \/ ThreadEnds(w)
      BY Zenon, <3>3, TableLeaveKeeps
    <3>4. ASSUME NEW id \in Ids, TaskEnds(w, id) \/ TaskDropped(w, id) PROVE TableInv'
      BY Zenon, <3>4, TableEndKeeps
    <3>5. ASSUME NEW id \in Ids, TaskReleases(w, id) PROVE TableInv'
      <4>1. /\ UNCHANGED <<conf, loopVars, nextId, call, task, handleVars, thread>>
            /\ holders' \subseteq holders
        BY Zenon, <3>5 DEF TaskReleases, Release, spawnVars
      <4>2. holders \subseteq {AppClone} \cup (Workers \X Ids)
        BY Zenon DEF TableInv, DataOK
      <4> QED BY Zenon, <4>1, <4>2, TableFrame DEF handleVars
    <3> QED BY Zenon, <2>4, <3>1, <3>2, <3>3, <3>4, <3>5 DEF Worker, TaskStep
  <2>5. CASE UNCHANGED vars
    <3>1. UNCHANGED <<conf, loopVars, nextId, call, task, handleVars, thread, holders>>
      BY Zenon, <2>5 DEF vars, spawnVars
    <3>2. holders \subseteq {AppClone} \cup (Workers \X Ids)
      BY Zenon DEF TableInv, DataOK
    <3> QED BY Zenon, <3>1, <3>2, TableFrame DEF handleVars
  <2> QED BY Zenon, <2>1, <2>2, <2>3, <2>4, <2>5 DEF Next
<1> QED BY <1>1, TableInit, Invariance, PTL DEF Spec

\* The handle table of a tokio worker has every running task, and otherwise only
\* tasks whose completion is on its way, for any number of workers and tasks.
THEOREM TableTracksTasksHolds == Spec => []TableTracksTasks
<1>1. IndInv /\ TableInv => TableTracksTasks
  <2> SUFFICES ASSUME IndInv, TableInv PROVE TableTracksTasks
    BY Zenon
  <2>1. TypeOK
    <3>1. dropAt \in 0..NumWorkers
      BY WorkersAssumption DEF IndInv, Shape, Joined
    <3>2. call \in [Threads -> [pc : {"idle", "picked", "numbered"}, at : Workers, id : Ids \cup {0}]]
      <4>1. call \in [Threads -> [pc : {"idle", "picked", "numbered"}, at : Workers, id : Nat]]
        BY Zenon DEF IndInv, Shape
      <4>2. ASSUME NEW c \in Threads
            PROVE  call[c] \in [pc : {"idle", "picked", "numbered"}, at : Workers, id : Ids \cup {0}]
        BY Zenon, <4>1 DEF TableInv, DataOK
      <4> QED BY Zenon, <4>1, <4>2
    <3> QED BY Zenon, <3>1, <3>2 DEF TypeOK, IndInv, Shape, TableInv, DataOK
  <2> QED BY Zenon, <2>1 DEF TableTracksTasks, TableInv, TableAt
<1> QED BY <1>1, Invariance, TableInvariance, PTL
=============================================================================

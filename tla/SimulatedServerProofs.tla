------------------------ MODULE SimulatedServerProofs ------------------------
(***************************************************************************)
(* Safety of SimulatedServer for every number of workers, every limit and   *)
(* queue capacity: permits follow the work, a limited acceptor never waits  *)
(* for room, dispatchers outlive the acceptor, and handlers are started in  *)
(* the order in which their work arrived.                                   *)
(***************************************************************************)
EXTENDS SimulatedServer, TLAPS

\* What can be in the socket or in a queue.
Work == [kind : Kinds \ {"none"}, id : 0 .. conf.arrivals, to : Workers]

\* The permits owned by the work for w: in its queue, with its dispatcher, on
\* its way from the acceptor.
Queued(w) == Len(queue[w])
Carried(w) == IF held[w] # Nothing THEN 1 ELSE 0
Sent(w) == IF task[Acceptor] = "send" /\ held[Acceptor].to = w THEN 1 ELSE 0

\* Sockets and queues hold work; a task holds some in exactly two stages.
Contents == /\ inbox \in Seq(Work) /\ queue \in [Workers -> Seq(Work)]
            /\ held \in [Tasks -> Work \cup {Nothing}]
            /\ \A t \in Tasks : held[t] # Nothing <=> task[t] \in {"received", "send"}

Balance == conf.max > 0 => \A w \in Workers :
             /\ permits[w] = handlers[w] + Queued(w) + Carried(w) + Sent(w)
             /\ permits[w] <= conf.max

\* Nothing is cancelled before close(), nothing stopped before the drop.
Flags == /\ serverActive => closing = "no" /\ \A t \in Tasks : ~cancelled[t]
         /\ runtimeActive => stopped = {}

IndInv == TypeOK /\ Contents /\ Balance /\ Flags /\ DispatchersOutliveAcceptor

-----------------------------------------------------------------------------
\* The tasks are the workers' dispatchers and the acceptor.
LEMMA TaskSets ==
  /\ NumWorkers \in Nat \ {0}
  /\ Workers \subseteq Tasks /\ Acceptor \in Tasks /\ Acceptor \notin Workers /\ 0 \in Workers
  /\ \A t \in Tasks : t = Acceptor \/ t \in Workers
BY SimulatedAssumption DEF Workers, Tasks, Acceptor

\* What Init and TypeOK say about the configuration.
LEMMA Configured ==
  ASSUME conf \in Configs
  PROVE  conf.max \in Nat /\ conf.capacity \in Nat \ {0} /\ conf.arrivals \in Nat
BY Zenon, SimulatedAssumption DEF Config

\* So is the absence of one.
LEMMA NothingIsItem ==
  ASSUME conf \in Configs
  PROVE  Nothing \in Item
<1>1. 0 \in 0 .. conf.arrivals /\ 0 \in Workers /\ "none" \in Kinds
  BY Configured, TaskSets DEF Kinds
<1> QED BY Zenon, <1>1 DEF Nothing, Item

\* Work is an item and not Nothing.
LEMMA WorkIsItem ==
  ASSUME NEW i \in Work
  PROVE  i \in Item /\ i # Nothing /\ i.to \in Workers
<1>1. i.kind # "none" /\ Nothing.kind = "none"
  BY Zenon DEF Work, Nothing
<1>2. i \in Item
  BY Zenon DEF Work, Item
<1> QED BY Zenon, <1>1, <1>2 DEF Work

\* The three owners are counted by naturals.
LEMMA Counts ==
  ASSUME TypeOK, NEW w \in Workers
  PROVE  Queued(w) \in Nat /\ Carried(w) \in Nat /\ Sent(w) \in Nat
<1>1. queue[w] \in Seq(Item)
  BY Zenon DEF TypeOK
<1> QED BY <1>1 DEF Queued, Carried, Sent

\* Owned over all tasks is the sum.
LEMMA OwnedByAll ==
  ASSUME TypeOK, NEW w \in Workers
  PROVE  Owned(Tasks, w) = Queued(w) + Carried(w) + Sent(w)
BY Zenon, TaskSets, Counts DEF Owned, Queued, Carried, Sent

\* A dispatcher owns its queue and the item it holds.
LEMMA OwnedByDispatcher ==
  ASSUME TypeOK, NEW t \in Workers, NEW w \in Workers
  PROVE  Owned({t}, w) = IF t = w THEN Queued(w) + Carried(w) ELSE 0
<1>1. Acceptor # t
  BY Zenon, TaskSets
<1>2. Owned({t}, w) = (IF w = t THEN Queued(w) + Carried(w) ELSE 0) + 0
  BY Zenon, <1>1 DEF Owned, Queued, Carried
<1> QED BY <1>2, Counts

\* The acceptor owns what it is sending.
LEMMA OwnedByAcceptor ==
  ASSUME TypeOK, NEW w \in Workers
  PROVE  Owned({Acceptor}, w) = Sent(w)
<1>1. w # Acceptor
  BY Zenon, TaskSets
<1>2. Owned({Acceptor}, w) = 0 + Sent(w)
  BY Zenon, <1>1 DEF Owned, Sent
<1> QED BY <1>2, Counts

\* The end of a task, which a dispatcher may reach only when the server or the
\* runtime is stopped or the acceptor has ended.
LEMMA EndStep ==
  ASSUME IndInv, NEW t \in Tasks, End(t),
         t \in Workers => ~IsActive \/ task[Acceptor] = "ended",
         cancelled' \in [Tasks -> BOOLEAN], serverActive => \A u \in Tasks : ~cancelled'[u],
         registered' \in BOOLEAN,
         UNCHANGED <<serverActive, runtimeActive, closing, stopped, inbox, handlers, lastStarted,
                     conf, arrivals>>
  PROVE  IndInv'
<1> USE DEF IndInv
<1>0. conf.max \in Nat /\ conf' = conf
  BY Zenon, Configured DEF TypeOK
<1>1. /\ task' = [u \in Tasks |-> IF u = t THEN "ended" ELSE task[u]]
      /\ held' = [u \in Tasks |-> IF u = t THEN Nothing ELSE held[u]]
      /\ queue' = [w \in Workers |-> IF w = t THEN <<>> ELSE queue[w]]
      /\ permits' = [w \in Workers |-> IF conf.max > 0 THEN permits[w] - Owned({t}, w) ELSE permits[w]]
  BY Zenon DEF End, EndAll, Free
<1>2. Contents'
  <2>1. Work' = Work
    BY Zenon, <1>0 DEF Work
  <2>2. queue' \in [Workers -> Seq(Work)] /\ held' \in [Tasks -> Work \cup {Nothing}]
    BY <1>1 DEF Contents
  <2>3. \A u \in Tasks : held'[u] # Nothing <=> task'[u] \in {"received", "send"}
    BY Zenon, <1>1 DEF Contents
  <2> QED BY Zenon, <2>1, <2>2, <2>3 DEF Contents
<1>3. ASSUME NEW w \in Workers, conf.max > 0
      PROVE  /\ permits'[w] = handlers[w] + Queued(w)' + Carried(w)' + Sent(w)'
             /\ permits'[w] \in Nat /\ permits'[w] <= conf.max
  <2>1. /\ permits[w] = handlers[w] + Queued(w) + Carried(w) + Sent(w)
        /\ permits[w] <= conf.max /\ handlers[w] \in Nat
        /\ Queued(w) \in Nat /\ Carried(w) \in Nat /\ Sent(w) \in Nat
    BY SMTT(30), <1>3, Counts DEF Balance, TypeOK
  <2>2. permits'[w] = permits[w] - Owned({t}, w)
    BY Zenon, <1>1, <1>3
  <2>3. CASE t = Acceptor
    <3>1. Queued(w)' = Queued(w) /\ Carried(w)' = Carried(w) /\ Sent(w)' = 0
      BY Zenon, <1>1, <2>3, TaskSets DEF Queued, Carried, Sent
    <3>2. permits'[w] = permits[w] - Sent(w)
      BY Zenon, <2>2, <2>3, OwnedByAcceptor
    <3> QED BY <1>0, <2>1, <3>1, <3>2
  <2>4. CASE t \in Workers /\ t = w
    <3>1. Queued(w)' = 0 /\ Carried(w)' = 0 /\ Sent(w)' = Sent(w)
      BY Zenon, <1>1, <2>4, TaskSets DEF Queued, Carried, Sent
    <3>2. permits'[w] = permits[w] - (Queued(w) + Carried(w))
      BY Zenon, <2>2, <2>4, OwnedByDispatcher
    <3> QED BY <1>0, <2>1, <3>1, <3>2
  <2>5. CASE t \in Workers /\ t # w
    <3>1. Queued(w)' = Queued(w) /\ Carried(w)' = Carried(w) /\ Sent(w)' = Sent(w)
      BY Zenon, <1>1, <2>5, TaskSets DEF Queued, Carried, Sent
    <3>2. permits'[w] = permits[w] - 0
      BY Zenon, <2>2, <2>5, OwnedByDispatcher
    <3> QED BY <1>0, <2>1, <3>1, <3>2
  <2> QED BY Zenon, <2>3, <2>4, <2>5, TaskSets
<1>4. Balance'
  BY Zenon, <1>0, <1>3 DEF Balance
<1>5. TypeOK'
  <2>1. permits' \in [Workers -> Nat]
    BY Zenon, <1>1, <1>3 DEF TypeOK
  <2>2. Item' = Item /\ Nothing \in Item
    BY Zenon, <1>0, NothingIsItem DEF Item, TypeOK
  <2>3. held' \in [Tasks -> Item] /\ queue' \in [Workers -> Seq(Item)] /\ task' \in [Tasks -> Stages]
    BY <1>1, <2>2 DEF TypeOK, Stages
  <2> QED BY Zenon, <2>1, <2>2, <2>3 DEF TypeOK
<1>6. DispatchersOutliveAcceptor'
  BY Zenon, <1>1, TaskSets DEF DispatchersOutliveAcceptor, IsActive
<1> QED BY Zenon, <1>2, <1>4, <1>5, <1>6 DEF Flags

\* A task moves on with what it holds; nothing else changes.
LEMMA MoveStep ==
  ASSUME IndInv, NEW t \in Tasks, NEW s \in Stages \ {"ended"}, Goto(t, s), task[t] # "ended",
         task[t] \in {"received", "send"} <=> s \in {"received", "send"},
         t = Acceptor => (task[t] = "send" <=> s = "send"),
         registered' \in BOOLEAN,
         UNCHANGED <<serverActive, runtimeActive, closing, stopped, cancelled, held, inbox, queue,
                     permits, handlers, lastStarted, conf, arrivals>>
  PROVE  IndInv'
<1> USE DEF IndInv
<1>1. task' = [task EXCEPT ![t] = s] /\ task \in [Tasks -> Stages]
  BY Zenon DEF Goto, TypeOK
<1>2. TypeOK'
  BY Zenon, <1>1 DEF TypeOK, Item
<1>3. Contents'
  <2>1. Work' = Work
    BY Zenon DEF Work
  <2>2. \A u \in Tasks : held'[u] # Nothing <=> task'[u] \in {"received", "send"}
    BY Zenon, <1>1 DEF Contents
  <2> QED BY Zenon, <2>1, <2>2 DEF Contents
<1>4. Balance'
  <2>1. ASSUME NEW w \in Workers PROVE Queued(w)' = Queued(w) /\ Carried(w)' = Carried(w) /\ Sent(w)' = Sent(w)
    BY Zenon, <1>1, TaskSets DEF Queued, Carried, Sent
  <2> QED BY Zenon, <2>1 DEF Balance
<1>5. DispatchersOutliveAcceptor'
  BY Zenon, <1>1, TaskSets DEF DispatchersOutliveAcceptor, IsActive
<1> QED BY Zenon, <1>2, <1>3, <1>4, <1>5 DEF Flags

\* The acceptor takes an item from its socket.
LEMMA AcceptStep ==
  ASSUME IndInv, Accept
  PROVE  IndInv'
<1> USE DEF IndInv
<1>1. /\ task' = [task EXCEPT ![Acceptor] = "received"] /\ task[Acceptor] = "recv"
      /\ held' = [held EXCEPT ![Acceptor] = Head(inbox)]
      /\ inbox \in Seq(Work) /\ inbox # <<>> /\ inbox' = Tail(inbox)
      /\ task \in [Tasks -> Stages] /\ held \in [Tasks -> Work \cup {Nothing}]
      /\ UNCHANGED <<serverActive, runtimeActive, closing, stopped, registered, cancelled, queue,
                     permits, handlers, lastStarted, conf, arrivals>>
  BY Zenon DEF Accept, Goto, TypeOK, Contents, stateVars
<1>2. Head(inbox) \in Work /\ Tail(inbox) \in Seq(Work) /\ Acceptor \in Tasks
  BY <1>1, TaskSets
<1>3. Work' = Work /\ Item' = Item
  BY Zenon, <1>1 DEF Work, Item
<1>4. TypeOK'
  <2>1. held' \in [Tasks -> Item]
    BY Zenon, <1>1, <1>2, WorkIsItem DEF TypeOK
  <2>2. inbox' \in Seq(Item)
    BY <1>1 DEF TypeOK
  <2>3. task' \in [Tasks -> Stages]
    BY Zenon, <1>1 DEF Stages
  <2> QED BY Zenon, <1>1, <1>3, <2>1, <2>2, <2>3 DEF TypeOK
<1>5. Contents'
  <2>1. held' \in [Tasks -> Work \cup {Nothing}]
    BY Zenon, <1>1, <1>2
  <2>2. \A u \in Tasks : held'[u] # Nothing <=> task'[u] \in {"received", "send"}
    BY Zenon, <1>1, <1>2, WorkIsItem DEF Contents
  <2> QED BY Zenon, <1>1, <1>2, <1>3, <2>1, <2>2 DEF Contents
<1>6. Balance'
  <2>1. ASSUME NEW w \in Workers PROVE Queued(w)' = Queued(w) /\ Carried(w)' = Carried(w) /\ Sent(w)' = Sent(w)
    BY Zenon, <1>1, TaskSets DEF Queued, Carried, Sent
  <2> QED BY Zenon, <1>1, <2>1 DEF Balance
<1>7. DispatchersOutliveAcceptor'
  BY Zenon, <1>1, TaskSets DEF DispatchersOutliveAcceptor, IsActive
<1> QED BY Zenon, <1>1, <1>4, <1>5, <1>6, <1>7 DEF Flags

\* The acceptor drops an item, or takes a permit of its worker.
LEMMA SelectStep ==
  ASSUME IndInv, Select
  PROVE  IndInv'
<1> USE DEF IndInv
<1> DEFINE i == held[Acceptor]
<1>0. /\ task[Acceptor] = "received" /\ Acceptor \in Tasks
      /\ task \in [Tasks -> Stages] /\ held \in [Tasks -> Work \cup {Nothing}]
      /\ UNCHANGED <<serverActive, runtimeActive, closing, stopped, registered, cancelled, inbox,
                     handlers, lastStarted, conf, arrivals>>
      /\ Work' = Work /\ Item' = Item /\ conf.max \in Nat
  BY Zenon, TaskSets, Configured DEF Select, TypeOK, Contents, stateVars, Work, Item
<1>1. i \in Work /\ i \in Item /\ i.to \in Workers
  BY Zenon, <1>0, WorkIsItem DEF Contents
<1>2. CASE End(Acceptor)
  <2>1. /\ cancelled' \in [Tasks -> BOOLEAN] /\ registered' \in BOOLEAN
        /\ serverActive => \A u \in Tasks : ~cancelled'[u]
    BY <1>0, Zenon DEF TypeOK, Flags
  <2>2. Acceptor \notin Workers
    BY TaskSets, Zenon
  <2> QED BY <1>0, <1>2, <2>1, <2>2, EndStep, Zenon
<1>3. CASE /\ Goto(Acceptor, "check") /\ held' = [held EXCEPT ![Acceptor] = Nothing]
           /\ UNCHANGED <<queue, permits>>
  <2>1. task' = [task EXCEPT ![Acceptor] = "check"] /\ held' = [held EXCEPT ![Acceptor] = Nothing]
    BY SMTT(30), <1>3 DEF Goto
  <2>2. TypeOK'
    <3>1. held' \in [Tasks -> Item] /\ task' \in [Tasks -> Stages]
      BY Zenon, <1>0, <2>1, NothingIsItem DEF TypeOK, Stages
    <3> QED BY Zenon, <1>0, <1>3, <3>1 DEF TypeOK
  <2>3. Contents'
    <3>1. \A u \in Tasks : held'[u] # Nothing <=> task'[u] \in {"received", "send"}
      BY Zenon, <1>0, <2>1 DEF Contents
    <3> QED BY Zenon, <1>0, <1>3, <2>1, <3>1 DEF Contents
  <2>4. Balance'
    <3>1. ASSUME NEW w \in Workers PROVE Queued(w)' = Queued(w) /\ Carried(w)' = Carried(w) /\ Sent(w)' = Sent(w)
      BY Zenon, <1>0, <1>3, <2>1, TaskSets DEF Queued, Carried, Sent
    <3> QED BY Zenon, <1>0, <1>3, <3>1 DEF Balance
  <2>5. DispatchersOutliveAcceptor'
    BY Zenon, <1>0, <2>1, TaskSets DEF DispatchersOutliveAcceptor, IsActive
  <2> QED BY Zenon, <1>0, <2>2, <2>3, <2>4, <2>5 DEF Flags
<1>4. CASE /\ Goto(Acceptor, "send") /\ ~NoPermit(i.to)
           /\ permits' = [permits EXCEPT ![i.to] = IF conf.max > 0 THEN @ + 1 ELSE @]
           /\ UNCHANGED <<held, queue>>
  <2>1. task' = [task EXCEPT ![Acceptor] = "send"] /\ permits \in [Workers -> Nat]
    BY SMTT(30), <1>4 DEF Goto, TypeOK
  <2>2. TypeOK'
    <3>1. task' \in [Tasks -> Stages] /\ permits' \in [Workers -> Nat]
      BY <1>0, <1>1, <1>4, <2>1 DEF Stages
    <3> QED BY SMTT(30), <1>0, <1>4, <3>1 DEF TypeOK
  <2>3. Contents'
    <3>1. \A u \in Tasks : held'[u] # Nothing <=> task'[u] \in {"received", "send"}
      BY Zenon, <1>0, <1>4, <2>1 DEF Contents
    <3> QED BY Zenon, <1>0, <1>4, <2>1, <3>1 DEF Contents
  <2>4. Balance'
    <3> SUFFICES ASSUME conf.max > 0, NEW w \in Workers
                 PROVE  /\ permits'[w] = handlers[w] + Queued(w)' + Carried(w)' + Sent(w)'
                        /\ permits'[w] <= conf.max
      BY Zenon, <1>0 DEF Balance
    <3>1. /\ permits[w] = handlers[w] + Queued(w) + Carried(w) + Sent(w)
          /\ permits[w] <= conf.max /\ handlers[w] \in Nat /\ permits[w] \in Nat
          /\ Queued(w) \in Nat /\ Carried(w) \in Nat
      BY SMTT(30), Counts DEF Balance, TypeOK
    <3>2. Queued(w)' = Queued(w) /\ Carried(w)' = Carried(w) /\ Sent(w) = 0
      BY Zenon, <1>0, <1>4, TaskSets DEF Queued, Carried, Sent
    <3>3. CASE w = i.to
      <4>1. Sent(w)' = 1 /\ permits'[w] = permits[w] + 1 /\ permits[w] < conf.max
        BY <1>0, <1>4, <2>1, <3>1, <3>3 DEF Sent, NoPermit
      <4> QED BY SMTT(30), <1>0, <3>1, <3>2, <4>1
    <3>4. CASE w # i.to
      <4>1. Sent(w)' = 0 /\ permits'[w] = permits[w]
        BY Zenon, <1>0, <1>4, <2>1, <3>1, <3>4 DEF Sent
      <4> QED BY Zenon, <1>0, <3>1, <3>2, <4>1
    <3> QED BY Zenon, <3>3, <3>4
  <2>5. DispatchersOutliveAcceptor'
    BY Zenon, <1>0, <2>1, TaskSets DEF DispatchersOutliveAcceptor, IsActive
  <2> QED BY Zenon, <1>0, <2>2, <2>3, <2>4, <2>5 DEF Flags
<1> QED BY Zenon, <1>2, <1>3, <1>4 DEF Select

\* The item goes from the acceptor to the worker's queue, its permit with it.
LEMMA SendStep ==
  ASSUME IndInv, Send
  PROVE  IndInv'
<1> USE DEF IndInv
<1> DEFINE i == held[Acceptor]
<1>0. /\ task[Acceptor] = "send" /\ Acceptor \in Tasks
      /\ task \in [Tasks -> Stages] /\ held \in [Tasks -> Work \cup {Nothing}]
      /\ queue \in [Workers -> Seq(Work)] /\ queue \in [Workers -> Seq(Item)]
      /\ UNCHANGED <<serverActive, runtimeActive, closing, stopped, registered, cancelled, inbox,
                     handlers, lastStarted, conf, arrivals>>
      /\ Work' = Work /\ Item' = Item /\ conf.max \in Nat
  BY Zenon, TaskSets, Configured DEF Send, TypeOK, Contents, stateVars, Work, Item
<1>1. i \in Work /\ i \in Item /\ i.to \in Workers
  BY Zenon, <1>0, WorkIsItem DEF Contents
<1>2. CASE End(Acceptor)
  <2>1. /\ cancelled' \in [Tasks -> BOOLEAN] /\ registered' \in BOOLEAN
        /\ serverActive => \A u \in Tasks : ~cancelled'[u]
    BY <1>0, Zenon DEF TypeOK, Flags
  <2>2. Acceptor \notin Workers
    BY TaskSets, Zenon
  <2> QED BY <1>0, <1>2, <2>1, <2>2, EndStep, Zenon
<1>3. CASE /\ queue' = [queue EXCEPT ![i.to] = Append(@, i)]
           /\ held' = [held EXCEPT ![Acceptor] = Nothing]
           /\ Goto(Acceptor, "check") /\ UNCHANGED permits
  <2>1. task' = [task EXCEPT ![Acceptor] = "check"]
    BY SMTT(30), <1>3 DEF Goto
  <2>2. TypeOK'
    <3>1. held' \in [Tasks -> Item] /\ task' \in [Tasks -> Stages]
      BY Zenon, <1>0, <1>3, <2>1, NothingIsItem DEF TypeOK, Stages
    <3>2. queue' \in [Workers -> Seq(Item)]
      BY <1>0, <1>1, <1>3
    <3> QED BY <1>0, <1>3, <3>1, <3>2, Zenon DEF TypeOK
  <2>3. Contents'
    <3>1. \A u \in Tasks : held'[u] # Nothing <=> task'[u] \in {"received", "send"}
      BY Zenon, <1>0, <1>3, <2>1 DEF Contents
    <3>2. queue' \in [Workers -> Seq(Work)]
      BY <1>0, <1>1, <1>3
    <3> QED BY Zenon, <1>0, <1>3, <3>1, <3>2 DEF Contents
  <2>4. ASSUME conf.max > 0, NEW w \in Workers
        PROVE  /\ permits'[w] = handlers[w] + Queued(w)' + Carried(w)' + Sent(w)'
               /\ permits'[w] <= conf.max
    <3>1. /\ permits[w] = handlers[w] + Queued(w) + Carried(w) + Sent(w)
          /\ permits[w] <= conf.max /\ handlers[w] \in Nat /\ permits'[w] = permits[w]
          /\ Queued(w) \in Nat /\ Carried(w) \in Nat
      BY Zenon, <1>3, <2>4, Counts DEF Balance, TypeOK
    <3>2. Carried(w)' = Carried(w) /\ Sent(w)' = 0
      BY Zenon, <1>0, <1>3, <2>1, TaskSets DEF Carried, Sent
    <3>3. CASE w = i.to
      <4>0. Sent(w) = 1
        BY Zenon, <1>0, <3>3 DEF Sent
      <4>1. queue'[w] = Append(queue[w], i) /\ queue[w] \in Seq(Work)
        BY Zenon, <1>0, <1>3, <3>3
      <4>2. Queued(w)' = Queued(w) + 1
        BY <1>1, <4>1 DEF Queued
      <4>3. permits'[w] = handlers[w] + Queued(w)' + Carried(w)' + 0
        BY <3>1, <3>2, <4>0, <4>2
      <4> QED BY Zenon, <3>1, <3>2, <4>3
    <3>4. CASE w # i.to
      <4>1. Queued(w)' = Queued(w) /\ Sent(w) = 0
        BY SMTT(30), <1>0, <1>3, <3>4 DEF Sent, Queued
      <4> QED BY Zenon, <3>1, <3>2, <4>1
    <3> QED BY Zenon, <3>3, <3>4
  <2>5. Balance'
    BY Zenon, <1>0, <2>4 DEF Balance
  <2>6. DispatchersOutliveAcceptor'
    BY Zenon, <1>0, <2>1, TaskSets DEF DispatchersOutliveAcceptor, IsActive
  <2> QED BY Zenon, <1>0, <2>2, <2>3, <2>5, <2>6 DEF Flags
<1> QED BY Zenon, <1>2, <1>3 DEF Send

\* The item goes from the queue to the dispatcher, its permit with it.
LEMMA TakeStep ==
  ASSUME IndInv, NEW v \in Workers, Take(v)
  PROVE  IndInv'
<1> USE DEF IndInv
<1>0. /\ task[v] = "recv" /\ v \in Tasks /\ v # Acceptor
      /\ task \in [Tasks -> Stages] /\ held \in [Tasks -> Work \cup {Nothing}]
      /\ queue \in [Workers -> Seq(Work)] /\ queue \in [Workers -> Seq(Item)]
      /\ UNCHANGED <<serverActive, runtimeActive, closing, stopped, registered, cancelled, inbox,
                     handlers, lastStarted, conf, arrivals>>
      /\ Work' = Work /\ Item' = Item /\ conf.max \in Nat
  BY Zenon, TaskSets, Configured DEF Take, TypeOK, Contents, stateVars, Work, Item
<1>1. CASE task[Acceptor] = "ended" /\ End(v)
  BY Zenon, <1>0, <1>1, EndStep, TaskSets DEF TypeOK, Flags
<1>2. CASE /\ queue[v] # <<>> /\ held' = [held EXCEPT ![v] = Head(queue[v])]
           /\ queue' = [queue EXCEPT ![v] = Tail(@)]
           /\ Goto(v, "received") /\ UNCHANGED permits
  <2>1. task' = [task EXCEPT ![v] = "received"]
    BY Zenon, <1>2 DEF Goto
  <2>2. /\ Head(queue[v]) \in Work /\ Tail(queue[v]) \in Seq(Work) /\ Tail(queue[v]) \in Seq(Item)
        /\ Len(queue[v]) = Len(Tail(queue[v])) + 1 /\ Len(Tail(queue[v])) \in Nat
    BY <1>0, <1>2
  <2>3. Head(queue[v]) \in Item /\ Head(queue[v]) # Nothing
    BY Zenon, <2>2, WorkIsItem
  <2>4. TypeOK'
    <3>1. held' \in [Tasks -> Item] /\ task' \in [Tasks -> Stages]
      BY Zenon, <1>0, <1>2, <2>1, <2>3 DEF TypeOK, Stages
    <3>2. queue' \in [Workers -> Seq(Item)]
      BY Zenon, <1>0, <1>2, <2>2
    <3> QED BY <1>0, <1>2, <3>1, <3>2, Zenon DEF TypeOK
  <2>5. Contents'
    <3>1. \A u \in Tasks : held'[u] # Nothing <=> task'[u] \in {"received", "send"}
      BY Zenon, <1>0, <1>2, <2>1, <2>3 DEF Contents
    <3>2. queue' \in [Workers -> Seq(Work)] /\ held' \in [Tasks -> Work \cup {Nothing}]
      BY Zenon, <1>0, <1>2, <2>2
    <3> QED BY Zenon, <1>0, <1>2, <3>1, <3>2 DEF Contents
  <2>6. ASSUME conf.max > 0, NEW w \in Workers
        PROVE  /\ permits'[w] = handlers[w] + Queued(w)' + Carried(w)' + Sent(w)'
               /\ permits'[w] <= conf.max
    <3>1. /\ permits[w] = handlers[w] + Queued(w) + Carried(w) + Sent(w)
          /\ permits[w] <= conf.max /\ handlers[w] \in Nat /\ permits'[w] = permits[w]
          /\ Queued(w) \in Nat /\ Carried(w) \in Nat /\ Sent(w) \in Nat
      BY SMTT(30), <1>2, <2>6, Counts DEF Balance, TypeOK
    <3>2. Sent(w)' = Sent(w)
      BY Zenon, <1>0, <1>2, <2>1, TaskSets DEF Sent
    <3>3. CASE w = v
      <4>1. Carried(w) = 0
        BY Zenon, <1>0, <3>3 DEF Carried, Contents
      <4>2. held'[v] = Head(queue[v]) /\ queue'[v] = Tail(queue[v])
        BY Zenon, <1>0, <1>2
      <4>3. Carried(w)' = 1
        BY Zenon, <2>3, <3>3, <4>2 DEF Carried
      <4>4. Queued(w) = Queued(w)' + 1 /\ Queued(w)' \in Nat
        BY Zenon, <2>2, <3>3, <4>2 DEF Queued
      <4> QED BY <3>1, <3>2, <4>1, <4>3, <4>4
    <3>4. CASE w # v
      <4>1. Queued(w)' = Queued(w) /\ Carried(w)' = Carried(w)
        BY SMTT(30), <1>0, <1>2, <3>4, TaskSets DEF Carried, Queued
      <4> QED BY Zenon, <3>1, <3>2, <4>1
    <3> QED BY Zenon, <3>3, <3>4
  <2>7. Balance'
    BY Zenon, <1>0, <2>6 DEF Balance
  <2>8. DispatchersOutliveAcceptor'
    BY Zenon, <1>0, <2>1, TaskSets DEF DispatchersOutliveAcceptor, IsActive
  <2> QED BY Zenon, <1>0, <2>4, <2>5, <2>7, <2>8 DEF Flags
<1> QED BY Zenon, <1>1, <1>2 DEF Take

\* The handler takes the item's permit over.
LEMMA SpawnHandlerStep ==
  ASSUME IndInv, NEW v \in Workers, SpawnHandler(v)
  PROVE  IndInv'
<1> USE DEF IndInv
<1>0. /\ task[v] = "send" /\ v \in Tasks /\ v # Acceptor
      /\ task \in [Tasks -> Stages] /\ held \in [Tasks -> Item] /\ handlers \in [Workers -> Nat]
      /\ task' = [task EXCEPT ![v] = "check"] /\ held' = [held EXCEPT ![v] = Nothing]
      /\ handlers' = [handlers EXCEPT ![v] = @ + 1]
      /\ UNCHANGED <<serverActive, runtimeActive, closing, stopped, registered, cancelled, inbox,
                     queue, permits, conf, arrivals>>
      /\ Work' = Work /\ Item' = Item /\ conf.max \in Nat
  BY Zenon, TaskSets, Configured DEF SpawnHandler, TypeOK, Goto, stateVars, Work, Item
<1>1. TypeOK'
  <2>1. held' \in [Tasks -> Item] /\ task' \in [Tasks -> Stages] /\ handlers' \in [Workers -> Nat]
    BY <1>0, NothingIsItem DEF TypeOK, Stages
  <2>2. held[v].id \in 0 .. conf.arrivals
    BY Zenon, <1>0 DEF Item
  <2>3. lastStarted' \in [Workers -> 0 .. conf.arrivals]
    BY Zenon, <2>2 DEF SpawnHandler, TypeOK
  <2> QED BY Zenon, <1>0, <2>1, <2>3 DEF TypeOK
<1>2. Contents'
  <2>1. \A u \in Tasks : held'[u] # Nothing <=> task'[u] \in {"received", "send"}
    BY Zenon, <1>0 DEF Contents
  <2>2. held' \in [Tasks -> Work \cup {Nothing}]
    BY Zenon, <1>0 DEF Contents
  <2> QED BY Zenon, <1>0, <2>1, <2>2 DEF Contents
<1>3. ASSUME conf.max > 0, NEW w \in Workers
      PROVE  permits[w] = handlers'[w] + Queued(w)' + Carried(w)' + Sent(w)'
  <2>1. /\ permits[w] = handlers[w] + Queued(w) + Carried(w) + Sent(w) /\ handlers[w] \in Nat
        /\ Queued(w) \in Nat /\ Carried(w) \in Nat /\ Sent(w) \in Nat
    BY Zenon, <1>3, Counts DEF Balance, TypeOK
  <2>2. Sent(w)' = Sent(w) /\ Queued(w)' = Queued(w)
    BY Zenon, <1>0, TaskSets DEF Sent, Queued
  <2>3. CASE w = v
    <3>1. Carried(w) = 1 /\ Carried(w)' = 0 /\ handlers'[w] = handlers[w] + 1
      BY Zenon, <1>0, <2>3 DEF Carried, Contents
    <3> QED BY <2>1, <2>2, <3>1
  <2>4. CASE w # v
    <3>1. Carried(w)' = Carried(w) /\ handlers'[w] = handlers[w]
      BY Zenon, <1>0, <2>4, TaskSets DEF Carried
    <3> QED BY Zenon, <2>1, <2>2, <3>1
  <2> QED BY Zenon, <2>3, <2>4
<1>4. Balance'
  BY Zenon, <1>0, <1>3 DEF Balance
<1>5. DispatchersOutliveAcceptor'
  BY Zenon, <1>0, TaskSets DEF DispatchersOutliveAcceptor, IsActive
<1> QED BY Zenon, <1>0, <1>1, <1>2, <1>4, <1>5 DEF Flags

\* A handler ends and frees its permit.
LEMMA HandlerEndsStep ==
  ASSUME IndInv, NEW v \in Workers, HandlerEnds(v)
  PROVE  IndInv'
<1> USE DEF IndInv
<1>0. /\ handlers \in [Workers -> Nat] /\ permits \in [Workers -> Nat]
      /\ handlers[v] > 0 /\ handlers[v] - 1 \in Nat
      /\ handlers' = [handlers EXCEPT ![v] = @ - 1]
      /\ permits' = [permits EXCEPT ![v] = IF conf.max > 0 THEN permits[v] - 1 ELSE permits[v]]
      /\ UNCHANGED <<serverActive, runtimeActive, closing, stopped, registered, cancelled, inbox,
                     task, held, queue, lastStarted, conf, arrivals>>
      /\ Work' = Work /\ Item' = Item /\ conf.max \in Nat
  BY SMTT(30), Configured DEF HandlerEnds, TypeOK, stateVars, Work, Item, Free
<1>1. ASSUME conf.max > 0, NEW w \in Workers
      PROVE  /\ permits'[w] = handlers'[w] + Queued(w)' + Carried(w)' + Sent(w)'
             /\ permits'[w] \in Nat /\ permits'[w] <= conf.max
  <2>1. /\ permits[w] = handlers[w] + Queued(w) + Carried(w) + Sent(w) /\ handlers[w] \in Nat
        /\ permits[w] <= conf.max
        /\ Queued(w) \in Nat /\ Carried(w) \in Nat /\ Sent(w) \in Nat
    BY Zenon, <1>1, Counts DEF Balance, TypeOK
  <2>2. Sent(w)' = Sent(w) /\ Queued(w)' = Queued(w) /\ Carried(w)' = Carried(w)
    BY Zenon, <1>0 DEF Sent, Queued, Carried
  <2>3. CASE w = v
    <3>1. handlers'[w] = handlers[w] - 1 /\ permits'[w] = permits[w] - 1 /\ handlers[w] > 0
      BY Zenon, <1>0, <1>1, <2>3
    <3> QED BY <1>0, <2>1, <2>2, <3>1
  <2>4. CASE w # v
    <3>1. handlers'[w] = handlers[w] /\ permits'[w] = permits[w]
      BY Zenon, <1>0, <2>4
    <3> QED BY Zenon, <1>0, <2>1, <2>2, <3>1
  <2> QED BY Zenon, <2>3, <2>4
<1>2. Balance'
  BY Zenon, <1>0, <1>1 DEF Balance
<1>3. handlers' \in [Workers -> Nat] /\ permits' \in [Workers -> Nat]
  BY Zenon, <1>0, <1>1
<1>4. TypeOK'
  BY SMTT(30), <1>0, <1>3 DEF TypeOK
<1>5. Contents'
  BY Zenon, <1>0 DEF Contents
<1>6. DispatchersOutliveAcceptor'
  BY Zenon, <1>0 DEF DispatchersOutliveAcceptor, IsActive
<1> QED BY Zenon, <1>0, <1>2, <1>4, <1>5, <1>6 DEF Flags

\* What a worker's end frees on each worker.
LEMMA OwnedByHosted ==
  ASSUME TypeOK, NEW v \in Workers, NEW w \in Workers,
         NEW T, T = {t \in Tasks : Host(t) = v}
  PROVE  Owned(T, w) = (IF w = v THEN Queued(w) + Carried(w) ELSE 0) + (IF v = 0 THEN Sent(w) ELSE 0)
<1>1. w \in T <=> w = v
  BY Zenon, TaskSets DEF Host
<1>2. Acceptor \in T <=> v = 0
  BY Zenon, TaskSets DEF Host
<1> QED BY Zenon, <1>1, <1>2 DEF Owned, Queued, Carried, Sent

\* A worker thread ends with its tasks and handlers.
LEMMA StopWorkerStep ==
  ASSUME IndInv, NEW v \in Workers, StopWorker(v)
  PROVE  IndInv'
<1> USE DEF IndInv
<1> DEFINE T == {t \in Tasks : Host(t) = v}
<1>0. /\ task' = [t \in Tasks |-> IF t \in T THEN "ended" ELSE task[t]]
      /\ held' = [t \in Tasks |-> IF t \in T THEN Nothing ELSE held[t]]
      /\ queue' = [w \in Workers |-> IF w \in T THEN <<>> ELSE queue[w]]
      /\ permits' = [w \in Workers |-> Free(w, Owned(T, w) + (IF w = v THEN handlers[v] ELSE 0))]
      /\ handlers' = [handlers EXCEPT ![v] = 0] /\ handlers \in [Workers -> Nat]
      /\ cancelled' = [t \in Tasks |-> t \notin T /\ cancelled[t]]
      /\ ~runtimeActive /\ stopped' = stopped \cup {v} /\ stopped \subseteq Workers
      /\ UNCHANGED <<serverActive, runtimeActive, closing, registered, inbox, lastStarted, conf, arrivals>>
  BY Zenon DEF StopWorker, EndAll, TypeOK
<1>1. /\ Work' = Work /\ Item' = Item /\ conf.max \in Nat
      /\ task \in [Tasks -> Stages] /\ held \in [Tasks -> Item] /\ held \in [Tasks -> Work \cup {Nothing}]
      /\ queue \in [Workers -> Seq(Item)] /\ queue \in [Workers -> Seq(Work)]
  BY ZenonT(30), <1>0, Configured DEF TypeOK, Contents, Work, Item
<1>2. ASSUME NEW w \in Workers PROVE w \in T <=> w = v
  BY Zenon, TaskSets DEF Host
<1>3. Acceptor \in T <=> v = 0
  BY Zenon, TaskSets DEF Host
<1>4. ASSUME NEW w \in Workers
      PROVE  Owned(T, w) = (IF w = v THEN Queued(w) + Carried(w) ELSE 0) + (IF v = 0 THEN Sent(w) ELSE 0)
  BY Zenon, OwnedByHosted
<1>5. Acceptor \in Tasks /\ Workers \subseteq Tasks
  BY Zenon, TaskSets
<1> HIDE DEF T
<1>q. queue' = [w \in Workers |-> IF w = v THEN <<>> ELSE queue[w]]
  BY Zenon, <1>0, <1>2
<1>6. ASSUME conf.max > 0, NEW w \in Workers
      PROVE  /\ permits'[w] = handlers'[w] + Queued(w)' + Carried(w)' + Sent(w)'
             /\ permits'[w] \in Nat /\ permits'[w] <= conf.max
  <2>1. /\ permits[w] = handlers[w] + Queued(w) + Carried(w) + Sent(w) /\ handlers[w] \in Nat
        /\ permits[w] <= conf.max
        /\ Queued(w) \in Nat /\ Carried(w) \in Nat /\ Sent(w) \in Nat
    BY Zenon, <1>6, Counts DEF Balance, TypeOK
  <2>2. Sent(w)' = IF v = 0 THEN 0 ELSE Sent(w)
    BY Zenon, <1>0, <1>3, <1>5 DEF Sent
  <2>3. CASE w = v
    <3>1. handlers'[w] = 0 /\ Queued(w)' = 0 /\ Carried(w)' = 0
      BY Zenon, <1>0, <1>2, <1>5, <2>3 DEF Queued, Carried
    <3>2. permits'[w] = permits[w] - (Owned(T, w) + handlers[w])
      BY Zenon, <1>0, <1>6, <2>3 DEF Free
    <3>3. Owned(T, w) = (Queued(w) + Carried(w)) + (IF v = 0 THEN Sent(w) ELSE 0)
      BY Zenon, <1>4, <2>3
    <3> QED BY SMTT(30), <1>1, <2>1, <2>2, <3>1, <3>2, <3>3
  <2>4. CASE w # v
    <3>1. handlers'[w] = handlers[w] /\ Queued(w)' = Queued(w) /\ Carried(w)' = Carried(w)
      BY Zenon, <1>0, <1>2, <1>5, <2>4 DEF Queued, Carried
    <3>2. permits'[w] = permits[w] - (Owned(T, w) + 0)
      BY Zenon, <1>0, <1>6, <2>4 DEF Free
    <3>3. Owned(T, w) = 0 + (IF v = 0 THEN Sent(w) ELSE 0)
      BY Zenon, <1>4, <2>4
    <3> QED BY SMTT(30), <1>1, <2>1, <2>2, <3>1, <3>2, <3>3
  <2> QED BY Zenon, <2>3, <2>4
<1>7. Balance'
  BY Zenon, <1>0, <1>6 DEF Balance
<1>8. TypeOK'
  <2>1. permits' \in [Workers -> Nat]
    BY Zenon, <1>0, <1>1, <1>6 DEF TypeOK, Free
  <2>2. held' \in [Tasks -> Item] /\ task' \in [Tasks -> Stages] /\ handlers' \in [Workers -> Nat]
    BY Zenon, <1>0, <1>1, NothingIsItem DEF Stages, TypeOK
  <2>3. queue' \in [Workers -> Seq(Item)]
    BY <1>1, <1>q
  <2>4. cancelled' \in [Tasks -> BOOLEAN]
    BY Zenon, <1>0 DEF TypeOK
  <2> QED BY Zenon, <1>0, <1>1, <2>1, <2>2, <2>3, <2>4 DEF TypeOK
<1>9. Contents'
  <2>1. \A u \in Tasks : held'[u] # Nothing <=> task'[u] \in {"received", "send"}
    BY Zenon, <1>0 DEF Contents
  <2>2. held' \in [Tasks -> Work \cup {Nothing}]
    BY Zenon, <1>0, <1>1
  <2>3. queue' \in [Workers -> Seq(Work)]
    BY SMTT(30), <1>1, <1>q
  <2> QED BY Zenon, <1>0, <1>1, <2>1, <2>2, <2>3 DEF Contents
<1>10. DispatchersOutliveAcceptor' /\ Flags'
  BY ZenonT(30), <1>0 DEF DispatchersOutliveAcceptor, IsActive, Flags
<1> QED BY Zenon, <1>7, <1>8, <1>9, <1>10

\* Something arrives at the socket.
LEMMA InboxStep ==
  ASSUME IndInv, inbox' \in Seq(Work), arrivals' \in 0 .. conf.arrivals, registered' \in BOOLEAN,
         cancelled' \in [Tasks -> BOOLEAN], runtimeActive' \in BOOLEAN, runtimeActive' => runtimeActive,
         serverActive' \in BOOLEAN, serverActive' => serverActive,
         closing' \in {"no", "sockets", "tasks", "closed"},
         serverActive' => closing' = "no" /\ \A t \in Tasks : ~cancelled'[t],
         UNCHANGED <<stopped, task, held, queue, permits, handlers, lastStarted, conf>>
  PROVE  IndInv'
<1> USE DEF IndInv
<1>1. Work' = Work /\ Item' = Item
  BY Zenon DEF Work, Item
<1>2. inbox' \in Seq(Item)
  <2>1. Work \subseteq Item
    BY Zenon, WorkIsItem
  <2>2. \A n \in 1 .. Len(inbox') : inbox'[n] \in Item
    BY <2>1
  <2> QED BY <2>2
<1>3. TypeOK'
  BY Zenon, <1>1, <1>2 DEF TypeOK
<1>4. Contents'
  BY Zenon, <1>1 DEF Contents
<1>5. Balance'
  BY Zenon DEF Balance, Queued, Carried, Sent
<1>6. DispatchersOutliveAcceptor'
  BY Zenon DEF DispatchersOutliveAcceptor, IsActive
<1> QED BY Zenon, <1>3, <1>4, <1>5, <1>6 DEF Flags

\* The actions outside the tasks only change the socket's contents and the flags.
LEMMA OutsideStep ==
  ASSUME IndInv, Arrive \/ CloseBegin \/ CloseSockets \/ CloseTasks \/ DropRuntime
  PROVE  IndInv'
<1> USE DEF IndInv
<1>0. inbox \in Seq(Work) /\ conf.arrivals \in Nat /\ arrivals \in 0 .. conf.arrivals
  BY SMTT(30), Configured DEF TypeOK, Contents
<1>1. CASE Arrive
  <2>1. PICK k \in {"data", "bad"}, w \in Selectable :
           inbox' = Append(inbox, [kind |-> IF serverActive THEN k ELSE "late", id |-> arrivals + 1, to |-> w])
    BY Zenon, <1>1 DEF Arrive
  <2>2. w \in Workers /\ arrivals + 1 \in 0 .. conf.arrivals
    BY <1>0, <1>1 DEF Arrive, Selectable
  <2>3. [kind |-> IF serverActive THEN k ELSE "late", id |-> arrivals + 1, to |-> w] \in Work
    BY Zenon, <2>2 DEF Work, Kinds
  <2>4. inbox' \in Seq(Work)
    BY SMTT(30), <1>0, <2>1, <2>3
  <2> QED BY Zenon, <1>1, <2>2, <2>4, InboxStep DEF Arrive, TypeOK, Flags, stateVars
<1>2. CASE CloseBegin
  BY Zenon, <1>0, <1>2, InboxStep DEF CloseBegin, TypeOK, Flags
<1>3. CASE CloseSockets
  <2>1. ASSUME NEW w \in Workers PROVE [kind |-> "wake", id |-> 0, to |-> w] \in Work
    BY <1>0 DEF Work, Kinds
  <2>2. inbox' \in Seq(Work)
    <3>1. CASE UNCHANGED inbox
      BY Zenon, <1>0, <3>1
    <3>2. ASSUME NEW w \in Workers, inbox' = Append(inbox, [kind |-> "wake", id |-> 0, to |-> w])
          PROVE  inbox' \in Seq(Work)
      <4>1. [kind |-> "wake", id |-> 0, to |-> w] \in Work
        BY Zenon, <2>1
      <4> QED BY <1>0, <3>2, <4>1
    <3> QED BY Zenon, <1>3, <3>1, <3>2 DEF CloseSockets
  <2>3. ~serverActive
    BY Zenon, <1>3 DEF CloseSockets, Flags
  <2> QED BY Zenon, <1>0, <1>3, <2>2, <2>3, InboxStep DEF CloseSockets, TypeOK, Flags
<1>4. CASE CloseTasks
  <2>1. ~serverActive
    BY Zenon, <1>4 DEF CloseTasks, Flags
  <2>2. cancelled' \in [Tasks -> BOOLEAN]
    BY Zenon, <1>4 DEF CloseTasks
  <2> QED BY Zenon, <1>0, <1>4, <2>1, <2>2, InboxStep DEF CloseTasks, TypeOK, Flags
<1>5. CASE DropRuntime
  BY ZenonT(30), <1>0, <1>5, InboxStep DEF DropRuntime, TypeOK, Flags
<1> QED BY Zenon, <1>1, <1>2, <1>3, <1>4, <1>5

\* The steps of a task's loop that are shared by the acceptor and the dispatchers.
LEMMA LoopStep ==
  ASSUME IndInv, NEW t \in Tasks, Start(t) \/ Check(t) \/ ExecuteCancel(t)
  PROVE  IndInv'
<1> USE DEF IndInv
<1>1. CASE Start(t)
  <2>1. registered' \in BOOLEAN
    BY SMTT(30), <1>1 DEF Start
  <2> QED BY Zenon, <1>1, <2>1, MoveStep DEF Start, Stages
<1>2. CASE Check(t) /\ End(t)
  <2>1. t \in Workers => ~IsActive
    BY Zenon, <1>2, TaskSets DEF Check, IsActive, End, EndAll, Goto, TypeOK, Stages
  <2> QED BY Zenon, <1>2, <2>1, EndStep DEF Check, stateVars, TypeOK, Flags
<1>3. CASE Check(t) /\ Goto(t, "recv") /\ UNCHANGED <<held, queue, permits>>
  BY Zenon, <1>3, MoveStep DEF Check, Stages, stateVars, TypeOK
<1>4. CASE ExecuteCancel(t)
  <2>1. ~serverActive
    BY Zenon, <1>4 DEF ExecuteCancel, Flags
  <2>2. cancelled' \in [Tasks -> BOOLEAN]
    BY Zenon, <1>4 DEF ExecuteCancel, TypeOK
  <2> QED BY Zenon, <1>4, <2>1, <2>2, EndStep DEF ExecuteCancel, stateVars, TypeOK, IsActive
<1> QED BY Zenon, <1>1, <1>2, <1>3, <1>4 DEF Check

\* IndInv is inductive: one step per action.
LEMMA StepKeeps ==
  ASSUME IndInv, [Next]_vars
  PROVE  IndInv'
<1> USE DEF IndInv
<1>1. CASE AcceptorStep
  BY SMTT(30), <1>1, LoopStep, AcceptStep, SelectStep, SendStep, TaskSets DEF AcceptorStep
<1>2. CASE StartFails
  <2>1. registered' \in BOOLEAN
    BY Zenon, <1>2 DEF StartFails, TypeOK
  <2> QED BY SMTT(30), <1>2, <2>1, EndStep, TaskSets DEF StartFails, TypeOK, Flags
<1>3. CASE AcceptError
  <2>1. CASE End(Acceptor)
    BY Zenon, <1>3, <2>1, EndStep, TaskSets DEF AcceptError, TypeOK, Flags, stateVars
  <2>2. CASE Goto(Acceptor, "check") /\ UNCHANGED <<held, queue, permits>>
    BY Zenon, <1>3, <2>2, MoveStep, TaskSets DEF AcceptError, Stages, stateVars, TypeOK
  <2> QED BY Zenon, <1>3, <2>1, <2>2 DEF AcceptError
<1>4. CASE Arrive \/ CloseBegin \/ CloseStep \/ DropRuntime
  BY Zenon, <1>4, OutsideStep DEF CloseStep
<1>5. ASSUME NEW w \in Workers, DispatcherStep(w)
      PROVE  IndInv'
  <2>0. w \in Tasks /\ w # Acceptor
    BY Zenon, TaskSets
  <2>1. CASE TestTaken(w) /\ End(w)
    <3>1. ~serverActive
      BY Zenon, <2>0, <2>1 DEF TestTaken, End, EndAll, Goto
    <3> QED BY SMTT(30), <2>0, <2>1, <3>1, EndStep DEF TestTaken, TypeOK, Flags, stateVars, IsActive
  <2>2. CASE TestTaken(w) /\ Goto(w, "send") /\ UNCHANGED <<held, queue, permits>>
    BY Zenon, <2>0, <2>2, MoveStep DEF TestTaken, Stages, stateVars, TypeOK
  <2>3. CASE TestTaken(w)
    BY Zenon, <2>1, <2>2, <2>3 DEF TestTaken
  <2> QED BY Zenon, <1>5, <2>0, <2>3, LoopStep, TakeStep, SpawnHandlerStep DEF DispatcherStep
<1>6. ASSUME NEW w \in Workers, HandlerEnds(w) \/ StopWorker(w)
      PROVE  IndInv'
  BY Zenon, <1>6, HandlerEndsStep, StopWorkerStep
<1>7. ASSUME NEW t \in Tasks, ExecuteCancel(t)
      PROVE  IndInv'
  BY SMTT(30), <1>7, LoopStep
<1>8. CASE UNCHANGED vars
  BY Zenon, <1>8, InboxStep DEF vars, stateVars, TypeOK, Contents, Flags
<1> QED BY Zenon, <1>1, <1>2, <1>3, <1>4, <1>5, <1>6, <1>7, <1>8 DEF Next

\* The server starts with nothing taken, queued or held.
LEMMA InitKeeps ==
  ASSUME Init
  PROVE  IndInv
<1>0. conf \in Configs /\ conf.arrivals \in Nat /\ conf.max \in Nat /\ Nothing \in Item
  BY Zenon, Configured, NothingIsItem DEF Init
<1>1. TypeOK
  <2>1. held \in [Tasks -> Item] /\ task \in [Tasks -> Stages] /\ cancelled \in [Tasks -> BOOLEAN]
    BY Zenon, <1>0 DEF Init, Stages
  <2>2. inbox \in Seq(Item) /\ queue \in [Workers -> Seq(Item)]
    BY DEF Init
  <2>3. permits \in [Workers -> Nat] /\ handlers \in [Workers -> Nat] /\ arrivals \in 0 .. conf.arrivals
    BY <1>0 DEF Init
  <2>4. lastStarted \in [Workers -> 0 .. conf.arrivals]
    BY <1>0 DEF Init
  <2> QED BY Zenon, <1>0, <2>1, <2>2, <2>3, <2>4 DEF Init, TypeOK
<1>2. Contents
  BY DEF Init, Contents
<1>3. Balance
  <2>1. \A w \in Workers : Queued(w) = 0 /\ Carried(w) = 0 /\ Sent(w) = 0
    BY Zenon, TaskSets DEF Init, Queued, Carried, Sent
  <2> QED BY <1>0, <2>1 DEF Init, Balance
<1>4. DispatchersOutliveAcceptor /\ Flags
  BY Zenon, TaskSets DEF Init, DispatchersOutliveAcceptor, Flags
<1> QED BY Zenon, <1>1, <1>2, <1>3, <1>4 DEF IndInv

-----------------------------------------------------------------------------
\* The inductive invariant holds in every reachable state.
THEOREM Invariance == Spec => []IndInv
BY InitKeeps, StepKeeps, PTL DEF Spec

\* Every taken permit has exactly one owner, and at most max of a worker's are
\* taken, for every number of workers and every limit (EndAll, Select, Send).
THEOREM PermitPerWorkItemHolds == Spec => []PermitPerWorkItem
<1>1. ASSUME IndInv PROVE PermitPerWorkItem
  <2> USE <1>1 DEF IndInv
  <2>1. ASSUME conf.max > 0, NEW w \in Workers
        PROVE  permits[w] = handlers[w] + Owned(Tasks, w) /\ permits[w] <= conf.max
    <3>1. /\ permits[w] = handlers[w] + Queued(w) + Carried(w) + Sent(w) /\ permits[w] <= conf.max
          /\ handlers[w] \in Nat /\ Queued(w) \in Nat /\ Carried(w) \in Nat /\ Sent(w) \in Nat
      BY Zenon, <2>1, Counts DEF Balance, TypeOK
    <3>2. Owned(Tasks, w) = Queued(w) + Carried(w) + Sent(w)
      BY Zenon, OwnedByAll
    <3> QED BY <3>1, <3>2
  <2> QED BY Zenon, <2>1 DEF PermitPerWorkItem
<1> QED BY <1>1, Invariance, PTL

\* A limited acceptor never waits for room in a queue that is as large as the
\* limit: the permit it holds is not in the queue.
THEOREM SendNeverWaitsHolds == Spec => []SendNeverWaits
<1>1. ASSUME IndInv PROVE SendNeverWaits
  <2> USE <1>1 DEF IndInv
  <2> SUFFICES ASSUME 0 < conf.max, conf.max <= conf.capacity, task[Acceptor] = "send"
               PROVE  Len(queue[held[Acceptor].to]) < conf.capacity
    BY Zenon DEF SendNeverWaits
  <2> DEFINE w == held[Acceptor].to
  <2>1. w \in Workers
    BY Zenon, TaskSets DEF TypeOK, Item
  <2>2. Sent(w) = 1
    BY Zenon DEF Sent
  <2>3. /\ permits[w] = handlers[w] + Queued(w) + Carried(w) + Sent(w) /\ permits[w] <= conf.max
        /\ handlers[w] \in Nat /\ Queued(w) \in Nat /\ Carried(w) \in Nat
        /\ conf.max \in Nat /\ conf.capacity \in Nat
    BY Zenon, <2>1, Counts, Configured DEF Balance, TypeOK
  <2>4. Queued(w) = Len(queue[w])
    BY Zenon DEF Queued
  <2> HIDE DEF w
  <2>5. Queued(w) < conf.capacity
    BY <2>2, <2>3
  <2> QED BY Zenon, <2>4, <2>5 DEF w
<1> QED BY <1>1, Invariance, PTL

\* No dispatcher ends before the acceptor of an active server (Check, Take,
\* ExecuteCancel, StopWorker).
THEOREM DispatchersOutliveHolds == Spec => []DispatchersOutliveAcceptor
<1>1. IndInv => DispatchersOutliveAcceptor
  BY Zenon DEF IndInv
<1> QED BY <1>1, Invariance, PTL

-----------------------------------------------------------------------------
\* Items numbered by their arrival: all but the wake-up datagram of close().
Numbered(i) == i.kind \notin {"none", "wake"}

\* What came after the close() is seen only with the flag down, and only a QUIC
\* socket can receive an unroutable packet.
Known(i) == /\ i.kind \in {"late", "wake"} => ~serverActive
            /\ i.kind = "bad" => conf.kind = "quic"

\* What has passed Select is data.
Selected == /\ \A n \in 1 .. Len(inbox) : Known(inbox[n])
            /\ Known(held[Acceptor])
            /\ task[Acceptor] = "send" => held[Acceptor].kind = "data"
            /\ \A w \in Workers : /\ held[w] # Nothing => held[w].kind = "data"
                                  /\ \A n \in 1 .. Len(queue[w]) : queue[w][n].kind = "data"

\* All that waits in the socket, with the acceptor, in the queue of w arrived
\* after item k.
InboxAfter(k) == \A n \in 1 .. Len(inbox) : Numbered(inbox[n]) => k < inbox[n].id
AcceptorAfter(k) == Numbered(held[Acceptor]) => k < held[Acceptor].id
QueueAfter(w, k) == \A n \in 1 .. Len(queue[w]) : k < queue[w][n].id

\* Item k has left the acceptor: it arrived before all that has not.
Past(k) == k <= arrivals /\ InboxAfter(k) /\ AcceptorAfter(k)

\* From the socket to the handler of w the items stay in the order of arrival.
SocketOrder ==
  /\ \A n \in 1 .. Len(inbox) : inbox[n].id <= arrivals
  /\ \A m, n \in 1 .. Len(inbox) :
       (m < n /\ Numbered(inbox[m]) /\ Numbered(inbox[n])) => inbox[m].id < inbox[n].id
  /\ held[Acceptor].id <= arrivals
  /\ Numbered(held[Acceptor]) => InboxAfter(held[Acceptor].id)
WorkerOrder(w) ==
  /\ \A n \in 1 .. Len(queue[w]) : Past(queue[w][n].id)
  /\ \A m, n \in 1 .. Len(queue[w]) : m < n => queue[w][m].id < queue[w][n].id
  /\ held[w] # Nothing => /\ Past(held[w].id) /\ QueueAfter(w, held[w].id)
                          /\ lastStarted[w] < held[w].id
  /\ Past(lastStarted[w]) /\ QueueAfter(w, lastStarted[w])

OrderInv == Selected /\ SocketOrder /\ \A w \in Workers : WorkerOrder(w)

\* The numbers the order is about.
LEMMA Ids ==
  ASSUME IndInv
  PROVE  /\ arrivals \in Nat /\ inbox \in Seq(Work)
         /\ \A n \in 1 .. Len(inbox) : inbox[n] \in Work /\ inbox[n].id \in Nat
         /\ held[Acceptor].id \in Nat
         /\ \A w \in Workers : /\ queue[w] \in Seq(Work) /\ held[w].id \in Nat /\ lastStarted[w] \in Nat
                               /\ \A n \in 1 .. Len(queue[w]) : queue[w][n] \in Work /\ queue[w][n].id \in Nat
<1> USE DEF IndInv
<1>1. conf.arrivals \in Nat
  BY Zenon, Configured DEF TypeOK
<1>2. \A i \in Work : i.id \in Nat
  BY <1>1 DEF Work
<1>3. \A i \in Item : i.id \in Nat
  BY <1>1 DEF Item
<1>4. arrivals \in Nat /\ \A w \in Workers : lastStarted[w] \in Nat
  BY <1>1 DEF TypeOK
<1>5. inbox \in Seq(Work) /\ \A n \in 1 .. Len(inbox) : inbox[n] \in Work
  BY DEF Contents
<1>6. \A t \in Tasks : held[t] \in Item
  BY Zenon DEF TypeOK
<1>7. ASSUME NEW w \in Workers
      PROVE  queue[w] \in Seq(Work) /\ \A n \in 1 .. Len(queue[w]) : queue[w][n] \in Work
  <2>1. queue[w] \in Seq(Work)
    BY Zenon DEF Contents
  <2> QED BY <2>1
<1> QED BY Zenon, <1>2, <1>3, <1>4, <1>5, <1>6, <1>7, TaskSets

\* Dropping what a task holds or has queued, and starting the handler of what a
\* dispatcher holds, leaves the rest in order.
LEMMA DropKeepsOrder ==
  ASSUME IndInv, OrderInv, UNCHANGED <<conf, inbox, arrivals>>, serverActive' => serverActive,
         held'[Acceptor] \in {held[Acceptor], Nothing},
         task'[Acceptor] = "send" => held'[Acceptor].kind = "data",
         \A w \in Workers : /\ held'[w] \in {held[w], Nothing} /\ queue'[w] \in {queue[w], <<>>}
                            /\ \/ lastStarted'[w] = lastStarted[w]
                               \/ held[w] # Nothing /\ held'[w] = Nothing /\ lastStarted'[w] = held[w].id
  PROVE  OrderInv'
<1>1. ~Numbered(Nothing) /\ Nothing.id = 0 /\ Nothing.kind = "none"
  BY Zenon DEF Numbered, Nothing
<1>2. ASSUME NEW k PROVE (InboxAfter(k) <=> InboxAfter(k)') /\ (AcceptorAfter(k) => AcceptorAfter(k)')
                         /\ (Past(k) => Past(k)')
  BY Zenon, <1>1 DEF InboxAfter, AcceptorAfter, Past, Numbered
<1>3. Selected'
  <2>1. ASSUME NEW i, Known(i) PROVE Known(i)'
    BY Zenon, <2>1 DEF Known
  <2>2. Known(Nothing)
    BY Zenon, <1>1 DEF Known
  <2>3. \A n \in 1 .. Len(inbox') : Known(inbox[n])'
    BY Zenon, <2>1 DEF OrderInv, Selected
  <2>4. Known(held[Acceptor])'
    BY Zenon, <2>2 DEF OrderInv, Selected, Known
  <2>5. ASSUME NEW w \in Workers
        PROVE  /\ held'[w] # Nothing => held'[w].kind = "data"
               /\ \A n \in 1 .. Len(queue'[w]) : queue'[w][n].kind = "data"
    BY DEF OrderInv, Selected
  <2> QED BY Zenon, <2>3, <2>4, <2>5 DEF Selected
<1>4. SocketOrder'
  <2>1. held'[Acceptor].id <= arrivals'
    BY <1>1, Ids DEF OrderInv, SocketOrder
  <2>2. Numbered(held'[Acceptor]) => InboxAfter(held[Acceptor].id)'
    BY Zenon, <1>1 DEF OrderInv, SocketOrder, InboxAfter, Numbered
  <2> QED BY Zenon, <2>1, <2>2 DEF OrderInv, SocketOrder, Numbered
<1>5. ASSUME NEW w \in Workers PROVE WorkerOrder(w)'
  <2>1. WorkerOrder(w)
    BY Zenon DEF OrderInv
  <2>2. ASSUME NEW n \in 1 .. Len(queue'[w]) PROVE Past(queue[w][n].id)'
    <3>1. n \in 1 .. Len(queue[w]) /\ queue'[w] = queue[w]
      OBVIOUS
    <3>2. Past(queue[w][n].id)
      BY Zenon, <2>1, <3>1 DEF WorkerOrder
    <3> QED BY Zenon, <1>2, <3>1, <3>2 DEF Past, InboxAfter, AcceptorAfter
  <2>3. \A m, n \in 1 .. Len(queue'[w]) : m < n => queue'[w][m].id < queue'[w][n].id
    BY <2>1 DEF WorkerOrder
  <2>4. ASSUME NEW k, QueueAfter(w, k) PROVE QueueAfter(w, k)'
    BY <2>4 DEF QueueAfter
  <2>5. ASSUME held'[w] # Nothing
        PROVE  Past(held[w].id)' /\ QueueAfter(w, held[w].id)' /\ lastStarted'[w] < held'[w].id
    <3>1. held'[w] = held[w] /\ lastStarted'[w] = lastStarted[w] /\ held[w] # Nothing
      BY Zenon, <2>5
    <3>2. Past(held[w].id) /\ QueueAfter(w, held[w].id) /\ lastStarted[w] < held[w].id
      BY Zenon, <2>1, <3>1 DEF WorkerOrder
    <3>3. PICK k : k = held[w].id
      BY Zenon
    <3>4. Past(k)' /\ QueueAfter(w, k)'
      BY Zenon, <1>2, <2>4, <3>2, <3>3
    <3> QED BY Zenon, <3>1, <3>2, <3>3, <3>4 DEF Past, InboxAfter, AcceptorAfter, QueueAfter
  <2>6. Past(lastStarted[w])' /\ QueueAfter(w, lastStarted[w])'
    <3>1. PICK k : k = lastStarted'[w]
      BY Zenon
    <3>2. Past(k) /\ QueueAfter(w, k)
      BY Zenon, <2>1, <3>1 DEF WorkerOrder
    <3>3. Past(k)' /\ QueueAfter(w, k)'
      BY Zenon, <1>2, <2>4, <3>2
    <3> QED BY Zenon, <3>1, <3>3 DEF Past, InboxAfter, AcceptorAfter, QueueAfter
  <2> QED BY Zenon, <2>2, <2>3, <2>5, <2>6 DEF WorkerOrder
<1> QED BY Zenon, <1>3, <1>4, <1>5 DEF OrderInv

\* The acceptor takes the oldest item of its socket.
LEMMA AcceptKeepsOrder ==
  ASSUME IndInv, OrderInv, Accept
  PROVE  OrderInv'
<1>1. /\ inbox \in Seq(Work) /\ inbox # <<>> /\ inbox' = Tail(inbox)
      /\ held'[Acceptor] = inbox[1] /\ held[Acceptor] = Nothing
      /\ task'[Acceptor] = "received"
      /\ \A w \in Workers : held'[w] = held[w]
      /\ UNCHANGED <<serverActive, conf, queue, lastStarted, arrivals>>
  <2>1. inbox \in Seq(Work) /\ inbox # <<>> /\ inbox' = Tail(inbox) /\ Head(inbox) = inbox[1]
    BY Ids DEF Accept
  <2>2. held \in [Tasks -> Item] /\ task \in [Tasks -> Stages]
    BY Zenon DEF IndInv, TypeOK
  <2>3. held[Acceptor] = Nothing
    BY Zenon, TaskSets DEF IndInv, Accept, Contents
  <2>4. held'[Acceptor] = inbox[1] /\ task'[Acceptor] = "received" /\ \A w \in Workers : held'[w] = held[w]
    BY Zenon, <2>1, <2>2, TaskSets DEF Accept, Goto
  <2> QED BY Zenon, <2>1, <2>3, <2>4 DEF Accept, stateVars
<1>2. /\ Len(inbox) \in Nat /\ Len(inbox) > 0 /\ Len(inbox') = Len(inbox) - 1
      /\ \A n \in 1 .. Len(inbox') : inbox'[n] = inbox[n + 1] /\ n + 1 \in 1 .. Len(inbox)
      /\ 1 \in 1 .. Len(inbox)
  BY <1>1
<1>3. ASSUME NEW k PROVE /\ InboxAfter(k) => InboxAfter(k)' /\ AcceptorAfter(k)'
                         /\ Past(k) => Past(k)'
  <2>1. ASSUME InboxAfter(k) PROVE InboxAfter(k)' /\ AcceptorAfter(k)'
    BY Zenon, <1>1, <1>2, <2>1 DEF InboxAfter, AcceptorAfter, Numbered
  <2> QED BY Zenon, <1>1, <2>1 DEF Past
<1>4. Selected'
  <2>1. ASSUME NEW i, Known(i) PROVE Known(i)'
    BY Zenon, <1>1, <2>1 DEF Known
  <2>2. \A n \in 1 .. Len(inbox') : Known(inbox[n])'
    BY <1>1, <1>2 DEF OrderInv, Selected, Known
  <2>3. Known(held[Acceptor])'
    BY Zenon, <1>1, <1>2 DEF OrderInv, Selected, Known
  <2> QED BY Zenon, <1>1, <2>2, <2>3 DEF OrderInv, Selected
<1>5. SocketOrder'
  <2>1. \A n \in 1 .. Len(inbox') : inbox'[n].id <= arrivals'
    BY Zenon, <1>1, <1>2 DEF OrderInv, SocketOrder
  <2>2. ASSUME NEW m \in 1 .. Len(inbox'), NEW n \in 1 .. Len(inbox'), m < n,
               Numbered(inbox'[m]), Numbered(inbox'[n])
        PROVE  inbox'[m].id < inbox'[n].id
    <3>1. /\ m + 1 \in 1 .. Len(inbox) /\ n + 1 \in 1 .. Len(inbox) /\ m + 1 < n + 1
          /\ inbox'[m] = inbox[m + 1] /\ inbox'[n] = inbox[n + 1]
      BY <1>2, <2>2
    <3> QED BY Zenon, <2>2, <3>1 DEF OrderInv, SocketOrder
  <2>3. held'[Acceptor].id <= arrivals'
    BY Zenon, <1>1, <1>2 DEF OrderInv, SocketOrder
  <2>4. ASSUME Numbered(held'[Acceptor]) PROVE InboxAfter(held[Acceptor].id)'
    <3>1. ASSUME NEW n \in 1 .. Len(inbox'), Numbered(inbox'[n])
          PROVE  held'[Acceptor].id < inbox'[n].id
      <4>1. n + 1 \in 1 .. Len(inbox) /\ inbox'[n] = inbox[n + 1] /\ 1 < n + 1 /\ 1 \in 1 .. Len(inbox)
        BY <1>2
      <4> QED BY Zenon, <1>1, <2>4, <3>1, <4>1 DEF OrderInv, SocketOrder
    <3> QED BY Zenon, <3>1 DEF InboxAfter, Numbered
  <2> QED BY Zenon, <2>1, <2>2, <2>3, <2>4 DEF SocketOrder, Numbered
<1>6. ASSUME NEW w \in Workers PROVE WorkerOrder(w)'
  <2>1. WorkerOrder(w) /\ queue'[w] = queue[w] /\ held'[w] = held[w] /\ lastStarted'[w] = lastStarted[w]
    BY Zenon, <1>1 DEF OrderInv
  <2>2. \A n \in 1 .. Len(queue[w]) : Past(queue[w][n].id)'
    BY Zenon, <1>1, <1>3, <2>1 DEF WorkerOrder, Past, InboxAfter, AcceptorAfter
  <2>3. held[w] # Nothing => Past(held[w].id)'
    BY Zenon, <1>1, <1>3, <2>1 DEF WorkerOrder, Past, InboxAfter, AcceptorAfter
  <2>4. Past(lastStarted[w])'
    BY Zenon, <1>1, <1>3, <2>1 DEF WorkerOrder, Past, InboxAfter, AcceptorAfter
  <2> QED BY Zenon, <2>1, <2>2, <2>3, <2>4 DEF WorkerOrder, QueueAfter
<1> QED BY Zenon, <1>4, <1>5, <1>6 DEF OrderInv

\* The acceptor puts the item it holds at the end of its worker's queue.
LEMMA SendKeepsOrder ==
  ASSUME IndInv, OrderInv, task[Acceptor] = "send", NEW v \in Workers,
         queue' = [queue EXCEPT ![v] = Append(@, held[Acceptor])],
         held' = [held EXCEPT ![Acceptor] = Nothing], Goto(Acceptor, "check"),
         UNCHANGED <<serverActive, inbox, lastStarted, conf, arrivals>>
  PROVE  OrderInv'
<1>1. PICK i : i = held[Acceptor]
  BY Zenon
<1>2. /\ i.kind = "data" /\ Numbered(i) /\ i.id \in Nat /\ i.id <= arrivals /\ InboxAfter(i.id)
      /\ \A w \in Workers : lastStarted[w] < i.id /\ (held[w] # Nothing => held[w].id < i.id)
                            /\ \A n \in 1 .. Len(queue[w]) : queue[w][n].id < i.id
  BY Zenon, <1>1, Ids DEF OrderInv, Selected, SocketOrder, WorkerOrder, Past, AcceptorAfter, Numbered
<1>3. /\ held'[Acceptor] = Nothing /\ task'[Acceptor] = "check"
      /\ \A w \in Workers : held'[w] = held[w]
  <2>1. held \in [Tasks -> Item] /\ task \in [Tasks -> Stages]
    BY Zenon DEF IndInv, TypeOK
  <2> QED BY Zenon, <2>1, TaskSets DEF Goto
<1>4. /\ queue[v] \in Seq(Work) /\ i \in Work /\ queue'[v] = Append(queue[v], i)
      /\ \A w \in Workers : w # v => queue'[w] = queue[w]
  <2>1. queue \in [Workers -> Seq(Work)] /\ held[Acceptor] \in Work
    BY Zenon, TaskSets DEF IndInv, Contents
  <2> QED BY Zenon, <1>1, <2>1
<1>5. /\ Len(queue[v]) \in Nat /\ Len(queue'[v]) = Len(queue[v]) + 1
      /\ queue'[v][Len(queue[v]) + 1] = i
      /\ \A n \in 1 .. Len(queue'[v]) : n \in 1 .. Len(queue[v]) \/ n = Len(queue[v]) + 1
      /\ \A n \in 1 .. Len(queue[v]) : queue'[v][n] = queue[v][n]
  BY <1>4
<1>6. ~Numbered(Nothing) /\ Nothing.id = 0 /\ Nothing.kind = "none"
  BY Zenon DEF Numbered, Nothing
<1>7. ASSUME NEW k PROVE Past(k) => Past(k)'
  BY Zenon, <1>3, <1>6 DEF InboxAfter, AcceptorAfter, Past, Numbered
<1>8. Past(i.id)'
  BY Zenon, <1>2, <1>3, <1>6 DEF InboxAfter, AcceptorAfter, Past, Numbered
<1>9. Selected'
  <2>1. Known(held[Acceptor])' /\ \A n \in 1 .. Len(inbox') : Known(inbox[n])'
    BY Zenon, <1>3, <1>6 DEF OrderInv, Selected, Known
  <2>2. ASSUME NEW w \in Workers
        PROVE  \A n \in 1 .. Len(queue'[w]) : queue'[w][n].kind = "data"
    <3>1. CASE w = v
      BY <1>2, <1>5, <3>1 DEF OrderInv, Selected
    <3>2. CASE w # v
      BY <1>4, <3>2 DEF OrderInv, Selected
    <3> QED BY Zenon, <3>1, <3>2
  <2> QED BY <1>3, <2>1, <2>2 DEF OrderInv, Selected
<1>10. SocketOrder'
  <2>1. held'[Acceptor].id <= arrivals' /\ ~Numbered(held'[Acceptor])
    BY <1>3, <1>6, Ids
  <2> QED BY Zenon, <2>1 DEF OrderInv, SocketOrder, Numbered
<1>11. ASSUME NEW w \in Workers PROVE WorkerOrder(w)'
  <2>0. WorkerOrder(w) /\ held'[w] = held[w] /\ lastStarted'[w] = lastStarted[w]
    BY Zenon, <1>3 DEF OrderInv
  <2>1. Past(lastStarted[w])' /\ (held[w] # Nothing => Past(held[w].id)')
    BY Zenon, <1>3, <1>7, <2>0 DEF WorkerOrder, Past, InboxAfter, AcceptorAfter
  <2>2. CASE w # v
    <3>1. queue'[w] = queue[w]
      BY Zenon, <1>4, <2>2
    <3>2. \A n \in 1 .. Len(queue[w]) : Past(queue[w][n].id)'
      BY Zenon, <1>7, <2>0, <3>1 DEF WorkerOrder, Past, InboxAfter, AcceptorAfter
    <3> QED BY Zenon, <2>0, <2>1, <3>1, <3>2 DEF WorkerOrder, QueueAfter
  <2>3. CASE w = v
    <3>1. ASSUME NEW n \in 1 .. Len(queue'[v]) PROVE Past(queue[v][n].id)'
      <4>1. PICK k : k = queue'[v][n].id
        BY Zenon
      <4>2. Past(k)'
        <5>1. CASE n = Len(queue[v]) + 1
          BY Zenon, <1>5, <1>8, <4>1, <5>1 DEF Past, InboxAfter, AcceptorAfter
        <5>2. CASE n \in 1 .. Len(queue[v])
          BY Zenon, <1>5, <1>7, <2>0, <2>3, <4>1, <5>2 DEF WorkerOrder
        <5> QED BY Zenon, <1>5, <5>1, <5>2
      <4> QED BY Zenon, <4>1, <4>2 DEF Past, InboxAfter, AcceptorAfter
    <3>2. ASSUME NEW m \in 1 .. Len(queue'[v]), NEW n \in 1 .. Len(queue'[v]), m < n
          PROVE  queue'[v][m].id < queue'[v][n].id
      <4>1. m \in 1 .. Len(queue[v])
        BY <1>5, <3>2
      <4>2. CASE n = Len(queue[v]) + 1
        BY Zenon, <1>2, <1>5, <4>1, <4>2
      <4>3. CASE n \in 1 .. Len(queue[v])
        BY Zenon, <1>5, <2>0, <2>3, <3>2, <4>1, <4>3 DEF WorkerOrder
      <4> QED BY Zenon, <1>5, <4>2, <4>3
    <3>3. ASSUME NEW k, QueueAfter(v, k), k < i.id PROVE \A n \in 1 .. Len(queue'[v]) : k < queue'[v][n].id
      BY Zenon, <1>5, <3>3 DEF QueueAfter
    <3>4. QueueAfter(v, lastStarted[v])' /\ (held[v] # Nothing => QueueAfter(v, held[v].id)')
      BY Zenon, <1>2, <2>0, <2>3, <3>3 DEF WorkerOrder, QueueAfter
    <3> QED BY Zenon, <2>0, <2>1, <2>3, <3>1, <3>2, <3>4 DEF WorkerOrder
  <2> QED BY Zenon, <2>2, <2>3
<1> QED BY Zenon, <1>9, <1>10, <1>11 DEF OrderInv

\* A dispatcher takes the oldest item of its queue.
LEMMA TakeKeepsOrder ==
  ASSUME IndInv, OrderInv, NEW v \in Workers, task[v] = "recv", queue[v] # <<>>,
         held' = [held EXCEPT ![v] = Head(queue[v])],
         queue' = [queue EXCEPT ![v] = Tail(@)], Goto(v, "received"),
         UNCHANGED <<serverActive, inbox, lastStarted, conf, arrivals>>
  PROVE  OrderInv'
<1>1. /\ queue[v] \in Seq(Work) /\ queue'[v] = Tail(queue[v])
      /\ \A w \in Workers : w # v => queue'[w] = queue[w]
  <2>1. queue \in [Workers -> Seq(Work)]
    BY Zenon DEF IndInv, Contents
  <2> QED BY Zenon, <2>1
<1>2. /\ Len(queue[v]) \in Nat /\ Len(queue'[v]) = Len(queue[v]) - 1 /\ 1 \in 1 .. Len(queue[v])
      /\ \A n \in 1 .. Len(queue'[v]) : queue'[v][n] = queue[v][n + 1] /\ n + 1 \in 1 .. Len(queue[v])
      /\ Head(queue[v]) = queue[v][1]
  <2>1. PICK q : q = queue[v] /\ q \in Seq(Work) /\ q # <<>>
    BY Zenon, <1>1
  <2>2. /\ Len(q) \in Nat /\ Len(Tail(q)) = Len(q) - 1 /\ 1 \in 1 .. Len(q) /\ Head(q) = q[1]
        /\ \A n \in 1 .. Len(Tail(q)) : Tail(q)[n] = q[n + 1] /\ n + 1 \in 1 .. Len(q)
    BY <2>1
  <2> QED BY Zenon, <1>1, <2>1, <2>2
<1>3. /\ held'[v] = queue[v][1] /\ held'[Acceptor] = held[Acceptor] /\ task'[Acceptor] = task[Acceptor]
      /\ \A w \in Workers : w # v => held'[w] = held[w]
  <2>1. held \in [Tasks -> Item] /\ task \in [Tasks -> Stages]
    BY Zenon DEF IndInv, TypeOK
  <2> QED BY Zenon, <1>2, <2>1, TaskSets DEF Goto
<1>4. ASSUME NEW k PROVE Past(k) => Past(k)'
  BY Zenon, <1>3 DEF InboxAfter, AcceptorAfter, Past, Numbered
<1>5. Selected'
  <2>1. Known(held[Acceptor])' /\ \A n \in 1 .. Len(inbox') : Known(inbox[n])'
    BY Zenon, <1>3 DEF OrderInv, Selected, Known
  <2>2. ASSUME NEW w \in Workers
        PROVE  /\ \A n \in 1 .. Len(queue'[w]) : queue'[w][n].kind = "data"
               /\ held'[w] # Nothing => held'[w].kind = "data"
    <3>1. CASE w = v
      BY <1>2, <1>3, <3>1 DEF OrderInv, Selected
    <3>2. CASE w # v
      BY <1>1, <1>3, <3>2 DEF OrderInv, Selected
    <3> QED BY Zenon, <3>1, <3>2
  <2> QED BY Zenon, <1>3, <2>1, <2>2 DEF OrderInv, Selected
<1>6. SocketOrder'
  BY Zenon, <1>3 DEF OrderInv, SocketOrder, InboxAfter, Numbered
<1>7. ASSUME NEW w \in Workers PROVE WorkerOrder(w)'
  <2>0. WorkerOrder(w) /\ lastStarted'[w] = lastStarted[w]
    BY Zenon DEF OrderInv
  <2>1. Past(lastStarted[w])'
    BY Zenon, <1>4, <2>0 DEF WorkerOrder, Past, InboxAfter, AcceptorAfter
  <2>2. CASE w # v
    <3>1. queue'[w] = queue[w] /\ held'[w] = held[w]
      BY Zenon, <1>1, <1>3, <2>2
    <3>2. /\ \A n \in 1 .. Len(queue[w]) : Past(queue[w][n].id)'
          /\ held[w] # Nothing => Past(held[w].id)'
      BY Zenon, <1>4, <2>0, <3>1 DEF WorkerOrder, Past, InboxAfter, AcceptorAfter
    <3> QED BY Zenon, <2>0, <2>1, <3>1, <3>2 DEF WorkerOrder, QueueAfter
  <2>3. CASE w = v
    <3>1. ASSUME NEW n \in 1 .. Len(queue'[v]) PROVE Past(queue[v][n].id)'
      <4>1. PICK k : k = queue'[v][n].id
        BY Zenon
      <4>2. Past(k)
        BY Zenon, <1>2, <2>0, <2>3, <4>1 DEF WorkerOrder
      <4> QED BY Zenon, <1>4, <4>1, <4>2 DEF Past, InboxAfter, AcceptorAfter
    <3>2. ASSUME NEW m \in 1 .. Len(queue'[v]), NEW n \in 1 .. Len(queue'[v]), m < n
          PROVE  queue'[v][m].id < queue'[v][n].id
      <4>1. /\ m + 1 \in 1 .. Len(queue[v]) /\ n + 1 \in 1 .. Len(queue[v]) /\ m + 1 < n + 1
            /\ queue'[v][m] = queue[v][m + 1] /\ queue'[v][n] = queue[v][n + 1]
        BY <1>2, <3>2
      <4> QED BY Zenon, <2>0, <2>3, <4>1 DEF WorkerOrder
    <3>3. Past(held[v].id)'
      <4>1. PICK k : k = held'[v].id
        BY Zenon
      <4>2. Past(k)
        BY Zenon, <1>2, <1>3, <2>0, <2>3, <4>1 DEF WorkerOrder
      <4> QED BY Zenon, <1>4, <4>1, <4>2 DEF Past, InboxAfter, AcceptorAfter
    <3>4. QueueAfter(v, held[v].id)'
      <4>1. ASSUME NEW n \in 1 .. Len(queue'[v]) PROVE held'[v].id < queue'[v][n].id
        <5>1. n + 1 \in 1 .. Len(queue[v]) /\ 1 < n + 1 /\ queue'[v][n] = queue[v][n + 1]
          BY <1>2
        <5> QED BY Zenon, <1>2, <1>3, <2>0, <2>3, <5>1 DEF WorkerOrder
      <4> QED BY Zenon, <4>1 DEF QueueAfter
    <3>5. QueueAfter(v, lastStarted[v])' /\ lastStarted'[v] < held'[v].id
      BY Zenon, <1>2, <1>3, <2>0, <2>3 DEF WorkerOrder, QueueAfter
    <3> QED BY Zenon, <2>1, <2>3, <3>1, <3>2, <3>3, <3>4, <3>5 DEF WorkerOrder
  <2> QED BY Zenon, <2>2, <2>3
<1> QED BY Zenon, <1>5, <1>6, <1>7 DEF OrderInv

\* What arrives at the socket is put behind what is there; the wake-up datagram
\* has no number and comes after the flag is down.
LEMMA AppendKeepsOrder ==
  ASSUME IndInv, OrderInv, NEW i \in Work, inbox' = Append(inbox, i), Known(i),
         \/ i.id = arrivals + 1 /\ arrivals' = arrivals + 1
         \/ ~Numbered(i) /\ i.id = 0 /\ arrivals' = arrivals,
         UNCHANGED <<serverActive, task, held, queue, lastStarted, conf>>
  PROVE  OrderInv'
<1>1. inbox \in Seq(Work) /\ arrivals \in Nat
  BY Zenon, Ids
<1>2. /\ Len(inbox) \in Nat /\ Len(inbox') = Len(inbox) + 1
      /\ inbox'[Len(inbox) + 1] = i
      /\ \A n \in 1 .. Len(inbox') : n \in 1 .. Len(inbox) \/ n = Len(inbox) + 1
      /\ \A n \in 1 .. Len(inbox) : inbox'[n] = inbox[n]
  BY <1>1
<1>3. arrivals' \in Nat /\ arrivals <= arrivals' /\ i.id <= arrivals' /\ (Numbered(i) => arrivals < i.id)
  BY <1>1
<1>4. ASSUME NEW k \in Nat, k <= arrivals, InboxAfter(k) PROVE InboxAfter(k)'
  <2>1. ASSUME NEW n \in 1 .. Len(inbox'), Numbered(inbox'[n]) PROVE k < inbox'[n].id
    <3>1. CASE n = Len(inbox) + 1
      BY <1>1, <1>2, <1>3, <1>4, <2>1, <3>1
    <3>2. CASE n \in 1 .. Len(inbox)
      BY Zenon, <1>2, <1>4, <2>1, <3>2 DEF InboxAfter
    <3> QED BY Zenon, <1>2, <3>1, <3>2
  <2> QED BY Zenon, <2>1 DEF InboxAfter, Numbered
<1>5. ASSUME NEW k \in Nat, Past(k) PROVE Past(k)'
  BY <1>1, <1>3, <1>4, <1>5 DEF Past, AcceptorAfter, Numbered
<1>6. Selected'
  <2>1. ASSUME NEW n \in 1 .. Len(inbox') PROVE Known(inbox[n])'
    BY Zenon, <1>2 DEF OrderInv, Selected, Known
  <2> QED BY Zenon, <2>1 DEF OrderInv, Selected, Known
<1>7. SocketOrder'
  <2>1. ASSUME NEW n \in 1 .. Len(inbox') PROVE inbox'[n].id <= arrivals'
    BY <1>1, <1>2, <1>3, Ids DEF OrderInv, SocketOrder
  <2>2. ASSUME NEW m \in 1 .. Len(inbox'), NEW n \in 1 .. Len(inbox'), m < n,
               Numbered(inbox'[m]), Numbered(inbox'[n])
        PROVE  inbox'[m].id < inbox'[n].id
    <3>1. m \in 1 .. Len(inbox) /\ inbox[m].id <= arrivals /\ inbox[m].id \in Nat /\ inbox'[m] = inbox[m]
      BY <1>2, <2>2, Ids DEF OrderInv, SocketOrder
    <3>2. CASE n = Len(inbox) + 1
      BY <1>1, <1>2, <1>3, <2>2, <3>1, <3>2
    <3>3. CASE n \in 1 .. Len(inbox)
      BY Zenon, <1>2, <2>2, <3>1, <3>3 DEF OrderInv, SocketOrder
    <3> QED BY Zenon, <1>2, <3>2, <3>3
  <2>3. held'[Acceptor].id <= arrivals' /\ (Numbered(held'[Acceptor]) => InboxAfter(held[Acceptor].id)')
    <3>1. held[Acceptor].id \in Nat /\ held[Acceptor].id <= arrivals
      BY Zenon, Ids DEF OrderInv, SocketOrder
    <3> QED BY <1>1, <1>3, <1>4, <3>1 DEF OrderInv, SocketOrder, InboxAfter
  <2> QED BY Zenon, <2>1, <2>2, <2>3 DEF SocketOrder, Numbered
<1>8. ASSUME NEW w \in Workers PROVE WorkerOrder(w)'
  <2>0. WorkerOrder(w) /\ queue'[w] = queue[w] /\ held'[w] = held[w] /\ lastStarted'[w] = lastStarted[w]
    BY Zenon DEF OrderInv
  <2>1. \A n \in 1 .. Len(queue[w]) : Past(queue[w][n].id)'
    BY Zenon, <1>5, <2>0, Ids DEF WorkerOrder, Past, InboxAfter, AcceptorAfter
  <2>2. held[w] # Nothing => Past(held[w].id)'
    BY Zenon, <1>5, <2>0, Ids DEF WorkerOrder, Past, InboxAfter, AcceptorAfter
  <2>3. Past(lastStarted[w])'
    BY Zenon, <1>5, <2>0, Ids DEF WorkerOrder, Past, InboxAfter, AcceptorAfter
  <2> QED BY Zenon, <2>0, <2>1, <2>2, <2>3 DEF WorkerOrder, QueueAfter
<1> QED BY Zenon, <1>6, <1>7, <1>8 DEF OrderInv

\* Select drops the item, or passes data on: late and wake-up items are seen
\* with the flag down, and unroutable ones are dropped.
LEMMA SelectKeepsOrder ==
  ASSUME IndInv, OrderInv, Select
  PROVE  OrderInv'
<1>0. /\ held \in [Tasks -> Work \cup {Nothing}] /\ task \in [Tasks -> Stages]
      /\ queue \in [Workers -> Seq(Work)]
      /\ held[Acceptor] \in Work /\ UNCHANGED <<conf, inbox, arrivals, serverActive, lastStarted>>
  BY Zenon, TaskSets DEF IndInv, TypeOK, Contents, Select, stateVars
<1>1. CASE End(Acceptor)
  <2>1. /\ held'[Acceptor] = Nothing /\ task'[Acceptor] = "ended"
        /\ \A w \in Workers : held'[w] = held[w] /\ queue'[w] = queue[w]
    BY Zenon, <1>0, <1>1, TaskSets DEF End, EndAll
  <2> QED BY Zenon, <1>0, <2>1, DropKeepsOrder
<1>2. CASE IsActive /\ (Unroutable(held[Acceptor]) \/ NoPermit(held[Acceptor].to))
  <2>1. /\ held'[Acceptor] = Nothing /\ task'[Acceptor] = "check"
        /\ \A w \in Workers : held'[w] = held[w] /\ queue'[w] = queue[w]
    BY Zenon, <1>0, <1>2, TaskSets DEF Select, Goto
  <2> QED BY Zenon, <1>0, <2>1, DropKeepsOrder
<1>3. CASE IsActive /\ ~Unroutable(held[Acceptor]) /\ ~NoPermit(held[Acceptor].to)
  <2>1. held' = held /\ queue' = queue
    BY Zenon, <1>3 DEF Select
  <2>2. held[Acceptor].kind = "data"
    BY Zenon, <1>0, <1>3 DEF OrderInv, Selected, Known, IsActive, Unroutable, Work, Kinds
  <2> QED BY Zenon, <1>0, <2>1, <2>2, DropKeepsOrder
<1> QED BY Zenon, <1>1, <1>2, <1>3 DEF Select

\* Every step keeps the order: one step per action.
LEMMA OrderStep ==
  ASSUME IndInv, OrderInv, [Next]_vars
  PROVE  OrderInv'
<1>0. /\ held \in [Tasks -> Work \cup {Nothing}] /\ task \in [Tasks -> Stages]
      /\ queue \in [Workers -> Seq(Work)]
      /\ task[Acceptor] = "send" => held[Acceptor].kind = "data"
  BY Zenon DEF IndInv, TypeOK, Contents, OrderInv, Selected
<1>1. ASSUME NEW T, EndAll(T), UNCHANGED <<serverActive, inbox, lastStarted, conf, arrivals>>
      PROVE  OrderInv'
  <2>1. \A w \in Workers : held'[w] \in {held[w], Nothing} /\ queue'[w] \in {queue[w], <<>>}
    BY Zenon, <1>0, <1>1, TaskSets DEF EndAll
  <2>2. held'[Acceptor] \in {held[Acceptor], Nothing}
    BY Zenon, <1>0, <1>1, TaskSets DEF EndAll
  <2>3. task'[Acceptor] = "send" => held'[Acceptor].kind = "data"
    BY Zenon, <1>0, <1>1, TaskSets DEF EndAll
  <2> QED BY Zenon, <1>1, <2>1, <2>2, <2>3, DropKeepsOrder
<1>2. ASSUME NEW t \in Tasks, NEW s \in Stages, Goto(t, s), t = Acceptor => s # "send",
             UNCHANGED <<serverActive, held, queue, inbox, lastStarted, conf, arrivals>>
      PROVE  OrderInv'
  <2>1. task'[Acceptor] = "send" => held'[Acceptor].kind = "data"
    BY Zenon, <1>0, <1>2, TaskSets DEF Goto
  <2> QED BY Zenon, <1>2, <2>1, DropKeepsOrder
<1>3. ASSUME UNCHANGED <<task, held, queue, inbox, lastStarted, conf, arrivals>>, serverActive' => serverActive
      PROVE  OrderInv'
  BY Zenon, <1>0, <1>3, DropKeepsOrder
<1>4. ASSUME NEW t \in Tasks, Start(t) \/ Check(t) \/ ExecuteCancel(t)
      PROVE  OrderInv'
  <2>1. CASE Start(t)
    BY Zenon, <1>2, <2>1 DEF Start, Stages
  <2>2. CASE Check(t)
    BY Zenon, <1>1, <1>2, <2>2 DEF Check, End, Stages, stateVars
  <2>3. CASE ExecuteCancel(t)
    BY Zenon, <1>1, <2>3 DEF ExecuteCancel, End, stateVars
  <2> QED BY Zenon, <1>4, <2>1, <2>2, <2>3
<1>5. CASE AcceptorStep
  <2>1. CASE Send
    <3>1. CASE End(Acceptor)
      BY Zenon, <1>1, <2>1, <3>1 DEF Send, End, stateVars
    <3>2. CASE task[held[Acceptor].to] # "ended"
      <4>1. held[Acceptor].to \in Workers
        BY Zenon, <1>0, <2>1, TaskSets, WorkIsItem DEF Send, IndInv, Contents
      <4> QED BY Zenon, <2>1, <3>2, <4>1, SendKeepsOrder DEF Send, stateVars
    <3> QED BY Zenon, <2>1, <3>1, <3>2 DEF Send
  <2> QED BY Zenon, <1>4, <1>5, <2>1, AcceptKeepsOrder, SelectKeepsOrder, TaskSets DEF AcceptorStep
<1>6. CASE StartFails
  BY Zenon, <1>1, <1>6 DEF StartFails, End
<1>7. CASE AcceptError
  BY Zenon, <1>1, <1>2, <1>7, TaskSets DEF AcceptError, End, Stages, stateVars
<1>8. CASE Arrive
  <2>1. PICK k \in {"data", "bad"}, w \in Selectable :
           /\ k = "bad" => conf.kind = "quic"
           /\ inbox' = Append(inbox, [kind |-> IF serverActive THEN k ELSE "late", id |-> arrivals + 1, to |-> w])
    BY Zenon, <1>8 DEF Arrive
  <2>2. PICK i : i = [kind |-> IF serverActive THEN k ELSE "late", id |-> arrivals + 1, to |-> w]
    BY Zenon
  <2>3. i \in Work
    <3>1. w \in Workers /\ arrivals + 1 \in 0 .. conf.arrivals
      <4>1. conf.arrivals \in Nat /\ arrivals \in 0 .. conf.arrivals
        BY Zenon, Configured DEF IndInv, TypeOK
      <4> QED BY <1>8, <4>1 DEF Arrive, Selectable
    <3> QED BY Zenon, <2>2, <3>1 DEF Work, Kinds
  <2>4. Known(i)
    BY Zenon, <2>1, <2>2 DEF Known
  <2>5. i.id = arrivals + 1 /\ inbox' = Append(inbox, i)
    BY Zenon, <2>1, <2>2
  <2> QED BY Zenon, <1>8, <2>3, <2>4, <2>5, AppendKeepsOrder DEF Arrive, stateVars
<1>9. ASSUME NEW w \in Workers, DispatcherStep(w)
      PROVE  OrderInv'
  <2>0. w \in Tasks /\ w # Acceptor
    BY Zenon, TaskSets
  <2>1. CASE Take(w)
    BY Zenon, <1>1, <2>1, TakeKeepsOrder DEF Take, End, stateVars
  <2>2. CASE TestTaken(w)
    BY Zenon, <1>1, <1>2, <2>0, <2>2 DEF TestTaken, End, Stages, stateVars
  <2>3. CASE SpawnHandler(w)
    <3>1. held[w] # Nothing /\ held'[w] = Nothing /\ held'[Acceptor] = held[Acceptor]
          /\ task'[Acceptor] = task[Acceptor]
      BY Zenon, <1>0, <2>0, <2>3, TaskSets DEF SpawnHandler, Goto, IndInv, Contents
    <3>2. lastStarted'[w] = held[w].id
          /\ \A v \in Workers : v # w => lastStarted'[v] = lastStarted[v] /\ held'[v] = held[v]
      BY Zenon, <1>0, <2>0, <2>3, TaskSets DEF SpawnHandler, IndInv, TypeOK
    <3>3. UNCHANGED <<conf, inbox, arrivals, serverActive, queue>>
      BY Zenon, <2>3 DEF SpawnHandler, stateVars
    <3> QED BY Zenon, <1>0, <3>1, <3>2, <3>3, DropKeepsOrder
  <2> QED BY Zenon, <1>4, <1>9, <2>0, <2>1, <2>2, <2>3 DEF DispatcherStep
<1>10. ASSUME NEW w \in Workers, HandlerEnds(w) \/ StopWorker(w)
       PROVE  OrderInv'
  BY Zenon, <1>1, <1>3, <1>10 DEF HandlerEnds, StopWorker, stateVars
<1>11. CASE CloseSockets
  <2>1. CASE UNCHANGED inbox
    BY Zenon, <1>3, <1>11, <2>1 DEF CloseSockets
  <2>2. ASSUME NEW w \in Workers, inbox' = Append(inbox, [kind |-> "wake", id |-> 0, to |-> w])
        PROVE  OrderInv'
    <3>1. PICK i : i = [kind |-> "wake", id |-> 0, to |-> w]
      BY Zenon
    <3>2. i \in Work
      <4>1. conf.arrivals \in Nat
        BY Zenon, Configured DEF IndInv, TypeOK
      <4> QED BY <3>1, <4>1 DEF Work, Kinds
    <3>3. ~serverActive
      BY Zenon, <1>11 DEF CloseSockets, IndInv, Flags
    <3>4. Known(i) /\ ~Numbered(i) /\ i.id = 0 /\ inbox' = Append(inbox, i)
      BY Zenon, <2>2, <3>1, <3>3 DEF Known, Numbered
    <3> QED BY Zenon, <1>11, <3>2, <3>4, AppendKeepsOrder DEF CloseSockets
  <2> QED BY Zenon, <1>11, <2>1, <2>2 DEF CloseSockets
<1>12. CASE CloseBegin \/ CloseTasks \/ DropRuntime
  BY Zenon, <1>3, <1>12 DEF CloseBegin, CloseTasks, DropRuntime
<1>13. CASE UNCHANGED vars
  BY Zenon, <1>3, <1>13 DEF vars, stateVars
<1> QED BY Zenon, <1>4, <1>5, <1>6, <1>7, <1>8, <1>9, <1>10, <1>11, <1>12, <1>13 DEF Next, CloseStep

\* At the start nothing has arrived.
LEMMA OrderInit ==
  ASSUME Init
  PROVE  OrderInv
<1>1. /\ inbox = <<>> /\ arrivals = 0 /\ held[Acceptor] = Nothing /\ task[Acceptor] = "queued"
      /\ \A w \in Workers : held[w] = Nothing /\ queue[w] = <<>> /\ lastStarted[w] = 0
  BY Zenon, TaskSets DEF Init
<1>2. Nothing.kind = "none" /\ Nothing.id = 0 /\ Len(<<>>) = 0
  BY Zenon DEF Nothing
<1>3. Selected /\ SocketOrder
  BY <1>1, <1>2 DEF Selected, SocketOrder, Known, Numbered
<1>4. ASSUME NEW w \in Workers PROVE WorkerOrder(w)
  BY <1>1, <1>2 DEF WorkerOrder, Past, InboxAfter, AcceptorAfter, QueueAfter, Numbered
<1> QED BY Zenon, <1>3, <1>4 DEF OrderInv

\* From the socket through the acceptor and the queues to the handlers, items
\* stay in the order in which they arrived (Accept, Send, Take, SpawnHandler).
THEOREM OrderInvariance == Spec => [](IndInv /\ OrderInv)
BY InitKeeps, StepKeeps, OrderInit, OrderStep, PTL DEF Spec

\* A worker starts handlers only for data that arrived before the close, in the
\* order of arrival, for every number of workers, limit and capacity, however
\* accepts, sends, drops, cancels and stops interleave (SpawnHandler).
THEOREM HandledInOrderHolds == Spec => HandledInOrder
<1> DEFINE InOrder(w) == handlers'[w] > handlers[w] => held[w].kind = "data" /\ lastStarted'[w] > lastStarted[w]
<1>1. ASSUME IndInv, OrderInv, [Next]_vars
      PROVE  [\A w \in Workers : InOrder(w)]_vars
  <2> SUFFICES ASSUME NEW w \in Workers, handlers'[w] > handlers[w]
               PROVE  held[w].kind = "data" /\ lastStarted'[w] > lastStarted[w]
    BY Zenon
  <2>1. handlers[w] \in Nat /\ handlers \in [Workers -> Nat]
    BY Zenon, <1>1 DEF IndInv, TypeOK
  <2>2. handlers' # handlers
    BY <2>1
  <2>3. PICK v \in Workers : SpawnHandler(v) \/ HandlerEnds(v) \/ StopWorker(v)
    BY Zenon, <1>1, <2>2 DEF Next, vars, stateVars, AcceptorStep, StartFails, AcceptError, Arrive, DispatcherStep,
       ExecuteCancel, CloseBegin, CloseStep, CloseSockets, CloseTasks, DropRuntime, Start, Check, Accept,
       Select, Send, Take, TestTaken
  <2>4. ~HandlerEnds(v) /\ ~StopWorker(v)
    BY <2>1 DEF HandlerEnds, StopWorker
  <2>5. SpawnHandler(v) /\ v = w
    BY <2>1, <2>3, <2>4 DEF SpawnHandler
  <2>6. lastStarted'[w] = held[w].id /\ task[w] = "send"
    BY Zenon, <1>1, <2>5 DEF SpawnHandler, IndInv, TypeOK
  <2>7. held[w] # Nothing
    BY Zenon, <1>1, <2>6, TaskSets DEF IndInv, Contents
  <2>8. held[w].kind = "data" /\ lastStarted[w] < held[w].id
    BY Zenon, <1>1, <2>7 DEF OrderInv, Selected, WorkerOrder
  <2> QED BY Zenon, <1>1, <2>6, <2>8, Ids
<1> QED BY <1>1, OrderInvariance, PTL DEF Spec, HandledInOrder
=============================================================================

------------------------- MODULE NativeServerProofs -------------------------
(***************************************************************************)
(* The safety properties of NativeServer for every number of workers and    *)
(* every server configuration.                                              *)
(***************************************************************************)
EXTENDS NativeServer, TLAPS

\* The stages between the permit's acquisition and its transfer to a handler.
HoldStages == {"acquired", "recv", "received", "deliver"}

\* What a socket can receive while the server is active.
Live == IF conf.kind = "quic" THEN {"data", "bad"} ELSE {"data"}

\* Permits are counted where they are held, within the limit.
Balance == conf.max > 0 => \A w \in Workers :
             /\ permits[w] = handlers[w] + (IF holding[w] THEN 1 ELSE 0)
             /\ permits[w] <= conf.max

\* A loop owns a guard in exactly the stages after acquire.
Guards == \A w \in Workers : holding[w] <=> task[w] \in HoldStages

\* Nothing late is in a socket, or with a loop, before the flag is cleared; what
\* has passed the last test never is.
Fresh == /\ serverActive => /\ inbox \in [Workers -> Seq(Live)]
                            /\ \A w \in Workers : task[w] = "received" => item[w] \in Live
         /\ \A w \in Workers : task[w] = "deliver" => item[w] \in Live

\* A handler is started late once; then its loop is at the test of the flag.
Late == /\ serverActive => \A w \in Workers : lateStarts[w] = 0
        /\ \A w \in Workers : /\ lateStarts[w] <= 1
                              /\ lateStarts[w] # 0 => task[w] \in {"check", "ended"}

\* No socket is shut down before close() has begun.
Registry == serverActive => closing = "no" /\ shutSockets = {}

\* A lookup at work found the flag set; the caller's own socket stays registered
\* until close() begins.
Lookup == LookingUp => /\ lookup.live
                       /\ (serverActive /\ lookup.own) => /\ lookup.stage = "thread"
                                                          /\ lookup.by \in threadSockets

IndInv == TypeOK /\ Balance /\ Guards /\ Fresh /\ Late /\ Registry /\ Lookup

-----------------------------------------------------------------------------
(* Queues per worker.                                                      *)

\* Adding an element of S to one worker's socket keeps the sockets' contents in S.
LEMMA AppendKeeps ==
  ASSUME NEW S, NEW f \in [Workers -> Seq(S)], NEW w \in Workers, NEW e \in S
  PROVE  [f EXCEPT ![w] = Append(@, e)] \in [Workers -> Seq(S)]
OBVIOUS

\* Reading one worker's socket gives an element of S and leaves elements of S.
LEMMA TailKeeps ==
  ASSUME NEW S, NEW f \in [Workers -> Seq(S)], NEW w \in Workers, f[w] # <<>>
  PROVE  /\ Head(f[w]) \in S
         /\ [f EXCEPT ![w] = Tail(@)] \in [Workers -> Seq(S)]
OBVIOUS

-----------------------------------------------------------------------------
(* Steps of a listener task.                                               *)

\* The end of a task gives back its guard and keeps the invariant.
LEMMA EndStep ==
  ASSUME IndInv, NEW w \in Workers, End(w), cancelled' \in [Workers -> BOOLEAN],
         UNCHANGED <<stateVars, registryVars, inbox, handlers, lateStarts, conf, lookup, arrivals>>
  PROVE  IndInv'
<1> USE DEF IndInv, stateVars, registryVars
<1>0. conf.max \in Nat
  BY Zenon, NativeAssumption DEF TypeOK, Config
<1>1. /\ task' = [task EXCEPT ![w] = "ended"]
      /\ holding' = [holding EXCEPT ![w] = FALSE]
      /\ item' = [item EXCEPT ![w] = "none"]
      /\ permits' = [permits EXCEPT ![w] = IF holding[w] /\ conf.max > 0 THEN @ - 1 ELSE @]
  BY Zenon DEF End, Goto, DropGuard
<1>2. TypeOK'
  <2>1. permits' \in [Workers -> Nat]
    BY <1>0, <1>1 DEF TypeOK, Balance
  <2> QED BY <1>1, <2>1 DEF TypeOK, Stages, Items
<1>3. Balance'
  BY SMTT(30), <1>0, <1>1 DEF TypeOK, Balance
<1>4. Guards'
  BY Zenon, <1>1 DEF TypeOK, Guards, HoldStages
<1>5. Fresh'
  BY Zenon, <1>1 DEF TypeOK, Fresh, Live
<1>6. Late'
  BY Zenon, <1>1 DEF TypeOK, Late
<1> QED BY Zenon, <1>2, <1>3, <1>4, <1>5, <1>6 DEF Registry, Lookup, LookingUp

\* So does going back to the loop's condition from an iteration that owns a guard.
LEMMA IterationStep ==
  ASSUME IndInv, NEW w \in Workers, task[w] \in HoldStages, NextIteration(w),
         UNCHANGED <<stateVars, registryVars, cancelled, inbox, handlers, lateStarts, conf, lookup, arrivals>>
  PROVE  IndInv'
<1> USE DEF IndInv, stateVars, registryVars
<1>0. conf.max \in Nat
  BY Zenon, NativeAssumption DEF TypeOK, Config
<1>1. /\ task' = [task EXCEPT ![w] = "check"]
      /\ holding' = [holding EXCEPT ![w] = FALSE]
      /\ item' = [item EXCEPT ![w] = "none"]
      /\ permits' = [permits EXCEPT ![w] = IF holding[w] /\ conf.max > 0 THEN @ - 1 ELSE @]
  BY Zenon DEF NextIteration, Goto, DropGuard
<1>2. TypeOK'
  <2>1. permits' \in [Workers -> Nat]
    BY <1>0, <1>1 DEF TypeOK, Balance
  <2> QED BY SMTT(30), <1>1, <2>1 DEF TypeOK, Stages, Items
<1>3. Balance'
  BY SMTT(30), <1>0, <1>1 DEF TypeOK, Balance
<1>4. Guards'
  BY Zenon, <1>1 DEF TypeOK, Guards, HoldStages
<1>5. Fresh'
  BY Zenon, <1>1 DEF TypeOK, Fresh, Live
<1>6. Late'
  BY Zenon, <1>1 DEF TypeOK, Late, HoldStages
<1> QED BY Zenon, <1>2, <1>3, <1>4, <1>5, <1>6 DEF Registry, Lookup, LookingUp

\* A step to a stage that needs neither a guard nor an item more or less.
LEMMA MoveStep ==
  ASSUME IndInv, NEW w \in Workers, NEW s \in Stages, Goto(w, s),
         s \in HoldStages <=> task[w] \in HoldStages,
         s \notin {"received", "deliver"}, lateStarts[w] = 0,
         UNCHANGED <<stateVars, holding, item, permits, cancelled, inbox, handlers, lateStarts,
                     conf, lookup, arrivals, shutSockets>>,
         threadSockets' \subseteq Workers, threadSockets \subseteq threadSockets',
         poolSockets' \subseteq Workers
  PROVE  IndInv'
<1> USE DEF IndInv, stateVars
<1>1. task' = [task EXCEPT ![w] = s]
  BY Zenon DEF Goto
<1>2. TypeOK'
  BY <1>1 DEF TypeOK
<1>3. Balance'
  BY Zenon DEF Balance
<1>4. Guards'
  BY Zenon, <1>1 DEF TypeOK, Guards
<1>5. Fresh'
  BY Zenon, <1>1 DEF TypeOK, Fresh, Live
<1>6. Late'
  BY Zenon, <1>1 DEF TypeOK, Late
<1>7. Lookup'
  BY Zenon DEF Lookup, LookingUp
<1> QED BY Zenon, <1>2, <1>3, <1>4, <1>5, <1>6, <1>7 DEF Registry

\* The tests of is_active: what passes the last one while the flag is set is
\* live, and a loop that has started a handler late passes none.
LEMMA TestActiveStep ==
  ASSUME IndInv, NEW w \in Workers, TestActive(w)
  PROVE  IndInv'
<1> USE DEF IndInv
<1> USE DEF stateVars, registryVars
<1>1. CASE ~IsActive
  BY SMTT(30), <1>1, EndStep DEF TestActive, TypeOK
<1>2. CASE IsActive /\ task[w] = "check"
  <2>1. Goto(w, "acquire") /\ UNCHANGED <<holding, item, permits>>
    BY Zenon, <1>2 DEF TestActive
  <2>2. lateStarts[w] = 0
    BY Zenon, <1>2 DEF IsActive, Late
  <2> QED BY Zenon, <1>2, <2>1, <2>2, MoveStep DEF TestActive, Stages, HoldStages, TypeOK
<1>3. CASE IsActive /\ task[w] = "acquired"
  <2>1. Goto(w, "recv") /\ UNCHANGED <<holding, item, permits>>
    BY Zenon, <1>3 DEF TestActive
  <2>2. lateStarts[w] = 0
    BY Zenon, <1>3 DEF IsActive, Late
  <2> QED BY Zenon, <1>3, <2>1, <2>2, MoveStep DEF TestActive, Stages, HoldStages, TypeOK
<1>4. CASE IsActive /\ task[w] = "received"
  <2>1. /\ task' = [task EXCEPT ![w] = "deliver"]
        /\ UNCHANGED <<holding, item, permits, stateVars, registryVars, cancelled, inbox, handlers,
                       lateStarts, conf, lookup, arrivals>>
    BY Zenon, <1>4 DEF TestActive, Goto
  <2>2. TypeOK'
    BY <2>1 DEF TypeOK, Stages
  <2>3. Guards'
    BY Zenon, <1>4, <2>1 DEF TypeOK, Guards, HoldStages
  <2>4. Fresh'
    BY Zenon, <1>4, <2>1 DEF TypeOK, Fresh, Live, IsActive
  <2>5. Late'
    BY Zenon, <1>4, <2>1 DEF TypeOK, Late, IsActive
  <2> QED BY Zenon, <2>1, <2>2, <2>3, <2>4, <2>5 DEF Balance, Registry, Lookup, LookingUp
<1> QED BY Zenon, <1>1, <1>2, <1>3, <1>4 DEF TestActive

\* A permit is taken below the limit only, and with it the guard.
LEMMA AcquireStep ==
  ASSUME IndInv, NEW w \in Workers, Acquire(w)
  PROVE  IndInv'
<1> USE DEF IndInv, stateVars, registryVars
<1>0. conf.max \in Nat
  BY Zenon, NativeAssumption DEF TypeOK, Config
<1>1. /\ task[w] = "acquire" /\ (conf.max > 0 => permits[w] < conf.max)
      /\ permits' = [permits EXCEPT ![w] = IF conf.max > 0 THEN @ + 1 ELSE @]
      /\ holding' = [holding EXCEPT ![w] = TRUE]
      /\ task' = [task EXCEPT ![w] = "acquired"]
      /\ UNCHANGED <<stateVars, item, registryVars, cancelled, inbox, handlers,
                     lateStarts, conf, lookup, arrivals>>
  BY Zenon DEF Acquire, Goto
<1>2. TypeOK'
  BY SMTT(30), <1>0, <1>1 DEF TypeOK, Stages
<1>3. ~holding[w]
  BY Zenon, <1>1 DEF Guards, HoldStages
<1>4. Balance'
  BY SMTT(30), <1>0, <1>1, <1>3 DEF TypeOK, Balance
<1>5. Guards'
  BY Zenon, <1>1 DEF TypeOK, Guards, HoldStages
<1>6. Fresh'
  BY Zenon, <1>1 DEF TypeOK, Fresh, Live
<1>7. Late'
  BY Zenon, <1>1 DEF TypeOK, Late
<1> QED BY Zenon, <1>1, <1>2, <1>4, <1>5, <1>6, <1>7 DEF Registry, Lookup, LookingUp

\* accept or recv: what is read while the flag is set is live.
LEMMA ReceiveStep ==
  ASSUME IndInv, NEW w \in Workers, Receive(w)
  PROVE  IndInv'
<1> USE DEF IndInv, stateVars, registryVars
<1>1. /\ task[w] = "recv" /\ inbox[w] # <<>>
      /\ item' = [item EXCEPT ![w] = Head(inbox[w])]
      /\ inbox' = [inbox EXCEPT ![w] = Tail(@)]
      /\ task' = [task EXCEPT ![w] = "received"]
      /\ UNCHANGED <<stateVars, holding, permits, registryVars, cancelled, handlers,
                     lateStarts, conf, lookup, arrivals>>
  BY Zenon DEF Receive, Goto
<1>2. Head(inbox[w]) \in Items /\ inbox' \in [Workers -> Seq(Items)]
  BY Zenon, <1>1, TailKeeps DEF TypeOK
<1>3. TypeOK'
  BY SMTT(30), <1>1, <1>2 DEF TypeOK, Stages
<1>4. serverActive => Head(inbox[w]) \in Live /\ inbox' \in [Workers -> Seq(Live)]
  BY Zenon, <1>1, TailKeeps DEF Fresh
<1>5. Guards'
  BY Zenon, <1>1 DEF TypeOK, Guards, HoldStages
<1>6. Fresh'
  <2>1. Live' = Live
    BY Zenon, <1>1 DEF Live
  <2> QED BY Zenon, <1>1, <1>4, <2>1 DEF TypeOK, Fresh
<1>7. Late'
  BY Zenon, <1>1 DEF TypeOK, Late
<1> QED BY Zenon, <1>1, <1>3, <1>5, <1>6, <1>7 DEF Balance, Registry, Lookup, LookingUp

\* The handler takes the guard over.
LEMMA DeliverStep ==
  ASSUME IndInv, NEW w \in Workers, Deliver(w)
  PROVE  IndInv'
<1> USE DEF IndInv
<1>1. CASE Unroutable(item[w])
  BY Zenon, <1>1, IterationStep DEF Deliver, HoldStages
<1>2. CASE ~Unroutable(item[w])
  <2> USE DEF stateVars, registryVars
  <2>0. conf.max \in Nat
    BY Zenon, NativeAssumption DEF TypeOK, Config
  <2>1. /\ task[w] = "deliver"
        /\ handlers' = [handlers EXCEPT ![w] = @ + 1]
        /\ lateStarts' = [lateStarts EXCEPT ![w] = IF serverActive THEN @ ELSE @ + 1]
        /\ holding' = [holding EXCEPT ![w] = FALSE]
        /\ item' = [item EXCEPT ![w] = "none"]
        /\ task' = [task EXCEPT ![w] = "check"]
        /\ UNCHANGED <<permits, stateVars, registryVars, cancelled, inbox, conf, lookup, arrivals>>
    BY Zenon, <1>2 DEF Deliver, Goto
  <2>2. TypeOK'
    BY SMTT(30), <2>1 DEF TypeOK, Stages, Items
  <2>3. holding[w]
    BY Zenon, <2>1 DEF Guards, HoldStages
  <2>4. Balance'
    BY SMTT(30), <2>0, <2>1, <2>3 DEF TypeOK, Balance
  <2>5. Guards'
    BY Zenon, <2>1 DEF TypeOK, Guards, HoldStages
  <2>6. Fresh'
    BY Zenon, <2>1 DEF TypeOK, Fresh, Live
  <2>7. Late'
    BY <2>1 DEF TypeOK, Late
  <2> QED BY Zenon, <2>1, <2>2, <2>4, <2>5, <2>6, <2>7 DEF Registry, Lookup, LookingUp
<1> QED BY Zenon, <1>1, <1>2

\* A handler that ends gives back its permit.
LEMMA HandlerEndsStep ==
  ASSUME IndInv, NEW w \in Workers, HandlerEnds(w)
  PROVE  IndInv'
<1> USE DEF IndInv, stateVars, registryVars
<1>0. conf.max \in Nat
  BY Zenon, NativeAssumption DEF TypeOK, Config
<1>1. /\ handlers[w] > 0
      /\ handlers' = [handlers EXCEPT ![w] = @ - 1]
      /\ permits' = [permits EXCEPT ![w] = IF conf.max > 0 THEN @ - 1 ELSE @]
      /\ UNCHANGED <<stateVars, task, holding, item, registryVars, cancelled, inbox,
                     lateStarts, conf, lookup, arrivals>>
  BY Zenon DEF HandlerEnds
<1>2. handlers' \in [Workers -> Nat] /\ permits' \in [Workers -> Nat]
  <2>1. handlers[w] - 1 \in Nat
    BY <1>1 DEF TypeOK
  <2>2. conf.max > 0 => permits[w] - 1 \in Nat
    <3>1. handlers[w] \in Nat
      BY Zenon DEF TypeOK
    <3>2. conf.max > 0 => permits[w] \in {handlers[w], handlers[w] + 1}
      BY <3>1 DEF Balance
    <3> QED BY <1>1, <3>1, <3>2
  <2> QED BY Zenon, <1>1, <2>1, <2>2 DEF TypeOK
<1>3. TypeOK'
  BY <1>1, <1>2 DEF TypeOK
<1>4. Balance'
  BY SMTT(30), <1>0, <1>1 DEF TypeOK, Balance
<1> QED BY Zenon, <1>1, <1>3, <1>4 DEF Guards, Fresh, Live, Late, Registry, Lookup, LookingUp

\* A worker that stops takes its task and its handlers with it.
LEMMA StopWorkerStep ==
  ASSUME IndInv, NEW w \in Workers, StopWorker(w)
  PROVE  IndInv'
<1> USE DEF IndInv, registryVars
<1>0. conf.max \in Nat
  BY Zenon, NativeAssumption DEF TypeOK, Config
<1>1. /\ stopped' = stopped \cup {w}
      /\ handlers' = [handlers EXCEPT ![w] = 0]
      /\ permits' = [permits EXCEPT ![w] =
           IF conf.max > 0 THEN @ - handlers[w] - (IF holding[w] THEN 1 ELSE 0) ELSE @]
      /\ holding' = [holding EXCEPT ![w] = FALSE]
      /\ task' = [task EXCEPT ![w] = "ended"]
      /\ cancelled' = [cancelled EXCEPT ![w] = FALSE]
      /\ UNCHANGED <<serverActive, runtimeActive, handle, closing, item, registryVars,
                     inbox, lateStarts, conf, lookup, arrivals>>
  BY Zenon DEF StopWorker, Goto
<1>2. permits' \in [Workers -> Nat] /\ (conf.max > 0 => permits'[w] = 0)
  BY <1>0, <1>1 DEF TypeOK, Balance
<1>3. TypeOK'
  BY SMTT(30), <1>1, <1>2 DEF TypeOK, Stages
<1>4. Balance'
  <2> SUFFICES ASSUME conf.max > 0, NEW v \in Workers
               PROVE  /\ permits'[v] = handlers'[v] + (IF holding'[v] THEN 1 ELSE 0)
                      /\ permits'[v] <= conf.max
    BY Zenon, <1>1 DEF Balance
  <2>1. CASE v = w
    BY <1>0, <1>1, <1>2, <2>1 DEF TypeOK
  <2>2. CASE v # w
    BY Zenon, <1>1, <2>2 DEF TypeOK, Balance
  <2> QED BY Zenon, <2>1, <2>2
<1>5. Guards'
  BY Zenon, <1>1 DEF TypeOK, Guards, HoldStages
<1>6. Fresh'
  BY Zenon, <1>1 DEF TypeOK, Fresh, Live
<1>7. Late'
  BY Zenon, <1>1 DEF TypeOK, Late
<1> QED BY Zenon, <1>1, <1>3, <1>4, <1>5, <1>6, <1>7 DEF Registry, Lookup, LookingUp

\* A packet that arrives while the flag is set is live.
LEMMA ArriveStep ==
  ASSUME IndInv, NEW w \in Workers, Arrive(w)
  PROVE  IndInv'
<1> USE DEF IndInv, stateVars, registryVars, loopVars
<1>0. conf.arrivals \in Nat
  BY Zenon, NativeAssumption DEF TypeOK, Config
<1>1. PICK i \in {"data", "bad"} :
        /\ i = "bad" => conf.kind = "quic"
        /\ inbox' = [inbox EXCEPT ![w] = Append(@, IF serverActive THEN i ELSE "late")]
  BY Zenon DEF Arrive
<1>2. /\ arrivals < conf.arrivals /\ arrivals' = arrivals + 1
      /\ UNCHANGED <<stateVars, loopVars, registryVars, cancelled, handlers, lateStarts, conf, lookup>>
  BY Zenon DEF Arrive
<1>3. inbox' \in [Workers -> Seq(Items)]
  <2>1. (IF serverActive THEN i ELSE "late") \in Items
    BY Zenon DEF Items
  <2> QED BY Zenon, <1>1, <2>1, AppendKeeps DEF TypeOK
<1>4. TypeOK'
  BY SMTT(30), <1>0, <1>2, <1>3 DEF TypeOK
<1>5. serverActive => inbox' \in [Workers -> Seq(Live)]
  <2>1. i \in Live
    BY Zenon, <1>1 DEF Live
  <2> QED BY Zenon, <1>1, <2>1, AppendKeeps DEF Fresh
<1>6. Fresh'
  <2>1. Live' = Live
    BY SMTT(30), <1>2 DEF Live
  <2> QED BY Zenon, <1>2, <1>5, <2>1 DEF Fresh
<1> QED BY Zenon, <1>2, <1>4, <1>6 DEF Balance, Guards, Late, Registry, Lookup, LookingUp

-----------------------------------------------------------------------------
(* Steps of the application.                                               *)

\* listener_socket tests the flag first.
LEMMA LookupStepKeeps ==
  ASSUME IndInv, LookupStep \/ \E t \in Workers \cup {Outside} : LookupBegin(t)
  PROVE  IndInv'
<1> USE DEF IndInv, stateVars, registryVars, loopVars
<1>0. NumWorkers \in Nat \ {0}
  BY SMTT(30), NativeAssumption
<1>1. UNCHANGED <<stateVars, loopVars, registryVars, cancelled, inbox, handlers, lateStarts, conf, arrivals>>
  BY Zenon DEF LookupStep, LookupThread, LookupPool, LookupBegin
<1>2. /\ lookup' \in [stage : {"none", "thread", "pool", "got", "failed"}, by : 0 .. Outside,
                      live : BOOLEAN, own : BOOLEAN, socket : 0 .. Outside]
      /\ Lookup'
  <2>1. CASE LookupThread
    <3>1. CASE lookup.by \in threadSockets
      <4>1. lookup' \in {[lookup EXCEPT !.stage = "got", !.socket = lookup.by],
                         [lookup EXCEPT !.stage = "failed"]}
        BY Zenon, <2>1, <3>1 DEF LookupThread, Answer
      <4> QED BY ZenonT(30), <4>1 DEF TypeOK, Lookup, LookingUp
    <3>2. CASE lookup.by \notin threadSockets
      <4>1. lookup.stage = "thread" /\ lookup' = [lookup EXCEPT !.stage = "pool"]
        BY Zenon, <2>1, <3>2 DEF LookupThread
      <4>2. lookup.live /\ ~(serverActive /\ lookup.own)
        BY Zenon, <3>2, <4>1 DEF Lookup, LookingUp
      <4>3. lookup'.live = lookup.live /\ lookup'.own = lookup.own
        BY Zenon, <4>1 DEF TypeOK
      <4>4. Lookup'
        BY Zenon, <1>1, <4>2, <4>3 DEF Lookup
      <4> QED BY Zenon, <4>1, <4>4 DEF TypeOK
    <3> QED BY Zenon, <3>1, <3>2
  <2>2. CASE LookupPool
    <3>1. CASE poolSockets = {}
      BY ZenonT(30), <1>1, <2>2, <3>1 DEF LookupPool, TypeOK, Lookup, LookingUp
    <3>2. CASE poolSockets # {}
      <4>1. PICK s \in poolSockets : Answer(s)
        BY Zenon, <2>2, <3>2 DEF LookupPool
      <4>2. s \in 0 .. Outside
        BY <1>0 DEF TypeOK, Workers, Outside
      <4> QED BY ZenonT(30), <1>1, <4>1, <4>2 DEF Answer, TypeOK, Lookup, LookingUp
    <3> QED BY Zenon, <3>1, <3>2
  <2>3. ASSUME NEW t \in Workers \cup {Outside}, LookupBegin(t)
        PROVE  /\ lookup' \in [stage : {"none", "thread", "pool", "got", "failed"}, by : 0 .. Outside,
                               live : BOOLEAN, own : BOOLEAN, socket : 0 .. Outside]
               /\ Lookup'
    <3>1. lookup' = [stage |-> IF serverActive THEN "thread" ELSE "failed", by |-> t,
                     live |-> serverActive, own |-> t \in threadSockets, socket |-> Outside]
      BY Zenon, <2>3 DEF LookupBegin, NoLookup
    <3>2. t \in 0 .. Outside /\ Outside \in 0 .. Outside
      BY <1>0 DEF Workers, Outside
    <3>3. lookup' \in [stage : {"none", "thread", "pool", "got", "failed"}, by : 0 .. Outside,
                       live : BOOLEAN, own : BOOLEAN, socket : 0 .. Outside]
      <4>1. serverActive \in BOOLEAN /\ (t \in threadSockets) \in BOOLEAN
        BY DEF TypeOK
      <4>2. (IF serverActive THEN "thread" ELSE "failed") \in {"none", "thread", "pool", "got", "failed"}
        BY Zenon
      <4> QED BY Zenon, <3>1, <3>2, <4>1, <4>2
    <3>4. /\ lookup'.stage = (IF serverActive THEN "thread" ELSE "failed") /\ lookup'.by = t
          /\ lookup'.live = serverActive /\ lookup'.own = (t \in threadSockets)
      BY Zenon, <3>1
    <3>5. Lookup'
      BY ZenonT(30), <1>1, <3>4 DEF TypeOK, Lookup, LookingUp
    <3> QED BY SMTT(30), <3>3, <3>5
  <2> QED BY Zenon, <2>1, <2>2, <2>3 DEF LookupStep
<1>3. TypeOK'
  BY Zenon, <1>1, <1>2 DEF TypeOK
<1> QED BY Zenon, <1>1, <1>2, <1>3 DEF Balance, Guards, Fresh, Live, Late, Registry

\* close() clears the flag before it disturbs anything else.
LEMMA CloseKeeps ==
  ASSUME IndInv, CloseBegin \/ CloseStep
  PROVE  IndInv'
<1> USE DEF IndInv, registryVars, loopVars
<1>1. CASE CloseBegin
  BY ZenonT(30), <1>1 DEF CloseBegin, TypeOK, Balance, Guards, Fresh, Live, Late, Registry, Lookup, LookingUp
<1>2. CASE CloseSockets
  <2>1. ~serverActive
    BY Zenon, <1>2 DEF CloseSockets, Registry
  <2>2. PICK woken : inbox' = [w \in Workers |-> IF w \in woken THEN Append(inbox[w], "wake") ELSE inbox[w]]
    BY Zenon, <1>2 DEF CloseSockets
  <2>3. inbox' \in [Workers -> Seq(Items)]
    BY <2>2 DEF TypeOK, Items
  <2>4. TypeOK'
    BY Zenon, <1>2, <2>3 DEF CloseSockets, TypeOK
  <2> QED BY Zenon, <1>2, <2>1, <2>4 DEF CloseSockets, Balance, Guards, Fresh, Live, Late, Registry, Lookup, LookingUp
<1>3. CASE CloseThreads
  BY <1>3 DEF CloseThreads, TypeOK, Balance, Guards, Fresh, Live, Late, Registry, Lookup, LookingUp
<1>4. CASE CloseTasks
  <2>1. ~serverActive
    BY Zenon, <1>4 DEF CloseTasks, Registry
  <2>2. /\ task' \in [Workers -> Stages] /\ cancelled' \in [Workers -> BOOLEAN]
        /\ \A w \in Workers : task'[w] = task[w] \/ (task[w] = "queued" /\ task'[w] = "ended")
    BY ZenonT(30), <1>4 DEF CloseTasks, TypeOK, Stages
  <2>3. TypeOK'
    BY Zenon, <1>4, <2>2 DEF CloseTasks, TypeOK
  <2>4. Guards'
    BY Zenon, <1>4, <2>2 DEF CloseTasks, Guards, HoldStages
  <2>5. Fresh' /\ Late'
    BY Zenon, <1>4, <2>1, <2>2 DEF CloseTasks, Fresh, Live, Late
  <2> QED BY Zenon, <1>4, <2>1, <2>3, <2>4, <2>5 DEF CloseTasks, Balance, Registry, Lookup, LookingUp
<1> QED BY Zenon, <1>1, <1>2, <1>3, <1>4 DEF CloseStep

-----------------------------------------------------------------------------
(* The theorems.                                                           *)

\* Every step of a worker's thread keeps the invariant.
LEMMA ThreadKeeps ==
  ASSUME IndInv, NEW w \in Workers, ThreadStep(w)
  PROVE  IndInv'
<1> USE DEF stateVars, registryVars, loopVars
<1>1. CASE SpawnLocal(w)
  BY Zenon, <1>1, MoveStep DEF SpawnLocal, Stages, HoldStages, IndInv, TypeOK, Late
<1>2. CASE Start(w)
  <2>1. (IF conf.kind = "tcp" THEN "convert" ELSE "thread") \in {"convert", "thread"}
    BY Zenon
  <2> QED BY Zenon, <1>2, <2>1, MoveStep DEF Start, Stages, HoldStages, IndInv, TypeOK, Late
<1>3. CASE RegisterThread(w)
  BY Zenon, <1>3, MoveStep DEF RegisterThread, Stages, HoldStages, IndInv, TypeOK, Late
<1>4. CASE RegisterPool(w)
  BY Zenon, <1>4, MoveStep DEF RegisterPool, Stages, HoldStages, IndInv, TypeOK, Late
<1>5. CASE Convert(w)
  <2>1. (IF conf.kind = "socket" THEN "callback" ELSE "check") \in {"callback", "check"}
    BY Zenon
  <2> QED BY Zenon, <1>5, <2>1, MoveStep DEF Convert, Stages, HoldStages, IndInv, TypeOK, Late
<1>6. CASE TestActive(w)
  BY Zenon, <1>6, TestActiveStep
<1>7. CASE Acquire(w)
  BY Zenon, <1>7, AcquireStep
<1>8. CASE Receive(w)
  BY Zenon, <1>8, ReceiveStep
<1>9. CASE Deliver(w)
  BY Zenon, <1>9, DeliverStep
<1>10. CASE ExecuteCancel(w)
  <2>1. cancelled' \in [Workers -> BOOLEAN]
    BY Zenon, <1>10 DEF ExecuteCancel, IndInv, TypeOK
  <2> QED BY Zenon, <1>10, <2>1, EndStep DEF ExecuteCancel
<1>11. CASE StartFails(w)
  BY SMTT(30), <1>11, EndStep DEF StartFails, IndInv, TypeOK
<1>12. CASE ReceiveError(w)
  BY SMTT(30), <1>12, EndStep, IterationStep DEF ReceiveError, HoldStages, IndInv, TypeOK
<1>13. CASE HandlerEnds(w)
  BY Zenon, <1>13, HandlerEndsStep
<1>14. CASE CallbackReads(w)
  <2>1. /\ inbox[w] # <<>> /\ inbox' = [inbox EXCEPT ![w] = Tail(@)]
        /\ UNCHANGED <<stateVars, loopVars, registryVars, cancelled, handlers, lateStarts, conf, lookup, arrivals>>
    BY Zenon, <1>14 DEF CallbackReads
  <2>2. inbox' \in [Workers -> Seq(Items)]
    BY SMTT(30), <2>1, TailKeeps DEF IndInv, TypeOK
  <2>3. serverActive => inbox' \in [Workers -> Seq(Live)]
    BY Zenon, <2>1, TailKeeps DEF IndInv, Fresh
  <2>4. Live' = Live
    BY Zenon, <2>1 DEF Live
  <2>5. TypeOK' /\ Fresh'
    BY SMTT(30), <2>1, <2>2, <2>3, <2>4 DEF IndInv, TypeOK, Fresh
  <2> QED BY Zenon, <2>1, <2>5 DEF IndInv, Balance, Guards, Late, Registry, Lookup, LookingUp
<1>15. CASE CallbackReturns(w)
  BY SMTT(30), <1>15, EndStep DEF CallbackReturns, IndInv, TypeOK
<1>16. CASE StopWorker(w)
  BY Zenon, <1>16, StopWorkerStep
<1> QED BY Zenon, <1>1, <1>2, <1>3, <1>4, <1>5, <1>6, <1>7, <1>8, <1>9, <1>10, <1>11, <1>12, <1>13, <1>14,
           <1>15, <1>16 DEF ThreadStep, LoopStep

\* Every step keeps it.
LEMMA StepKeeps ==
  ASSUME IndInv, [Next]_vars
  PROVE  IndInv'
<1> USE DEF stateVars, registryVars, loopVars
<1>1. CASE CloseBegin \/ CloseStep
  BY Zenon, <1>1, CloseKeeps
<1>2. CASE DropServer
  BY <1>2 DEF DropServer, IndInv, TypeOK, Balance, Guards, Fresh, Live, Late, Registry, Lookup, LookingUp
<1>3. CASE DropRuntime
  BY ZenonT(30), <1>3 DEF DropRuntime, IndInv, TypeOK, Balance, Guards, Fresh, Live, Late, Registry, Lookup, LookingUp
<1>4. CASE LookupStep \/ \E t \in Workers \cup {Outside} : LookupBegin(t)
  BY Zenon, <1>4, LookupStepKeeps
<1>5. ASSUME NEW w \in Workers, Arrive(w) \/ (~Busy(w) /\ ThreadStep(w))
      PROVE  IndInv'
  BY Zenon, <1>5, ArriveStep, ThreadKeeps
<1>6. CASE UNCHANGED vars
  BY <1>6 DEF vars, IndInv, TypeOK, Balance, Guards, Fresh, Live, Late, Registry, Lookup, LookingUp
<1> QED BY Zenon, <1>1, <1>2, <1>3, <1>4, <1>5, <1>6 DEF Next

\* The inductive invariant: types, the balance of permits, which stages own a
\* guard, what a socket and a loop can hold, late starts, registries and lookups.
THEOREM Invariance == Spec => []IndInv
<1>1. Init => IndInv
  <2> SUFFICES ASSUME Init PROVE IndInv
    BY Zenon
  <2>1. NumWorkers \in Nat \ {0} /\ Configs \subseteq Config
    BY Zenon, NativeAssumption
  <2>2. conf.max \in Nat /\ conf.arrivals \in Nat
    BY Zenon, <2>1 DEF Init, Config
  <2>3. TypeOK
    <3>1. lookup \in [stage : {"none", "thread", "pool", "got", "failed"}, by : 0 .. Outside,
                      live : BOOLEAN, own : BOOLEAN, socket : 0 .. Outside]
      BY <2>1 DEF Init, NoLookup, Outside
    <3> QED BY <2>2, <3>1 DEF Init, TypeOK, Stages, Items
  <2>4. Fresh
    BY DEF Init, Fresh
  <2>5. Lookup
    BY Zenon DEF Init, Lookup, LookingUp, NoLookup
  <2> QED BY <2>2, <2>3, <2>4, <2>5 DEF Init, IndInv, Balance, Guards, HoldStages, Late, Registry
<1>2. IndInv /\ [Next]_vars => IndInv'
  BY Zenon, StepKeeps
<1> QED BY <1>1, <1>2, PTL DEF Spec

\* For any number of workers the permits of a worker are its handlers and its
\* loop's guard, at most max_concurrency_per_worker.
THEOREM PermitsBalancedHolds == Spec => []PermitsBalanced
<1>1. IndInv => PermitsBalanced
  BY Zenon DEF IndInv, Balance, PermitsBalanced
<1> QED BY <1>1, Invariance, PTL

\* For any number of workers a worker starts at most one handler after close()
\* cleared the flag.
THEOREM AtMostOneLateStartHolds == Spec => []AtMostOneLateStart
<1>1. IndInv => AtMostOneLateStart
  BY Zenon DEF IndInv, Late, AtMostOneLateStart
<1> QED BY <1>1, Invariance, PTL

\* No step of a server starts a handler for anything but live, routable data.
THEOREM OnlyLiveDataHandledHolds == Spec => OnlyLiveDataHandled
<1>1. ASSUME IndInv, [Next]_vars, NEW w \in Workers, handlers'[w] > handlers[w]
      PROVE  item[w] = "data"
  <2>1. PICK v \in Workers : Deliver(v) /\ handlers' = [handlers EXCEPT ![v] = @ + 1]
    <3>1. handlers' # handlers
      BY SMTT(30), <1>1 DEF IndInv, TypeOK
    <3>2. PICK v \in Workers : Deliver(v) \/ HandlerEnds(v) \/ StopWorker(v)
      BY ZenonT(30), <1>1, <3>1 DEF Next, vars, CloseBegin, CloseStep, CloseSockets, CloseThreads, CloseTasks, DropServer,
         DropRuntime, LookupStep, LookupThread, LookupPool, LookupBegin, Arrive, ThreadStep, LoopStep,
         SpawnLocal, Start, RegisterThread, RegisterPool, Convert, TestActive, Acquire, Receive,
         ExecuteCancel, StartFails, ReceiveError, CallbackReads, CallbackReturns
    <3>3. ~HandlerEnds(v)
      <4> SUFFICES ASSUME handlers' = [handlers EXCEPT ![v] = @ - 1] PROVE FALSE
        BY Zenon DEF HandlerEnds
      <4>1. handlers'[w] = IF w = v THEN handlers[w] - 1 ELSE handlers[w]
        BY Zenon, <1>1 DEF IndInv, TypeOK
      <4>2. handlers[w] \in Nat
        BY Zenon, <1>1 DEF IndInv, TypeOK
      <4> QED BY <1>1, <4>1, <4>2
    <3>4. ~StopWorker(v)
      <4> SUFFICES ASSUME handlers' = [handlers EXCEPT ![v] = 0] PROVE FALSE
        BY Zenon DEF StopWorker
      <4>1. handlers'[w] = IF w = v THEN 0 ELSE handlers[w]
        BY Zenon, <1>1 DEF IndInv, TypeOK
      <4>2. handlers[w] \in Nat
        BY Zenon, <1>1 DEF IndInv, TypeOK
      <4> QED BY <1>1, <4>1, <4>2
    <3> QED BY Zenon, <3>1, <3>2, <3>3, <3>4 DEF Deliver
  <2>2. v = w
    BY <1>1, <2>1 DEF IndInv, TypeOK
  <2>3. ~Unroutable(item[w])
    BY <1>1, <2>1, <2>2 DEF Deliver, IndInv, TypeOK
  <2>4. item[w] \in Live
    BY Zenon, <1>1, <2>1, <2>2 DEF Deliver, IndInv, Fresh
  <2> QED BY Zenon, <2>3, <2>4 DEF Live, Unroutable
<1>2. IndInv /\ [Next]_vars =>
        [\A w \in Workers : handlers'[w] > handlers[w] => item[w] = "data"]_vars
  BY Zenon, <1>1
<1> QED BY <1>2, Invariance, PTL DEF Spec, OnlyLiveDataHandled

\* listener_socket hands out no socket after close() began, none that is shut
\* down, and the caller's own if it is registered.
THEOREM LookupHandsOutLiveHolds == Spec => LookupHandsOutLive
<1> DEFINE Good == (lookup.stage # "got" /\ lookup'.stage = "got") =>
                     /\ lookup.live
                     /\ serverActive => /\ lookup'.socket \notin shutSockets
                                        /\ lookup.own => lookup'.socket = lookup.by
<1>1. ASSUME IndInv, [Next]_vars, lookup.stage # "got", lookup'.stage = "got"
      PROVE  Good
  <2>1. LookupThread \/ LookupPool
    <3>1. lookup' # lookup
      BY SMTT(30), <1>1
    <3>2. LookupThread \/ LookupPool \/ \E t \in Workers \cup {Outside} : LookupBegin(t)
      BY <1>1, <3>1 DEF Next, vars, CloseBegin, CloseStep, CloseSockets, CloseThreads, CloseTasks, DropServer,
         DropRuntime, LookupStep, Arrive, ThreadStep, LoopStep,
         SpawnLocal, Start, RegisterThread, RegisterPool, Convert, TestActive, Acquire, Receive, Deliver,
         ExecuteCancel, StartFails, ReceiveError, CallbackReads, CallbackReturns, HandlerEnds, StopWorker
    <3>3. ASSUME NEW t \in Workers \cup {Outside}, LookupBegin(t) PROVE FALSE
      <4>1. lookup'.stage = IF serverActive THEN "thread" ELSE "failed"
        BY Zenon, <3>3 DEF LookupBegin, NoLookup
      <4> QED BY Zenon, <1>1, <4>1
    <3> QED BY Zenon, <3>2, <3>3
  <2>2. lookup.live
    BY Zenon, <1>1, <2>1 DEF IndInv, Lookup, LookingUp, LookupThread, LookupPool
  <2>3. serverActive => shutSockets = {}
    BY Zenon, <1>1 DEF IndInv, Registry
  <2>4. ASSUME serverActive, lookup.own PROVE lookup'.socket = lookup.by
    <3>1. LookupThread /\ lookup.by \in threadSockets
      BY Zenon, <1>1, <2>1, <2>4 DEF IndInv, Lookup, LookingUp, LookupThread, LookupPool
    <3>2. lookup' \in {[lookup EXCEPT !.stage = "got", !.socket = lookup.by],
                       [lookup EXCEPT !.stage = "failed"]}
      BY Zenon, <3>1 DEF LookupThread, Answer
    <3>3. lookup'.stage # "failed"
      BY Zenon, <1>1
    <3> QED BY Zenon, <1>1, <3>2, <3>3 DEF IndInv, TypeOK
  <2> QED BY Zenon, <2>2, <2>3, <2>4
<1>2. IndInv /\ [Next]_vars => [Good]_vars
  BY Zenon, <1>1
<1> QED BY <1>2, Invariance, PTL DEF Spec, LookupHandsOutLive
=============================================================================

------------------------- MODULE RoutedReceiveProofs -------------------------
(***************************************************************************)
(* No wake-up of a reader of a routed view is lost, for every number of     *)
(* readers, capacity, and number of packets and dropped futures.            *)
(***************************************************************************)
EXTENDS RoutedReceive, FiniteSetTheorems, TLAPS

\* q has no duplicates, and r is in q.
Distinct(q) == \A i, j \in 1 .. Len(q) : q[i] = q[j] => i = j
In(q, r) == \E i \in 1 .. Len(q) : q[i] = r

\* A reader stays in the stages of its kind.
Awaiting == {"lock", "lock_wait", "recv", "recv_wait", "notified"}
Polling == {"poll", "poll_locked", "parked"}
StagesOfKind == \A r \in Readers : /\ stage[r] \in Awaiting => conf.kind[r] = "await"
                                   /\ stage[r] \in Polling => conf.kind[r] = "poll"

Notified == {r \in Readers : stage[r] = "notified"}

\* tokio: the guard is with the reader at the receiver, those in the mutex's
\* queue wait for it, and a receive that waits would be woken.
TokioInv ==
  /\ listeners = <<>> /\ Distinct(waiters) /\ (owner = NoReader => waiters = <<>>)
  /\ \A r \in Readers : /\ owner = r <=> stage[r] \in {"recv", "recv_wait", "poll_locked"}
                        /\ In(waiters, r) <=> stage[r] = "lock_wait"
                        /\ stage[r] = "recv_wait" => queue = <<>> /\ ~closed /\ rxWaker = r
                        /\ stage[r] # "notified"

\* async-std: a receive that waits has a listener, and while one has, the
\* queued packets do not outnumber the notified readers.
AsyncStdInv ==
  /\ owner = NoReader /\ waiters = <<>> /\ Distinct(listeners)
  /\ \A r \in Readers : /\ stage[r] \notin {"lock", "lock_wait", "poll_locked"}
                        /\ In(listeners, r) <=> stage[r] = "recv_wait"
  /\ listeners # <<>> => ~closed /\ Len(queue) <= Cardinality(Notified)

\* The only reader of a tokio view that polls.
OnlyPoller(p) == Tokio /\ conf.kind[p] = "poll" /\ \A r \in Readers \ {p} : conf.kind[r] = "off"

\* Parked, it would be woken.
PollerInv == \A p \in Readers : (OnlyPoller(p) /\ stage[p] = "parked") => queue = <<>> /\ ~closed /\ rxWaker = p

IndInv == /\ TypeOK /\ StagesOfKind /\ PollerInv
          /\ Tokio => TokioInv
          /\ ~Tokio => AsyncStdInv

\* The uses of a view in which wake-ups are not lost: awaiting readers, or on
\* tokio a single polling one.
SafeUse == \/ \A r \in Readers : conf.kind[r] # "poll"
           \/ \E p \in Readers : OnlyPoller(p)

\* Whatever the other readers do, an awaiting one is not left asleep.
AwaiterNotLeft ==
  \A r \in Readers :
    (stage[r] \in {"lock_wait", "recv_wait"} /\ (queue # <<>> \/ closed)) =>
       \E s \in Readers : ~Asleep(s) /\ stage[s] \notin {"idle", "done"}

-----------------------------------------------------------------------------
\* No reader is the absence of one.
LEMMA ReaderNumbers == NoReader \notin Readers
BY DEF NoReader, Readers

\* A future that gives up its place in a queue leaves the others theirs.
LEMMA WithoutIs ==
  ASSUME NEW q \in Seq(Readers), NEW r, Distinct(q)
  PROVE  /\ Without(q, r) \in Seq(Readers) /\ Distinct(Without(q, r))
         /\ \A x : In(Without(q, r), x) <=> In(q, x) /\ x # r
<1>1. CASE ~In(q, r)
  <2>1. Without(q, r) = q
    BY <1>1 DEF Without, In
  <2> QED BY Zenon, <1>1, <2>1
<1>2. CASE In(q, r)
  <2>1. PICK at : at = CHOOSE i \in DOMAIN q : q[i] = r
    BY Zenon
  <2>2. at \in 1 .. Len(q) /\ q[at] = r
    BY <1>2, <2>1 DEF In
  <2>3. Without(q, r) = SubSeq(q, 1, at - 1) \o SubSeq(q, at + 1, Len(q))
    <3>1. \E i \in DOMAIN q : q[i] = r
      BY <1>2 DEF In
    <3> QED BY Zenon, <2>1, <3>1 DEF Without
  <2>4. PICK a, b : a = SubSeq(q, 1, at - 1) /\ b = SubSeq(q, at + 1, Len(q))
    BY Zenon
  <2>5. a \in Seq(Readers) /\ Len(a) = at - 1 /\ \A i \in 1 .. at - 1 : a[i] = q[i]
    BY <2>2, <2>4
  <2>6. b \in Seq(Readers) /\ Len(b) = Len(q) - at /\ \A i \in 1 .. Len(q) - at : b[i] = q[at + i]
    BY <2>2, <2>4
  <2>7. PICK p : p = Without(q, r)
    BY Zenon
  <2>8. /\ p \in Seq(Readers) /\ Len(p) = Len(q) - 1 /\ Len(q) \in Nat
        /\ \A i \in 1 .. Len(p) : p[i] = IF i < at THEN q[i] ELSE q[i + 1]
    <3>1. p = a \o b /\ Len(q) \in Nat
      BY <2>3, <2>4, <2>7
    <3>2. p \in Seq(Readers) /\ Len(p) = Len(q) - 1
      <4>1. a \in Seq(Readers) /\ b \in Seq(Readers)
        BY Zenon, <2>5, <2>6
      <4>2. a \o b \in Seq(Readers) /\ Len(a \o b) = Len(a) + Len(b)
        BY SMT, <4>1
      <4> QED BY <2>2, <2>5, <2>6, <3>1, <4>2
    <3>3. ASSUME NEW i \in 1 .. Len(p) PROVE p[i] = IF i < at THEN q[i] ELSE q[i + 1]
      <4>1. CASE i < at
        BY <2>2, <2>5, <2>6, <3>1, <3>2, <4>1
      <4>2. CASE ~(i < at)
        <5>1. i - (at - 1) \in 1 .. Len(q) - at /\ at + (i - (at - 1)) = i + 1
          BY <2>2, <3>1, <3>2, <4>2
        <5>2. p[i] = b[i - (at - 1)]
          BY SMTT(30), <2>2, <2>5, <2>6, <3>1, <3>2, <4>2
        <5> QED BY Zenon, <2>6, <4>2, <5>1, <5>2
      <4> QED BY Zenon, <4>1, <4>2
    <3> QED BY Zenon, <3>1, <3>2, <3>3
  <2>9. Distinct(p)
    <3> SUFFICES ASSUME NEW i \in 1 .. Len(p), NEW j \in 1 .. Len(p), p[i] = p[j] PROVE i = j
      BY Zenon DEF Distinct
    <3>1. PICK k, l : k = (IF i < at THEN i ELSE i + 1) /\ l = (IF j < at THEN j ELSE j + 1)
      BY Zenon
    <3>2. k \in 1 .. Len(q) /\ l \in 1 .. Len(q) /\ p[i] = q[k] /\ p[j] = q[l]
      BY <2>2, <2>8, <3>1
    <3>3. k = l
      BY Zenon, <3>2 DEF Distinct
    <3> QED BY <2>2, <3>1, <3>3
  <2>10. ASSUME NEW x PROVE In(p, x) <=> In(q, x) /\ x # r
    <3>1. ASSUME In(p, x) PROVE In(q, x) /\ x # r
      <4>1. PICK i \in 1 .. Len(p) : p[i] = x
        BY Zenon, <3>1 DEF In
      <4>2. PICK k : k = IF i < at THEN i ELSE i + 1
        BY Zenon
      <4>3. k \in 1 .. Len(q) /\ q[k] = x /\ k # at
        BY <2>2, <2>8, <4>1, <4>2
      <4>4. x # r
        BY Zenon, <2>2, <4>3 DEF Distinct
      <4> QED BY Zenon, <4>3, <4>4 DEF In
    <3>2. ASSUME In(q, x), x # r PROVE In(p, x)
      <4>1. PICK i \in 1 .. Len(q) : q[i] = x /\ i # at
        BY Zenon, <2>2, <3>2 DEF In
      <4>2. CASE i < at
        BY <2>2, <2>8, <4>1, <4>2 DEF In
      <4>3. CASE i > at
        <5>1. i - 1 \in 1 .. Len(p) /\ p[i - 1] = q[i]
          BY <2>2, <2>8, <4>1, <4>3
        <5> QED BY Zenon, <4>1, <5>1 DEF In
      <4> QED BY <2>2, <4>1, <4>2, <4>3
    <3> QED BY Zenon, <3>1, <3>2
  <2> QED BY Zenon, <2>7, <2>8, <2>9, <2>10
<1> QED BY Zenon, <1>1, <1>2

\* The empty queue.
LEMMA EmptyIs ==
  /\ Distinct(<<>>) /\ <<>> \in Seq(Readers)
  /\ \A x : ~In(<<>>, x) /\ Without(<<>>, x) = <<>>
BY DEF Distinct, In, Without

\* The head of a queue is served.
LEMMA TailIs ==
  ASSUME NEW q \in Seq(Readers), Distinct(q), q # <<>>
  PROVE  /\ Tail(q) \in Seq(Readers) /\ Distinct(Tail(q)) /\ Head(q) \in Readers /\ In(q, Head(q))
         /\ \A x : In(Tail(q), x) <=> In(q, x) /\ x # Head(q)
<1>1. /\ Len(q) \in Nat /\ Tail(q) \in Seq(Readers) /\ Len(Tail(q)) = Len(q) - 1 /\ 1 \in 1 .. Len(q)
      /\ Head(q) = q[1] /\ Head(q) \in Readers
      /\ \A i \in 1 .. Len(q) - 1 : Tail(q)[i] = q[i + 1]
  OBVIOUS
<1>2. PICK t : t = Tail(q)
  BY Zenon
<1>3. Distinct(t)
  BY <1>1, <1>2 DEF Distinct
<1>4. ASSUME NEW x PROVE In(t, x) <=> In(q, x) /\ x # Head(q)
  <2>1. ASSUME In(t, x) PROVE In(q, x) /\ x # Head(q)
    BY <1>1, <1>2, <2>1 DEF In, Distinct
  <2>2. ASSUME In(q, x), x # Head(q) PROVE In(t, x)
    <3>1. PICK i \in 1 .. Len(q) : q[i] = x /\ i # 1
      BY Zenon, <1>1, <2>2 DEF In
    <3>2. i - 1 \in 1 .. Len(t) /\ t[i - 1] = q[i]
      BY <1>1, <1>2, <3>1
    <3> QED BY Zenon, <3>1, <3>2 DEF In
  <2> QED BY Zenon, <2>1, <2>2
<1> QED BY Zenon, <1>1, <1>2, <1>3, <1>4 DEF In

\* A future takes its place at the end of a queue.
LEMMA AppendIs ==
  ASSUME NEW q \in Seq(Readers), NEW r \in Readers, Distinct(q), ~In(q, r)
  PROVE  /\ Append(q, r) \in Seq(Readers) /\ Distinct(Append(q, r)) /\ Append(q, r) # <<>>
         /\ \A x : In(Append(q, r), x) <=> In(q, x) \/ x = r
<1>1. PICK p : p = Append(q, r)
  BY Zenon
<1>2. /\ Len(q) \in Nat /\ p \in Seq(Readers) /\ Len(p) = Len(q) + 1 /\ p[Len(q) + 1] = r /\ p # <<>>
      /\ \A i \in 1 .. Len(q) : p[i] = q[i] /\ i \in 1 .. Len(p)
      /\ \A i \in 1 .. Len(p) : i \in 1 .. Len(q) \/ i = Len(q) + 1
  BY <1>1
<1>3. Distinct(p)
  BY Zenon, <1>2 DEF Distinct, In
<1>4. ASSUME NEW x PROVE In(p, x) <=> In(q, x) \/ x = r
  BY <1>2 DEF In
<1> QED BY Zenon, <1>1, <1>2, <1>3, <1>4

\* Both queues are duplicate-free under either runtime.
LEMMA Queues ==
  ASSUME IndInv
  PROVE  /\ waiters \in Seq(Readers) /\ Distinct(waiters)
         /\ listeners \in Seq(Readers) /\ Distinct(listeners)
<1>1. CASE Tokio
  BY Zenon, <1>1, EmptyIs DEF IndInv, TypeOK, TokioInv
<1>2. CASE ~Tokio
  BY Zenon, <1>2, EmptyIs DEF IndInv, TypeOK, AsyncStdInv
<1> QED BY Zenon, <1>1, <1>2

\* What a packet's notification does: the oldest listener, if any, is notified.
LEMMA NotifyOne ==
  ASSUME TypeOK, Notify(1)
  PROVE  /\ listeners = <<>> => listeners' = <<>> /\ stage' = stage
         /\ listeners # <<>> => /\ listeners' = Tail(listeners)
                                /\ stage' = [stage EXCEPT ![Head(listeners)] = "notified"]
<1> DEFINE woken == {listeners[i] : i \in {j \in DOMAIN listeners : j <= 1}}
<1>0. listeners \in Seq(Readers) /\ stage \in [Readers -> Stages]
  BY Zenon DEF TypeOK
<1>1. /\ stage' = [r \in Readers |-> IF r \in woken THEN "notified" ELSE stage[r]]
      /\ listeners' = SubSeq(listeners, 2, Len(listeners))
  BY DEF Notify
<1>2. CASE listeners = <<>>
  <2>1. woken = {}
    BY <1>2
  <2>2. SubSeq(listeners, 2, Len(listeners)) = <<>>
    BY <1>2
  <2> QED BY Zenon, <1>0, <1>1, <1>2, <2>1, <2>2
<1>3. CASE listeners # <<>>
  <2>1. woken = {Head(listeners)} /\ Head(listeners) \in Readers
    BY <1>0, <1>3
  <2>2. SubSeq(listeners, 2, Len(listeners)) = Tail(listeners)
    BY <1>0, <1>3
  <2> HIDE DEF woken
  <2> QED BY Zenon, <1>0, <1>1, <1>3, <2>1, <2>2
<1> QED BY Zenon, <1>2, <1>3

\* The close notifies every listener.
LEMMA NotifyAll ==
  ASSUME TypeOK, Notify(Len(listeners))
  PROVE  /\ listeners' = <<>>
         /\ stage' = [r \in Readers |-> IF In(listeners, r) THEN "notified" ELSE stage[r]]
<1> DEFINE woken == {listeners[i] : i \in {j \in DOMAIN listeners : j <= Len(listeners)}}
<1>0. listeners \in Seq(Readers) /\ Len(listeners) \in Nat
  BY DEF TypeOK
<1>1. /\ stage' = [r \in Readers |-> IF r \in woken THEN "notified" ELSE stage[r]]
      /\ listeners' = SubSeq(listeners, Len(listeners) + 1, Len(listeners))
  BY Zenon DEF Notify
<1>2. \A r : r \in woken <=> In(listeners, r)
  BY <1>0 DEF In
<1>3. SubSeq(listeners, Len(listeners) + 1, Len(listeners)) = <<>>
  BY <1>0
<1> HIDE DEF woken
<1> QED BY Zenon, <1>1, <1>2, <1>3

\* Counting the notified readers: one more, one less.
LEMMA NotifiedCounts ==
  ASSUME NEW S \in SUBSET Readers, NEW r
  PROVE  /\ IsFiniteSet(S) /\ Cardinality(S) \in Nat
         /\ Cardinality(S \ {r}) = IF r \in S THEN Cardinality(S) - 1 ELSE Cardinality(S)
         /\ Cardinality(S \cup {r}) = IF r \in S THEN Cardinality(S) ELSE Cardinality(S) + 1
         /\ S # {} <=> Cardinality(S) > 0
<1>1. IsFiniteSet(Readers)
  BY CountsAssumption, FS_Interval DEF Readers
<1>2. IsFiniteSet(S)
  BY Zenon, <1>1, FS_Subset
<1>3. Cardinality(S) \in Nat
  BY Zenon, <1>2, FS_CardinalityType
<1>4. Cardinality(S) = 0 <=> S = {}
  BY Zenon, <1>2, FS_EmptySet
<1>5. Cardinality(S \ {r}) = IF r \in S THEN Cardinality(S) - 1 ELSE Cardinality(S)
  BY Zenon, <1>2, FS_RemoveElement
<1>6. Cardinality(S \cup {r}) = IF r \in S THEN Cardinality(S) ELSE Cardinality(S) + 1
  BY Zenon, <1>2, FS_AddElement
<1> QED BY <1>2, <1>3, <1>4, <1>5, <1>6

\* The reader at the receiver, done or to be parked, gives the guard to the
\* first that waits for it; another reader gives up its place in the queue.
LEMMA UnlockEffect ==
  ASSUME IndInv, NEW r \in Readers, NEW s \in {"idle", "done", "parked"},
         Unlock([stage EXCEPT ![r] = s], r)
  PROVE  /\ stage' \in [Readers -> Stages] /\ owner' \in Readers \cup {NoReader}
         /\ waiters' \in Seq(Readers) /\ stage'[r] = s
         /\ ~Tokio => /\ owner' = NoReader /\ waiters' = <<>>
                      /\ \A u \in Readers \ {r} : stage'[u] = stage[u]
         /\ Tokio => /\ Distinct(waiters') /\ (owner' = NoReader => waiters' = <<>>)
                     /\ \A u \in Readers :
                          /\ owner' = u <=> stage'[u] \in {"recv", "recv_wait", "poll_locked"}
                          /\ In(waiters', u) <=> stage'[u] = "lock_wait"
                          /\ u # r => \/ stage'[u] = stage[u]
                                      \/ stage[u] = "lock_wait" /\ stage'[u] = "recv"
<1>0. /\ stage \in [Readers -> Stages] /\ owner \in Readers \cup {NoReader}
      /\ waiters \in Seq(Readers) /\ Distinct(waiters) /\ NoReader \notin Readers /\ s \in Stages
  BY Zenon, Queues, ReaderNumbers DEF IndInv, TypeOK, Stages
<1>1. CASE owner # r
  <2>1. /\ stage' = [stage EXCEPT ![r] = s] /\ owner' = owner /\ waiters' = Without(waiters, r)
    BY Zenon, <1>1 DEF Unlock
  <2>2. /\ waiters' \in Seq(Readers) /\ Distinct(waiters')
        /\ \A x : In(waiters', x) <=> In(waiters, x) /\ x # r
    BY Zenon, <1>0, <2>1, WithoutIs
  <2>3. CASE ~Tokio
    BY Zenon, <1>0, <2>1, <2>2, <2>3, EmptyIs DEF IndInv, AsyncStdInv
  <2>4. CASE Tokio
    <3>1. TokioInv
      BY Zenon, <2>4 DEF IndInv
    <3>2. owner' = NoReader => waiters' = <<>>
      BY Zenon, <2>1, <3>1, EmptyIs DEF TokioInv
    <3>3. \A u \in Readers : u # r => stage'[u] = stage[u]
      BY Zenon, <1>0, <2>1
    <3>4. stage'[r] = s /\ stage' \in [Readers -> Stages]
      BY Zenon, <1>0, <2>1
    <3> QED BY Zenon, <1>0, <1>1, <2>1, <2>2, <2>4, <3>1, <3>2, <3>3, <3>4 DEF TokioInv
  <2> QED BY Zenon, <2>3, <2>4
<1>2. CASE owner = r /\ waiters = <<>>
  <2>1. Tokio /\ TokioInv
    BY Zenon, <1>0, <1>2 DEF IndInv, AsyncStdInv
  <2>2. stage' = [stage EXCEPT ![r] = s] /\ owner' = NoReader /\ waiters' = waiters
    BY Zenon, <1>2 DEF Unlock
  <2> QED BY Zenon, <1>0, <1>2, <2>1, <2>2 DEF TokioInv
<1>3. CASE owner = r /\ waiters # <<>>
  <2>1. Tokio /\ TokioInv
    BY Zenon, <1>0, <1>3 DEF IndInv, AsyncStdInv
  <2>2. PICK h : h = Head(waiters)
    BY Zenon
  <2>3. /\ waiters' = Tail(waiters) /\ owner' = h
        /\ stage' = [[stage EXCEPT ![r] = s] EXCEPT ![h] = "recv"]
    BY Zenon, <1>3, <2>2 DEF Unlock
  <2>4. /\ waiters' \in Seq(Readers) /\ Distinct(waiters') /\ h \in Readers /\ In(waiters, h)
        /\ \A x : In(waiters', x) <=> In(waiters, x) /\ x # h
    BY Zenon, <1>0, <1>3, <2>2, <2>3, TailIs
  <2>5. stage[h] = "lock_wait" /\ h # r
    BY Zenon, <1>3, <2>1, <2>4 DEF TokioInv
  <2>6. /\ stage' \in [Readers -> Stages] /\ stage'[r] = s /\ stage'[h] = "recv"
        /\ \A u \in Readers : u \notin {r, h} => stage'[u] = stage[u]
    BY Zenon, <1>0, <2>3, <2>4, <2>5 DEF Stages
  <2>7. ASSUME NEW u \in Readers
        PROVE  /\ owner' = u <=> stage'[u] \in {"recv", "recv_wait", "poll_locked"}
               /\ In(waiters', u) <=> stage'[u] = "lock_wait"
    BY Zenon, <1>3, <2>1, <2>3, <2>4, <2>5, <2>6 DEF TokioInv
  <2> QED BY Zenon, <1>0, <2>1, <2>3, <2>4, <2>5, <2>6, <2>7
<1> QED BY Zenon, <1>1, <1>2, <1>3

\* A packet, or the end of the channel, is taken by the reader at the receiver.
LEMMA ReadyKeeps ==
  ASSUME IndInv, NEW r \in Readers, Ready(r),
         stage[r] \in {"recv", "notified", "poll", "poll_locked"}
  PROVE  IndInv'
<1> USE DEF IndInv
<1>0. PICK s : s = IF queue = <<>> THEN "done" ELSE "idle"
  BY Zenon
<1>1. /\ s \in {"idle", "done", "parked"} /\ s \in {"idle", "done"} /\ Unlock([stage EXCEPT ![r] = s], r)
      /\ queue # <<>> \/ closed
      /\ UNCHANGED <<conf, rxWaker, listeners, closed, sent, drops>>
  BY Zenon, <1>0 DEF Ready
<1>2. queue \in Seq(1 .. MaxPackets) /\ Len(queue) <= Capacity /\ Capacity \in Nat
  BY Zenon, CountsAssumption DEF TypeOK
<1>3. /\ queue' \in Seq(1 .. MaxPackets) /\ Len(queue') <= Capacity
      /\ queue # <<>> => Len(queue') = Len(queue) - 1 /\ Len(queue) \in Nat
  <2>1. CASE queue = <<>>
    BY Zenon, <1>2, <2>1 DEF Ready
  <2>2. CASE queue # <<>>
    BY <1>2, <2>2 DEF Ready
  <2> QED BY Zenon, <2>1, <2>2
<1>4. /\ stage' \in [Readers -> Stages] /\ owner' \in Readers \cup {NoReader}
      /\ waiters' \in Seq(Readers) /\ stage'[r] = s
      /\ \A u \in Readers : u # r => \/ stage'[u] = stage[u]
                                     \/ stage[u] = "lock_wait" /\ stage'[u] = "recv"
  BY Zenon, <1>1, UnlockEffect
<1>5. TypeOK'
  BY Zenon, <1>1, <1>3, <1>4 DEF TypeOK
<1>6. StagesOfKind'
  BY Zenon, <1>1, <1>4 DEF StagesOfKind, Awaiting, Polling
<1>7. PollerInv'
  <2> SUFFICES ASSUME NEW p \in Readers, OnlyPoller(p)', stage'[p] = "parked" PROVE FALSE
    BY Zenon DEF PollerInv
  <2>1. OnlyPoller(p) /\ stage[p] = "parked"
    BY Zenon, <1>1, <1>4 DEF OnlyPoller, Tokio
  <2> QED BY Zenon, <1>1, <2>1 DEF PollerInv
<1>8. ASSUME Tokio PROVE TokioInv'
  <2>1. TokioInv
    BY Zenon, <1>8
  <2>2. ASSUME NEW u \in Readers PROVE stage'[u] \notin {"recv_wait", "notified"}
    BY Zenon, <1>1, <1>4, <2>1 DEF TokioInv
  <2> QED BY Zenon, <1>1, <1>8, <2>1, <2>2, UnlockEffect DEF TokioInv
<1>9. ASSUME ~Tokio PROVE AsyncStdInv'
  <2>1. AsyncStdInv
    BY Zenon, <1>9
  <2>2. owner' = NoReader /\ waiters' = <<>> /\ \A u \in Readers \ {r} : stage'[u] = stage[u]
    BY Zenon, <1>1, <1>9, UnlockEffect
  <2>3. ASSUME listeners' # <<>> PROVE ~closed' /\ Len(queue') <= Cardinality(Notified')
    <3>1. queue # <<>> /\ ~closed /\ Len(queue) <= Cardinality(Notified)
      BY Zenon, <1>1, <2>1, <2>3 DEF AsyncStdInv
    <3>2. Notified' = Notified \ {r}
      BY Zenon, <1>1, <1>4, <2>2 DEF Notified
    <3>3. Cardinality(Notified) \in Nat /\ Cardinality(Notified') >= Cardinality(Notified) - 1
      <4>1. Notified \in SUBSET Readers
        BY Zenon DEF Notified
      <4>2. /\ Cardinality(Notified) \in Nat
            /\ Cardinality(Notified \ {r}) = IF r \in Notified THEN Cardinality(Notified) - 1 ELSE Cardinality(Notified)
        BY Zenon, <4>1, NotifiedCounts
      <4> QED BY <3>2, <4>2
    <3>4. Cardinality(Notified') \in Nat
      BY Zenon, NotifiedCounts DEF Notified
    <3> QED BY <1>1, <1>3, <3>1, <3>3, <3>4
  <2>4. \A u \in Readers : /\ stage'[u] \notin {"lock", "lock_wait", "poll_locked"}
                           /\ In(listeners', u) <=> stage'[u] = "recv_wait"
    BY Zenon, <1>1, <1>4, <2>1, <2>2 DEF AsyncStdInv
  <2> QED BY Zenon, <1>1, <2>1, <2>2, <2>3, <2>4 DEF AsyncStdInv
<1>10. Tokio' = Tokio
  BY Zenon, <1>1 DEF Tokio
<1> QED BY Zenon, <1>5, <1>6, <1>7, <1>8, <1>9, <1>10

\* A poll that finds nothing parks its task.
LEMMA PollPendingKeeps ==
  ASSUME IndInv, NEW r \in Readers, PollPending(r)
  PROVE  IndInv'
<1> USE DEF IndInv
<1>1. /\ stage[r] \in {"poll", "poll_locked"} /\ (Tokio => stage[r] = "poll_locked") /\ queue = <<>> /\ ~closed
      /\ "parked" \in {"idle", "done", "parked"} /\ Unlock([stage EXCEPT ![r] = "parked"], r)
      /\ rxWaker' = (IF Tokio THEN r ELSE rxWaker)
      /\ UNCHANGED <<conf, listeners, queue, closed, sent, drops>>
  BY Zenon DEF PollPending, AtReceiver
<1>2. /\ stage' \in [Readers -> Stages] /\ owner' \in Readers \cup {NoReader}
      /\ waiters' \in Seq(Readers) /\ stage'[r] = "parked"
      /\ \A u \in Readers : u # r => \/ stage'[u] = stage[u]
                                     \/ stage[u] = "lock_wait" /\ stage'[u] = "recv"
  BY Zenon, <1>1, UnlockEffect
<1>3. Tokio' = Tokio
  BY Zenon, <1>1 DEF Tokio
<1>4. TypeOK'
  BY Zenon, <1>1, <1>2 DEF TypeOK
<1>5. StagesOfKind'
  BY Zenon, <1>1, <1>2 DEF StagesOfKind, Awaiting, Polling
<1>6. PollerInv'
  <2> SUFFICES ASSUME NEW p \in Readers, OnlyPoller(p)', stage'[p] = "parked"
               PROVE  queue' = <<>> /\ ~closed' /\ rxWaker' = p
    BY Zenon DEF PollerInv
  <2>1. conf.kind[r] = "poll"
    BY Zenon, <1>1 DEF StagesOfKind, Polling
  <2>2. p = r /\ Tokio
    BY Zenon, <1>1, <2>1 DEF OnlyPoller, Tokio
  <2> QED BY Zenon, <1>1, <2>2
<1>7. ASSUME Tokio PROVE TokioInv'
  <2>1. TokioInv
    BY Zenon, <1>7
  <2>2. ASSUME NEW u \in Readers PROVE stage'[u] \notin {"recv_wait", "notified"}
    BY Zenon, <1>1, <1>2, <1>7, <2>1 DEF TokioInv
  <2> QED BY Zenon, <1>1, <1>7, <2>1, <2>2, UnlockEffect DEF TokioInv
<1>8. ASSUME ~Tokio PROVE AsyncStdInv'
  <2>1. AsyncStdInv
    BY Zenon, <1>8
  <2>2. owner' = NoReader /\ waiters' = <<>> /\ \A u \in Readers \ {r} : stage'[u] = stage[u]
    BY Zenon, <1>1, <1>8, UnlockEffect
  <2>3. Notified' = Notified
    BY Zenon, <1>1, <1>2, <2>2 DEF Notified
  <2>4. \A u \in Readers : /\ stage'[u] \notin {"lock", "lock_wait", "poll_locked"}
                           /\ In(listeners', u) <=> stage'[u] = "recv_wait"
    BY Zenon, <1>1, <1>2, <2>1, <2>2 DEF AsyncStdInv
  <2> QED BY Zenon, <1>1, <2>1, <2>2, <2>3, <2>4 DEF AsyncStdInv
<1> QED BY Zenon, <1>3, <1>4, <1>5, <1>6, <1>7, <1>8

\* The application drops a recv_from future.
LEMMA DropKeeps ==
  ASSUME IndInv, NEW r \in Readers, Drop(r)
  PROVE  IndInv'
<1> USE DEF IndInv
<1>1. /\ conf.kind[r] = "await" /\ drops' = drops + 1 /\ drops < MaxDrops
      /\ UNCHANGED <<conf, rxWaker, queue, closed, sent>>
  BY Zenon DEF Drop
<1>2. Tokio' = Tokio /\ drops' \in 0 .. MaxDrops /\ \A p : OnlyPoller(p)' = OnlyPoller(p)
  BY <1>1, CountsAssumption DEF Tokio, OnlyPoller, TypeOK
<1>3. CASE stage[r] = "notified" /\ listeners # <<>>
  <2>1. ~Tokio /\ AsyncStdInv /\ stage \in [Readers -> Stages]
    BY Zenon, <1>3 DEF TokioInv, TypeOK
  <2>2. PICK h : h = Head(listeners)
    BY Zenon
  <2>3. /\ stage' = [stage EXCEPT ![r] = "idle", ![h] = "notified"]
        /\ listeners' = Tail(listeners) /\ UNCHANGED lockVars
    BY Zenon, <1>3, <2>2 DEF Drop
  <2>4. /\ listeners' \in Seq(Readers) /\ Distinct(listeners') /\ h \in Readers /\ In(listeners, h)
        /\ \A x : In(listeners', x) <=> In(listeners, x) /\ x # h
    BY Zenon, <1>3, <2>2, <2>3, Queues, TailIs
  <2>5. stage[h] = "recv_wait" /\ h # r
    BY Zenon, <1>3, <2>1, <2>4 DEF AsyncStdInv
  <2>6. /\ stage' \in [Readers -> Stages] /\ stage'[r] = "idle" /\ stage'[h] = "notified"
        /\ \A u \in Readers : u \notin {r, h} => stage'[u] = stage[u]
    BY Zenon, <2>1, <2>3, <2>4, <2>5 DEF Stages
  <2>7. TypeOK'
    BY Zenon, <1>1, <1>2, <2>3, <2>4, <2>6 DEF TypeOK, lockVars
  <2>8. StagesOfKind'
    BY Zenon, <1>1, <2>5, <2>6 DEF StagesOfKind, Awaiting, Polling
  <2>9. PollerInv'
    BY Zenon, <1>2, <2>1 DEF PollerInv, OnlyPoller
  <2>10. Notified' = (Notified \ {r}) \cup {h}
    BY Zenon, <2>4, <2>6 DEF Notified
  <2>11. Cardinality(Notified') = Cardinality(Notified)
    <3>1. Cardinality(Notified \ {r}) = Cardinality(Notified) - 1 /\ Cardinality(Notified) \in Nat
      BY ZenonT(30), <1>3, NotifiedCounts DEF Notified
    <3>2. Cardinality((Notified \ {r}) \cup {h}) = Cardinality(Notified \ {r}) + 1
      <4>1. h \notin Notified \ {r} /\ Notified \ {r} \in SUBSET Readers
        BY Zenon, <2>5 DEF Notified
      <4> QED BY Zenon, <4>1, NotifiedCounts
    <3> QED BY <2>10, <3>1, <3>2
  <2>12. \A u \in Readers : /\ stage'[u] \notin {"lock", "lock_wait", "poll_locked"}
                            /\ In(listeners', u) <=> stage'[u] = "recv_wait"
    BY Zenon, <1>3, <2>1, <2>4, <2>6 DEF AsyncStdInv
  <2>13. AsyncStdInv'
    BY Zenon, <1>1, <1>3, <2>1, <2>3, <2>4, <2>11, <2>12 DEF AsyncStdInv, lockVars
  <2> QED BY Zenon, <1>2, <2>1, <2>7, <2>8, <2>9, <2>13
<1>4. CASE ~(stage[r] = "notified" /\ listeners # <<>>)
  <2>1. /\ Unlock([stage EXCEPT ![r] = "idle"], r) /\ listeners' = Without(listeners, r)
        /\ "idle" \in {"idle", "done", "parked"} /\ stage[r] \notin {"idle", "done"}
    BY Zenon, <1>4 DEF Drop
  <2>2. /\ stage' \in [Readers -> Stages] /\ owner' \in Readers \cup {NoReader}
        /\ waiters' \in Seq(Readers) /\ stage'[r] = "idle"
        /\ \A u \in Readers : u # r => \/ stage'[u] = stage[u]
                                       \/ stage[u] = "lock_wait" /\ stage'[u] = "recv"
    BY Zenon, <2>1, UnlockEffect
  <2>3. /\ listeners' \in Seq(Readers) /\ Distinct(listeners')
        /\ \A x : In(listeners', x) <=> In(listeners, x) /\ x # r
    BY Zenon, <2>1, Queues, WithoutIs
  <2>4. listeners = <<>> => listeners' = <<>>
    BY Zenon, <2>1, EmptyIs
  <2>5. TypeOK'
    BY Zenon, <1>1, <1>2, <2>2, <2>3 DEF TypeOK
  <2>6. StagesOfKind'
    BY Zenon, <1>1, <2>2 DEF StagesOfKind, Awaiting, Polling
  <2>7. PollerInv'
    BY Zenon, <1>1, <1>2, <2>2 DEF PollerInv
  <2>8. ASSUME Tokio PROVE TokioInv'
    <3>1. TokioInv
      BY Zenon, <2>8
    <3>2. ASSUME NEW u \in Readers
          PROVE  /\ stage'[u] = "recv_wait" => queue' = <<>> /\ ~closed' /\ rxWaker' = u
                 /\ stage'[u] # "notified"
      BY Zenon, <1>1, <2>2, <3>1 DEF TokioInv
    <3> QED BY Zenon, <2>1, <2>4, <2>8, <3>1, <3>2, UnlockEffect DEF TokioInv
  <2>9. ASSUME ~Tokio PROVE AsyncStdInv'
    <3>1. AsyncStdInv
      BY Zenon, <2>9
    <3>2. owner' = NoReader /\ waiters' = <<>> /\ \A u \in Readers \ {r} : stage'[u] = stage[u]
      BY Zenon, <2>1, <2>9, UnlockEffect
    <3>3. ASSUME listeners' # <<>> PROVE ~closed' /\ Len(queue') <= Cardinality(Notified')
      <4>1. listeners # <<>> /\ stage[r] # "notified"
        BY Zenon, <1>4, <2>4, <3>3
      <4>2. Notified' = Notified
        BY Zenon, <2>2, <3>2, <4>1 DEF Notified
      <4> QED BY Zenon, <1>1, <3>1, <4>1, <4>2 DEF AsyncStdInv
    <3>4. \A u \in Readers : /\ stage'[u] \notin {"lock", "lock_wait", "poll_locked"}
                             /\ In(listeners', u) <=> stage'[u] = "recv_wait"
      BY Zenon, <2>2, <2>3, <3>1, <3>2 DEF AsyncStdInv
    <3> QED BY Zenon, <2>3, <3>2, <3>3, <3>4 DEF AsyncStdInv
  <2> QED BY Zenon, <1>2, <2>5, <2>6, <2>7, <2>8, <2>9
<1> QED BY Zenon, <1>3, <1>4

\* A call begins; what it will wait for is not touched.
LEMMA BeginKeeps ==
  ASSUME IndInv, NEW r \in Readers, Begin(r)
  PROVE  IndInv'
<1> USE DEF IndInv
<1>0. PICK s : s = IF conf.kind[r] = "poll" THEN "poll" ELSE IF Tokio THEN "lock" ELSE "recv"
  BY Zenon
<1>1. /\ stage[r] = "idle" /\ conf.kind[r] # "off" /\ stage' = [stage EXCEPT ![r] = s]
      /\ UNCHANGED <<conf, owner, waiters, rxWaker, listeners, queue, closed, sent, drops>>
  BY Zenon, <1>0 DEF Begin, lockVars
<1>2. /\ s \in {"poll", "lock", "recv"} /\ (s = "poll" <=> conf.kind[r] = "poll")
      /\ (s = "lock" => Tokio) /\ (s = "recv" => ~Tokio)
  BY Zenon, <1>0
<1>3. /\ stage' \in [Readers -> Stages] /\ stage'[r] = s
      /\ \A u \in Readers : u # r => stage'[u] = stage[u]
  BY Zenon, <1>1, <1>2 DEF TypeOK, Stages
<1>4. Tokio' = Tokio /\ \A p : OnlyPoller(p)' = OnlyPoller(p)
  BY Zenon, <1>1 DEF Tokio, OnlyPoller
<1>5. TypeOK'
  BY Zenon, <1>1, <1>3 DEF TypeOK
<1>6. StagesOfKind'
  <2>1. conf.kind[r] \in {"await", "poll", "off"}
    BY Zenon DEF TypeOK, Config
  <2> QED BY Zenon, <1>1, <1>2, <1>3, <2>1 DEF StagesOfKind, Awaiting, Polling
<1>7. PollerInv'
  BY Zenon, <1>1, <1>2, <1>3, <1>4 DEF PollerInv
<1>8. ASSUME Tokio PROVE TokioInv'
  BY Zenon, <1>1, <1>2, <1>3, <1>8 DEF TokioInv
<1>9. ASSUME ~Tokio PROVE AsyncStdInv'
  <2>1. Notified' = Notified
    BY Zenon, <1>1, <1>2, <1>3 DEF Notified
  <2> QED BY Zenon, <1>1, <1>2, <1>3, <1>9, <2>1 DEF AsyncStdInv
<1> QED BY Zenon, <1>4, <1>5, <1>6, <1>7, <1>8, <1>9

\* The lock: the guard, or a place in the mutex's queue.
LEMMA LockKeeps ==
  ASSUME IndInv, NEW r \in Readers, Lock(r)
  PROVE  IndInv'
<1> USE DEF IndInv
<1>1. stage[r] = "lock" /\ UNCHANGED <<conf, rxWaker, listeners, queue, closed, sent, drops>>
  BY Zenon DEF Lock
<1>2. Tokio /\ Tokio' /\ TokioInv /\ stage \in [Readers -> Stages] /\ \A p : OnlyPoller(p)' = OnlyPoller(p)
  BY Zenon, <1>1 DEF Tokio, OnlyPoller, AsyncStdInv, TypeOK
<1>3. PICK s : s = IF owner = NoReader THEN "recv" ELSE "lock_wait"
  BY Zenon
<1>4. /\ stage' = [stage EXCEPT ![r] = s] /\ s \in {"recv", "lock_wait"}
      /\ s = "recv" => owner = NoReader /\ owner' = r /\ waiters' = waiters
      /\ s = "lock_wait" => owner # NoReader /\ owner' = owner /\ waiters' = Append(waiters, r)
  BY Zenon, <1>3 DEF Lock
<1>5. /\ stage' \in [Readers -> Stages] /\ stage'[r] = s
      /\ \A u \in Readers : u # r => stage'[u] = stage[u]
  BY Zenon, <1>2, <1>4 DEF Stages
<1>6. /\ waiters' \in Seq(Readers) /\ Distinct(waiters')
      /\ s = "lock_wait" => \A x : In(waiters', x) <=> In(waiters, x) \/ x = r
  <2>1. ~In(waiters, r)
    BY Zenon, <1>1, <1>2 DEF TokioInv
  <2>2. waiters \in Seq(Readers) /\ Distinct(waiters)
    BY Zenon, Queues
  <2>3. /\ Append(waiters, r) \in Seq(Readers) /\ Distinct(Append(waiters, r))
        /\ \A x : In(Append(waiters, r), x) <=> In(waiters, x) \/ x = r
    BY Zenon, <2>1, <2>2, AppendIs
  <2>4. CASE s = "recv"
    BY Zenon, <1>4, <2>2, <2>4
  <2>5. CASE s = "lock_wait"
    BY Zenon, <1>4, <2>3, <2>5
  <2> QED BY Zenon, <1>4, <2>4, <2>5
<1>7. TypeOK'
  BY Zenon, <1>1, <1>4, <1>5, <1>6 DEF TypeOK
<1>8. StagesOfKind'
  BY Zenon, <1>1, <1>4, <1>5 DEF StagesOfKind, Awaiting, Polling
<1>9. PollerInv'
  BY Zenon, <1>1, <1>2, <1>4, <1>5 DEF PollerInv
<1>10. owner' # NoReader
  BY Zenon, <1>4, ReaderNumbers
<1>11. ASSUME NEW u \in Readers
       PROVE  /\ owner' = u <=> stage'[u] \in {"recv", "recv_wait", "poll_locked"}
              /\ In(waiters', u) <=> stage'[u] = "lock_wait"
              /\ stage'[u] = "recv_wait" => queue' = <<>> /\ ~closed' /\ rxWaker' = u
              /\ stage'[u] # "notified"
  <2>1. CASE s = "recv"
    BY Zenon, <1>1, <1>2, <1>4, <1>5, <2>1, ReaderNumbers DEF TokioInv
  <2>2. CASE s = "lock_wait"
    BY Zenon, <1>1, <1>2, <1>4, <1>5, <1>6, <2>2 DEF TokioInv
  <2> QED BY Zenon, <1>4, <2>1, <2>2
<1>12. TokioInv'
  BY Zenon, <1>1, <1>2, <1>6, <1>10, <1>11 DEF TokioInv
<1> QED BY Zenon, <1>2, <1>7, <1>8, <1>9, <1>12

\* A poll takes the guard, or parks without a waker; the only poller is never
\* refused the guard.
LEMMA PollLockKeeps ==
  ASSUME IndInv, NEW r \in Readers, PollLock(r)
  PROVE  IndInv'
<1> USE DEF IndInv
<1>1. /\ Tokio /\ stage[r] = "poll"
      /\ UNCHANGED <<conf, waiters, rxWaker, listeners, queue, closed, sent, drops>>
  BY Zenon DEF PollLock
<1>2. Tokio' /\ TokioInv /\ stage \in [Readers -> Stages] /\ \A p : OnlyPoller(p)' = OnlyPoller(p)
  BY Zenon, <1>1 DEF Tokio, OnlyPoller, TypeOK
<1>3. PICK s : s = IF owner = NoReader THEN "poll_locked" ELSE "parked"
  BY Zenon
<1>4. /\ stage' = [stage EXCEPT ![r] = s] /\ s \in {"poll_locked", "parked"}
      /\ s = "poll_locked" => owner = NoReader /\ owner' = r
      /\ s = "parked" => owner # NoReader /\ owner' = owner
  BY Zenon, <1>3 DEF PollLock
<1>5. /\ stage' \in [Readers -> Stages] /\ stage'[r] = s
      /\ \A u \in Readers : u # r => stage'[u] = stage[u]
  BY Zenon, <1>2, <1>4 DEF Stages
<1>6. TypeOK'
  BY Zenon, <1>1, <1>4, <1>5 DEF TypeOK
<1>7. StagesOfKind'
  BY Zenon, <1>1, <1>4, <1>5 DEF StagesOfKind, Awaiting, Polling
<1>8. PollerInv'
  <2> SUFFICES ASSUME NEW p \in Readers, OnlyPoller(p), stage'[p] = "parked"
               PROVE  queue' = <<>> /\ ~closed' /\ rxWaker' = p
    BY Zenon, <1>2 DEF PollerInv
  <2>1. p = r
    <3>1. conf.kind[r] = "poll"
      BY Zenon, <1>1 DEF StagesOfKind, Polling
    <3> QED BY <3>1 DEF OnlyPoller
  <2>2. owner # NoReader /\ owner \in Readers /\ owner # r
    BY Zenon, <1>1, <1>2, <1>4, <1>5, <2>1 DEF TokioInv, TypeOK
  <2>3. conf.kind[owner] # "off"
    BY Zenon, <1>2, <2>2 DEF TokioInv, StagesOfKind, Awaiting, Polling
  <2> QED BY Zenon, <2>1, <2>2, <2>3 DEF OnlyPoller
<1>9. ASSUME NEW u \in Readers
      PROVE  /\ owner' = u <=> stage'[u] \in {"recv", "recv_wait", "poll_locked"}
             /\ In(waiters', u) <=> stage'[u] = "lock_wait"
             /\ stage'[u] = "recv_wait" => queue' = <<>> /\ ~closed' /\ rxWaker' = u
             /\ stage'[u] # "notified"
  <2>1. CASE s = "poll_locked"
    BY Zenon, <1>1, <1>2, <1>4, <1>5, <2>1, ReaderNumbers DEF TokioInv
  <2>2. CASE s = "parked"
    BY Zenon, <1>1, <1>2, <1>4, <1>5, <2>2 DEF TokioInv
  <2> QED BY Zenon, <1>4, <2>1, <2>2
<1>10. TokioInv'
  <2>1. owner' # NoReader
    BY Zenon, <1>4, ReaderNumbers
  <2> QED BY Zenon, <1>1, <1>2, <1>9, <2>1 DEF TokioInv
<1> QED BY Zenon, <1>2, <1>6, <1>7, <1>8, <1>10

\* A receive that finds nothing registers before it waits.
LEMMA RecvPendingKeeps ==
  ASSUME IndInv, NEW r \in Readers, RecvPending(r)
  PROVE  IndInv'
<1> USE DEF IndInv
<1>1. /\ stage[r] \in {"recv", "notified"} /\ queue = <<>> /\ ~closed
      /\ stage' = [stage EXCEPT ![r] = "recv_wait"]
      /\ UNCHANGED <<conf, owner, waiters, queue, closed, sent, drops>>
      /\ Tokio => rxWaker' = r /\ listeners' = listeners
      /\ ~Tokio => listeners' = Append(listeners, r) /\ rxWaker' = rxWaker
  BY Zenon DEF RecvPending, lockVars
<1>2. Tokio' = Tokio /\ stage \in [Readers -> Stages] /\ \A p : OnlyPoller(p)' = OnlyPoller(p)
  BY Zenon, <1>1 DEF Tokio, OnlyPoller, TypeOK
<1>3. /\ stage' \in [Readers -> Stages] /\ stage'[r] = "recv_wait"
      /\ \A u \in Readers : u # r => stage'[u] = stage[u]
  BY Zenon, <1>1, <1>2 DEF Stages
<1>4. listeners' \in Seq(Readers)
  BY <1>1, Queues
<1>5. TypeOK'
  BY Zenon, <1>1, <1>3, <1>4 DEF TypeOK
<1>6. StagesOfKind'
  BY Zenon, <1>1, <1>3 DEF StagesOfKind, Awaiting, Polling
<1>7. PollerInv'
  <2> SUFFICES ASSUME NEW p \in Readers, OnlyPoller(p), stage'[p] = "parked" PROVE FALSE
    BY Zenon, <1>2 DEF PollerInv
  <2>1. conf.kind[r] = "await"
    BY Zenon, <1>1 DEF StagesOfKind, Awaiting
  <2> QED BY Zenon, <2>1 DEF OnlyPoller
<1>8. ASSUME Tokio PROVE TokioInv'
  <2>1. TokioInv
    BY Zenon, <1>8
  <2>2. owner = r
    BY Zenon, <1>1, <2>1 DEF TokioInv
  <2>3. ASSUME NEW u \in Readers
        PROVE  /\ owner' = u <=> stage'[u] \in {"recv", "recv_wait", "poll_locked"}
               /\ In(waiters', u) <=> stage'[u] = "lock_wait"
               /\ stage'[u] = "recv_wait" => queue' = <<>> /\ ~closed' /\ rxWaker' = u
               /\ stage'[u] # "notified"
    BY Zenon, <1>1, <1>3, <1>8, <2>1, <2>2 DEF TokioInv
  <2> QED BY Zenon, <1>1, <1>8, <2>1, <2>3 DEF TokioInv
<1>9. ASSUME ~Tokio PROVE AsyncStdInv'
  <2>1. AsyncStdInv
    BY Zenon, <1>9
  <2>2. ~In(listeners, r)
    BY Zenon, <1>1, <2>1 DEF AsyncStdInv
  <2>3. Distinct(listeners') /\ \A x : In(listeners', x) <=> In(listeners, x) \/ x = r
    <3>1. listeners \in Seq(Readers) /\ Distinct(listeners) /\ listeners' = Append(listeners, r)
      BY Zenon, <1>1, <1>9, Queues
    <3>2. /\ Distinct(Append(listeners, r))
          /\ \A x : In(Append(listeners, r), x) <=> In(listeners, x) \/ x = r
      BY Zenon, <2>2, <3>1, AppendIs
    <3> QED BY Zenon, <3>1, <3>2
  <2>4. Len(queue') <= Cardinality(Notified')
    <3>1. Cardinality(Notified') \in Nat
      BY Zenon, NotifiedCounts DEF Notified
    <3>2. Len(queue') = 0
      BY Zenon, <1>1
    <3> QED BY <3>1, <3>2
  <2>5. \A u \in Readers : /\ stage'[u] \notin {"lock", "lock_wait", "poll_locked"}
                           /\ In(listeners', u) <=> stage'[u] = "recv_wait"
    BY Zenon, <1>1, <1>3, <2>1, <2>3 DEF AsyncStdInv
  <2> QED BY Zenon, <1>1, <2>1, <2>3, <2>4, <2>5 DEF AsyncStdInv
<1> QED BY Zenon, <1>2, <1>5, <1>6, <1>7, <1>8, <1>9

\* The dispatcher sends a packet or closes: on tokio the receiver's waker is
\* used up and the receive that waited is polled.
LEMMA WakeKeeps ==
  ASSUME IndInv, Tokio, WakeReceiver, queue' \in Seq(1 .. MaxPackets), Len(queue') <= Capacity,
         closed' \in BOOLEAN, sent' \in 0 .. MaxPackets,
         UNCHANGED <<conf, owner, waiters, listeners, drops>>
  PROVE  IndInv'
<1> USE DEF IndInv
<1>1. /\ rxWaker' = NoReader /\ Tokio' /\ TokioInv /\ \A p : OnlyPoller(p)' = OnlyPoller(p)
      /\ stage' = [r \in Readers |-> IF r = rxWaker THEN Woken(stage[r]) ELSE stage[r]]
  BY Zenon DEF WakeReceiver, Tokio, OnlyPoller
<1>2. ASSUME NEW u \in Readers
      PROVE  /\ stage'[u] \in Stages
             /\ \/ stage'[u] = stage[u] /\ (u = rxWaker => stage[u] \notin {"recv_wait", "parked"})
                \/ stage[u] = "recv_wait" /\ stage'[u] = "recv"
                \/ stage[u] = "parked" /\ stage'[u] = "poll"
  <2>1. stage[u] \in Stages
    BY Zenon DEF TypeOK
  <2> QED BY Zenon, <1>1, <2>1 DEF Woken, Stages
<1>3. TypeOK'
  <2>1. stage' \in [Readers -> Stages]
    BY Zenon, <1>1, <1>2
  <2> QED BY Zenon, <1>1, <2>1 DEF TypeOK
<1>4. StagesOfKind'
  BY Zenon, <1>2 DEF StagesOfKind, Awaiting, Polling
<1>5. PollerInv'
  <2> SUFFICES ASSUME NEW p \in Readers, OnlyPoller(p), stage'[p] = "parked" PROVE FALSE
    BY Zenon, <1>1 DEF PollerInv
  <2> QED BY Zenon, <1>2 DEF PollerInv
<1>6. ASSUME NEW u \in Readers
      PROVE  /\ owner' = u <=> stage'[u] \in {"recv", "recv_wait", "poll_locked"}
             /\ In(waiters', u) <=> stage'[u] = "lock_wait"
             /\ stage'[u] \notin {"recv_wait", "notified"}
  BY Zenon, <1>1, <1>2 DEF TokioInv
<1>7. TokioInv'
  BY Zenon, <1>1, <1>6 DEF TokioInv
<1> QED BY Zenon, <1>1, <1>3, <1>4, <1>5, <1>7

\* On async-std a packet notifies one listener.
LEMMA SendNotifies ==
  ASSUME IndInv, ~Tokio, Send
  PROVE  IndInv'
<1> USE DEF IndInv
<1>1. /\ ~closed /\ queue' = Append(queue, sent + 1) /\ sent' = sent + 1 /\ sent < MaxPackets
      /\ Len(queue) < Capacity /\ Notify(1)
      /\ UNCHANGED <<conf, owner, waiters, rxWaker, closed, drops>>
  BY Zenon DEF Send, lockVars
<1>2. /\ ~Tokio' /\ AsyncStdInv /\ stage \in [Readers -> Stages] /\ listeners \in Seq(Readers)
      /\ \A p : ~OnlyPoller(p)'
  BY Zenon, <1>1 DEF Tokio, OnlyPoller, TypeOK
<1>3. /\ queue' \in Seq(1 .. MaxPackets) /\ Len(queue') = Len(queue) + 1 /\ Len(queue) \in Nat
      /\ Len(queue') <= Capacity /\ sent' \in 0 .. MaxPackets
  BY <1>1, CountsAssumption DEF TypeOK
<1>4. PollerInv'
  BY Zenon, <1>2 DEF PollerInv
<1>5. CASE listeners = <<>>
  <2>1. listeners' = <<>> /\ stage' = stage
    BY Zenon, <1>1, <1>5, NotifyOne
  <2> QED BY Zenon, <1>1, <1>2, <1>3, <1>4, <1>5, <2>1 DEF TypeOK, StagesOfKind, AsyncStdInv
<1>6. CASE listeners # <<>>
  <2>1. PICK h : h = Head(listeners)
    BY Zenon
  <2>2. listeners' = Tail(listeners) /\ stage' = [stage EXCEPT ![h] = "notified"]
    BY Zenon, <1>1, <1>6, <2>1, NotifyOne
  <2>3. /\ listeners' \in Seq(Readers) /\ Distinct(listeners') /\ h \in Readers /\ In(listeners, h)
        /\ \A x : In(listeners', x) <=> In(listeners, x) /\ x # h
    BY Zenon, <1>6, <2>1, <2>2, Queues, TailIs
  <2>4. stage[h] = "recv_wait"
    BY Zenon, <1>2, <2>3 DEF AsyncStdInv
  <2>5. /\ stage' \in [Readers -> Stages] /\ stage'[h] = "notified"
        /\ \A u \in Readers : u # h => stage'[u] = stage[u]
    BY Zenon, <1>2, <2>2, <2>3 DEF Stages
  <2>6. TypeOK'
    BY Zenon, <1>1, <1>3, <2>3, <2>5 DEF TypeOK
  <2>7. StagesOfKind'
    BY Zenon, <1>1, <2>4, <2>5 DEF StagesOfKind, Awaiting, Polling
  <2>8. Notified' = Notified \cup {h} /\ h \notin Notified /\ Notified \in SUBSET Readers
    BY Zenon, <2>3, <2>4, <2>5 DEF Notified
  <2>9. Cardinality(Notified') = Cardinality(Notified) + 1 /\ Cardinality(Notified) \in Nat
    BY Zenon, <2>8, NotifiedCounts
  <2>10. Len(queue) <= Cardinality(Notified)
    BY Zenon, <1>2, <1>6 DEF AsyncStdInv
  <2>11. \A u \in Readers : /\ stage'[u] \notin {"lock", "lock_wait", "poll_locked"}
                            /\ In(listeners', u) <=> stage'[u] = "recv_wait"
    BY Zenon, <1>2, <2>3, <2>4, <2>5 DEF AsyncStdInv
  <2>12. Len(queue') <= Cardinality(Notified')
    BY <1>3, <2>9, <2>10
  <2>13. AsyncStdInv'
    BY Zenon, <1>1, <1>2, <2>3, <2>11, <2>12 DEF AsyncStdInv
  <2> QED BY Zenon, <1>2, <1>4, <2>6, <2>7, <2>13
<1> QED BY Zenon, <1>5, <1>6

\* On async-std the close notifies every listener.
LEMMA CloseNotifies ==
  ASSUME IndInv, ~Tokio, Close
  PROVE  IndInv'
<1> USE DEF IndInv
<1>1. /\ closed' = TRUE /\ Notify(Len(listeners))
      /\ UNCHANGED <<conf, owner, waiters, rxWaker, queue, sent, drops>>
  BY Zenon DEF Close, lockVars
<1>2. /\ ~Tokio' /\ AsyncStdInv /\ stage \in [Readers -> Stages]
      /\ \A p : ~OnlyPoller(p)'
  BY Zenon, <1>1 DEF Tokio, OnlyPoller, TypeOK
<1>3. /\ listeners' = <<>>
      /\ stage' = [r \in Readers |-> IF In(listeners, r) THEN "notified" ELSE stage[r]]
  BY Zenon, <1>1, NotifyAll
<1>4. ASSUME NEW u \in Readers
      PROVE  /\ stage'[u] \in Stages
             /\ IF stage[u] = "recv_wait" THEN stage'[u] = "notified" ELSE stage'[u] = stage[u]
  BY Zenon, <1>2, <1>3 DEF AsyncStdInv, Stages
<1>5. TypeOK'
  <2>1. stage' \in [Readers -> Stages] /\ listeners' \in Seq(Readers)
    BY <1>3, <1>4
  <2> QED BY Zenon, <1>1, <2>1 DEF TypeOK
<1>6. StagesOfKind'
  BY Zenon, <1>1, <1>4 DEF StagesOfKind, Awaiting, Polling
<1>7. PollerInv'
  BY Zenon, <1>2 DEF PollerInv
<1>8. AsyncStdInv'
  BY Zenon, <1>1, <1>2, <1>3, <1>4, EmptyIs DEF AsyncStdInv
<1> QED BY Zenon, <1>2, <1>5, <1>6, <1>7, <1>8

\* IndInv is inductive: one step per action.
LEMMA StepKeeps ==
  ASSUME IndInv, [Next]_vars
  PROVE  IndInv'
<1>1. CASE Send
  <2>1. CASE Tokio
    <3>1. queue' \in Seq(1 .. MaxPackets) /\ Len(queue') <= Capacity /\ sent' \in 0 .. MaxPackets
      BY <1>1, CountsAssumption DEF Send, IndInv, TypeOK
    <3> QED BY Zenon, <1>1, <2>1, <3>1, WakeKeeps DEF Send, IndInv, TypeOK, lockVars
  <2> QED BY Zenon, <1>1, <2>1, SendNotifies
<1>2. CASE Close
  <2>1. CASE Tokio
    BY Zenon, <1>2, <2>1, WakeKeeps DEF Close, IndInv, TypeOK, lockVars
  <2> QED BY Zenon, <1>2, <2>1, CloseNotifies
<1>3. ASSUME NEW r \in Readers, Reader(r) PROVE IndInv'
  <2>1. CASE Recv(r)
    BY Zenon, <2>1, ReadyKeeps DEF Recv
  <2>2. CASE PollRecv(r)
    BY Zenon, <2>2, ReadyKeeps DEF PollRecv, AtReceiver
  <2> QED BY Zenon, <1>3, <2>1, <2>2, BeginKeeps, LockKeeps, RecvPendingKeeps, PollLockKeeps, PollPendingKeeps
          DEF Reader
<1>4. ASSUME NEW r \in Readers, Drop(r) PROVE IndInv'
  BY Zenon, <1>4, DropKeeps
<1>5. CASE UNCHANGED vars
  BY Zenon, <1>5 DEF vars, lockVars, IndInv, TypeOK, StagesOfKind, PollerInv, OnlyPoller, Tokio, TokioInv,
     AsyncStdInv, Notified
<1> QED BY Zenon, <1>1, <1>2, <1>3, <1>4, <1>5 DEF Next

\* At the start no reader waits.
LEMMA InitKeeps ==
  ASSUME Init
  PROVE  IndInv
<1>1. TypeOK
  <2>1. conf \in Config /\ stage \in [Readers -> Stages] /\ queue = <<>> /\ waiters = <<>> /\ listeners = <<>>
    BY Zenon, ConfigsAssumption DEF Init, Stages
  <2>2. Len(queue) <= Capacity /\ sent \in 0 .. MaxPackets /\ drops \in 0 .. MaxDrops
    BY <2>1, CountsAssumption DEF Init
  <2>3. queue \in Seq(1 .. MaxPackets) /\ waiters \in Seq(Readers) /\ listeners \in Seq(Readers)
    BY <2>1
  <2> QED BY Zenon, <2>1, <2>2, <2>3 DEF Init, TypeOK
<1>2. StagesOfKind /\ PollerInv
  BY Zenon DEF Init, StagesOfKind, PollerInv, Awaiting, Polling
<1>3. TokioInv
  BY Zenon, EmptyIs, ReaderNumbers DEF Init, TokioInv
<1>4. AsyncStdInv
  BY Zenon, EmptyIs DEF Init, AsyncStdInv
<1> QED BY Zenon, <1>1, <1>2, <1>3, <1>4 DEF IndInv

-----------------------------------------------------------------------------
\* The inductive invariant holds in every reachable state, for every
\* configuration of readers.
THEOREM Invariance == Spec => []IndInv
BY InitKeeps, StepKeeps, PTL DEF Spec

\* A reader that awaits has another one awake to make progress for it.
LEMMA AwaiterHasWaker ==
  ASSUME IndInv, NEW r \in Readers, stage[r] \in {"lock_wait", "recv_wait"}, queue # <<>> \/ closed
  PROVE  \E s \in Readers : ~Asleep(s) /\ stage[s] \notin {"idle", "done"}
<1>1. CASE Tokio
  <2>1. TokioInv
    BY Zenon, <1>1 DEF IndInv
  <2>2. In(waiters, r) /\ waiters # <<>>
    BY Zenon, <2>1, EmptyIs DEF TokioInv
  <2>3. owner \in Readers
    BY Zenon, <2>1, <2>2 DEF TokioInv, IndInv, TypeOK
  <2>4. stage[owner] \in {"recv", "poll_locked"}
    BY Zenon, <2>1, <2>3 DEF TokioInv
  <2> QED BY Zenon, <2>3, <2>4 DEF Asleep
<1>2. CASE ~Tokio
  <2>1. AsyncStdInv
    BY Zenon, <1>2 DEF IndInv
  <2>2. In(listeners, r) /\ listeners # <<>>
    BY Zenon, <2>1, EmptyIs DEF AsyncStdInv
  <2>3. queue # <<>> /\ Len(queue) <= Cardinality(Notified)
    BY Zenon, <2>1, <2>2 DEF AsyncStdInv
  <2>4. Len(queue) \in Nat /\ Len(queue) > 0
    BY <2>3 DEF IndInv, TypeOK
  <2>5. Notified \in SUBSET Readers
    BY Zenon DEF Notified
  <2>6. Cardinality(Notified) \in Nat /\ (Notified # {} <=> Cardinality(Notified) > 0)
    BY Zenon, <2>5, NotifiedCounts
  <2>7. Notified # {}
    BY <2>3, <2>4, <2>6
  <2> QED BY Zenon, <2>7 DEF Notified, Asleep
<1> QED BY Zenon, <1>1, <1>2

\* recv_from().await is never left asleep with a packet queued or the channel
\* ended, whatever kinds of readers share the view: one that the packet woke, or
\* the reader with the guard, is running (Send, Close, Drop, Unlock, Notify).
THEOREM AwaiterNotLeftHolds == Spec => []AwaiterNotLeft
<1>1. ASSUME IndInv PROVE AwaiterNotLeft
  BY Zenon, <1>1, AwaiterHasWaker DEF AwaiterNotLeft
<1> QED BY <1>1, Invariance, PTL

\* No wake-up is lost while the view is read by awaiting readers only, or on
\* tokio by a single polling one, for every number of readers and every capacity
\* (recv_packet, poll_recv_packet, send_routed_packet).
THEOREM PacketWakesReaderHolds == Spec => [](SafeUse => PacketWakesReader)
<1>1. ASSUME IndInv, SafeUse PROVE PacketWakesReader
  <2>1. TypeOK
    BY Zenon, <1>1 DEF IndInv
  <2>2. ASSUME queue # <<>> \/ closed, NEW r \in Readers, Asleep(r)
        PROVE  \E s \in Readers : ~Asleep(s) /\ stage[s] \notin {"idle", "done"}
    <3>1. stage[r] # "parked"
      <4>1. SUFFICES ASSUME stage[r] = "parked" PROVE FALSE
        BY Zenon
      <4>2. conf.kind[r] = "poll"
        BY Zenon, <1>1, <4>1 DEF IndInv, StagesOfKind, Polling
      <4>3. OnlyPoller(r)
        BY Zenon, <1>1, <4>2 DEF SafeUse, OnlyPoller
      <4> QED BY Zenon, <1>1, <2>2, <4>1, <4>3 DEF IndInv, PollerInv
    <3> QED BY Zenon, <1>1, <2>2, <3>1, AwaiterHasWaker DEF Asleep
  <2> QED BY Zenon, <2>1, <2>2 DEF PacketWakesReader
<1> QED BY <1>1, Invariance, PTL

\* The types hold for every configuration.
THEOREM TypeCorrect == Spec => []TypeOK
<1>1. IndInv => TypeOK
  BY Zenon DEF IndInv
<1> QED BY <1>1, Invariance, PTL
=============================================================================

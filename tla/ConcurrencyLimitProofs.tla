----------------------- MODULE ConcurrencyLimitProofs -----------------------
(***************************************************************************)
(* Proofs about ConcurrencyLimit for every maximum and every set of guards *)
(* and callers: the accounting of permits, the bound, the absence of lost  *)
(* wake-ups and the refinement of PermitPool.                              *)
(***************************************************************************)
EXTENDS ConcurrencyLimit, FiniteSetTheorems, TLAPS

\* A compare-and-exchange in flight was started from a value that leaves room
\* (acquires) or that is not zero (drops).
InFlight == /\ wpc = "cas" => Limited /\ wseen < MaxConcurrency
            /\ wpc \in {"register", "recheck", "pending"} => Limited
            /\ \A c \in Callers : cpc[c] = "cas" => Limited /\ cseen[c] < MaxConcurrency
            /\ \A p \in Permits : permit[p] = "releasing" => Limited /\ pseen[p] > 0

\* Between AtomicWaker::register and the next poll the waker is in place, or it
\* has been used; and a permit that became free has its wake-up on the way.
WakeComing == /\ wpc = "recheck" => registered \/ notified
              /\ wpc = "pending" =>
                   \/ notified
                   \/ /\ registered
                      /\ active < MaxConcurrency => \E p \in Permits : permit[p] = "waking"

\* The inductive invariant.
IndInv == /\ TypeOK
          /\ InFlight
          /\ PermitAccounting
          /\ Limited => active <= MaxConcurrency
          /\ WakeComing

\* A limit that exists is a positive number (new() turns Some(0) into no limit).
LEMMA LimitIsPositive ==
  ASSUME TypeOK PROVE Limited => MaxConcurrency \in Nat /\ MaxConcurrency > 0
  BY Zenon, LimitAssumption DEF Limited, MaxConcurrency, TypeOK, Config

\* No step changes the limit, so none changes what is derived from it.
LEMMA LimitIsRigid ==
  ASSUME [Next]_vars
  PROVE  conf' = conf /\ MaxConcurrency' = MaxConcurrency /\ Limited' = Limited
  BY Zenon DEF Next, vars, MaxConcurrency, Limited

\* The guards with a permit are finitely many, so counting them makes sense.
LEMMA OutstandingFinite == IsFiniteSet(Outstanding) /\ Cardinality(Outstanding) \in Nat
  <1>1. Outstanding \subseteq Permits
    BY Zenon DEF Outstanding
  <1>2. IsFiniteSet(Outstanding)
    BY Zenon, <1>1, PermitsAssumption, FS_Subset
  <1>3. QED
    BY Zenon, <1>2, FS_CardinalityType

\* A guard that is created adds exactly one to the permits outstanding.
LEMMA HoldCounts ==
  ASSUME TypeOK, NEW p \in Permits, Hold(p)
  PROVE  /\ p \notin Outstanding
         /\ Outstanding' = Outstanding \cup {p}
         /\ Cardinality(Outstanding') = Cardinality(Outstanding) + 1
  <1>1. p \notin Outstanding
    BY Zenon DEF Outstanding, Hold
  <1>2. Outstanding' = Outstanding \cup {p}
    BY Zenon DEF Outstanding, Hold, TypeOK
  <1>3. QED
    BY Zenon, <1>1, <1>2, OutstandingFinite, FS_AddElement

\* A drop whose exchange succeeded takes exactly one from them.
LEMMA ReleaseCounts ==
  ASSUME TypeOK, NEW p \in Outstanding, NEW s \in {"free", "waking"},
         permit' = [permit EXCEPT ![p] = s]
  PROVE  /\ Outstanding' = Outstanding \ {p}
         /\ Cardinality(Outstanding') = Cardinality(Outstanding) - 1
         /\ Cardinality(Outstanding) > 0
  <1>1. Outstanding' = Outstanding \ {p}
    BY Zenon DEF Outstanding, TypeOK
  <1>2. Cardinality(Outstanding') = Cardinality(Outstanding) - 1
    BY Zenon, <1>1, OutstandingFinite, FS_RemoveElement
  <1>3. Cardinality(Outstanding) # 0
    BY Zenon, OutstandingFinite, FS_EmptySet
  <1>4. QED
    BY <1>1, <1>2, <1>3, OutstandingFinite

\* A limit with a guard outstanding has a positive count, so a drop never sees 0.
LEMMA DropSeesPositive ==
  ASSUME TypeOK, PermitAccounting, Limited, NEW p \in Outstanding
  PROVE  active > 0
  <1>1. Cardinality(Outstanding) # 0
    BY Zenon, OutstandingFinite, FS_EmptySet
  <1>2. QED
    BY <1>1 DEF PermitAccounting, TypeOK

\* A step that leaves the counter and the guards alone keeps the accounting.
LEMMA QuietCounts ==
  ASSUME IndInv, Limited' = Limited, MaxConcurrency' = MaxConcurrency, UNCHANGED <<active, permit>>
  PROVE  PermitAccounting' /\ (Limited => active <= MaxConcurrency)'
  <1>1. Outstanding' = Outstanding
    BY Zenon DEF Outstanding
  <1>2. QED
    BY Zenon, <1>1 DEF IndInv, PermitAccounting

\* The threads that take part in a configuration are callers.
LEMMA ConfCallers == ASSUME TypeOK PROVE conf.callers \subseteq Callers
  BY Zenon DEF TypeOK, Config

-----------------------------------------------------------------------------
\* The initial state satisfies the inductive invariant.
LEMMA InitInv == Init => IndInv
  <1> SUFFICES ASSUME Init PROVE IndInv
    BY Zenon
  <1>1. TypeOK
    BY Zenon, LimitAssumption DEF Init, TypeOK, WaiterStates
  <1>2. Outstanding = {}
    BY Zenon DEF Init, Outstanding
  <1>3. Cardinality(Outstanding) = 0
    BY Zenon, <1>2, FS_EmptySet
  <1>4. InFlight /\ WakeComing
    BY Zenon DEF Init, InFlight, WakeComing
  <1>5. PermitAccounting /\ (Limited => active <= MaxConcurrency)
    BY <1>1, <1>3, LimitIsPositive DEF Init, PermitAccounting
  <1>6. QED
    BY Zenon, <1>1, <1>4, <1>5 DEF IndInv

\* Every step of the listener, of a caller and of a drop preserves it.
LEMMA NextInv == IndInv /\ [Next]_vars => IndInv'
  <1> SUFFICES ASSUME IndInv, [Next]_vars PROVE IndInv'
    BY Zenon
  <1>0. /\ conf' = conf /\ MaxConcurrency' = MaxConcurrency /\ Limited' = Limited
        /\ Limited => MaxConcurrency \in Nat /\ MaxConcurrency > 0
    BY Zenon, LimitIsPositive, LimitIsRigid DEF IndInv
  <1> USE <1>0 DEF IndInv
  <1>1. CASE Acquire
    <2>1. TypeOK'
      BY Zenon, <1>1 DEF TypeOK, WaiterStates, Acquire, InFlight, vars, waiterVars, callerVars, permitVars
    <2>2. PermitAccounting' /\ (Limited => active <= MaxConcurrency)'
      BY Zenon, <1>1, QuietCounts DEF Acquire, vars, waiterVars, callerVars, permitVars
    <2>4. InFlight' /\ WakeComing'
      BY Zenon, <1>1 DEF TypeOK, InFlight, WakeComing, Acquire, vars, waiterVars, callerVars, permitVars
    <2>5. QED
      BY Zenon, <2>1, <2>2, <2>4
  <1>2. CASE PollLoad
    <2>1. TypeOK'
      BY Zenon, <1>2 DEF TypeOK, WaiterStates, PollLoad, InFlight, vars, waiterVars, callerVars, permitVars
    <2>2. PermitAccounting' /\ (Limited => active <= MaxConcurrency)'
      BY Zenon, <1>2, QuietCounts DEF PollLoad, vars, waiterVars, callerVars, permitVars
    <2>4. InFlight' /\ WakeComing'
      BY Zenon, <1>2 DEF TypeOK, InFlight, WakeComing, PollLoad, vars, waiterVars, callerVars, permitVars
    <2>5. QED
      BY Zenon, <2>1, <2>2, <2>4
  <1>3. CASE PollCasFail
    <2>1. TypeOK'
      BY Zenon, <1>3 DEF TypeOK, WaiterStates, PollCasFail, InFlight, vars, waiterVars, callerVars, permitVars
    <2>2. PermitAccounting' /\ (Limited => active <= MaxConcurrency)'
      BY Zenon, <1>3, QuietCounts DEF PollCasFail, vars, waiterVars, callerVars, permitVars
    <2>4. InFlight' /\ WakeComing'
      BY Zenon, <1>3 DEF TypeOK, InFlight, WakeComing, PollCasFail, vars, waiterVars, callerVars, permitVars
    <2>5. QED
      BY Zenon, <2>1, <2>2, <2>4
  <1>4. CASE PollRegister
    <2>1. TypeOK'
      BY Zenon, <1>4 DEF TypeOK, WaiterStates, PollRegister, InFlight, vars, waiterVars, callerVars, permitVars
    <2>2. PermitAccounting' /\ (Limited => active <= MaxConcurrency)'
      BY Zenon, <1>4, QuietCounts DEF PollRegister, vars, waiterVars, callerVars, permitVars
    <2>4. InFlight' /\ WakeComing'
      BY Zenon, <1>4 DEF TypeOK, InFlight, WakeComing, PollRegister, vars, waiterVars, callerVars, permitVars
    <2>5. QED
      BY Zenon, <2>1, <2>2, <2>4
  <1>5. CASE PollRecheck
    <2>1. TypeOK'
      BY Zenon, <1>5 DEF TypeOK, WaiterStates, PollRecheck, InFlight, vars, waiterVars, callerVars, permitVars
    <2>2. PermitAccounting' /\ (Limited => active <= MaxConcurrency)'
      BY Zenon, <1>5, QuietCounts DEF PollRecheck, vars, waiterVars, callerVars, permitVars
    <2>4. InFlight' /\ WakeComing'
      BY Zenon, <1>5 DEF TypeOK, InFlight, WakeComing, PollRecheck, vars, waiterVars, callerVars, permitVars
    <2>5. QED
      BY Zenon, <2>1, <2>2, <2>4
  <1>6. CASE Repoll
    <2>1. TypeOK'
      BY Zenon, <1>6 DEF TypeOK, WaiterStates, Repoll, InFlight, vars, waiterVars, callerVars, permitVars
    <2>2. PermitAccounting' /\ (Limited => active <= MaxConcurrency)'
      BY Zenon, <1>6, QuietCounts DEF Repoll, vars, waiterVars, callerVars, permitVars
    <2>4. InFlight' /\ WakeComing'
      BY Zenon, <1>6 DEF TypeOK, InFlight, WakeComing, Repoll, vars, waiterVars, callerVars, permitVars
    <2>5. QED
      BY Zenon, <2>1, <2>2, <2>4
  <1>7. CASE Abort
    <2>1. TypeOK'
      BY Zenon, <1>7 DEF TypeOK, WaiterStates, Abort, InFlight, vars, waiterVars, callerVars, permitVars
    <2>2. PermitAccounting' /\ (Limited => active <= MaxConcurrency)'
      BY Zenon, <1>7, QuietCounts DEF Abort, vars, waiterVars, callerVars, permitVars
    <2>4. InFlight' /\ WakeComing'
      BY Zenon, <1>7 DEF TypeOK, InFlight, WakeComing, Abort, vars, waiterVars, callerVars, permitVars
    <2>5. QED
      BY Zenon, <2>1, <2>2, <2>4
  <1>8. ASSUME NEW p \in Permits, AcquireUnlimited(p) PROVE IndInv'
    <2>1. TypeOK'
      BY Zenon, <1>8 DEF TypeOK, WaiterStates, AcquireUnlimited, Hold, InFlight, vars, waiterVars, callerVars, permitVars
    <2>2. PermitAccounting' /\ (Limited => active <= MaxConcurrency)'
      BY Zenon, <1>8, HoldCounts, OutstandingFinite DEF AcquireUnlimited, PermitAccounting, InFlight, TypeOK
    <2>4. InFlight' /\ WakeComing'
      BY Zenon, <1>8 DEF TypeOK, InFlight, WakeComing, AcquireUnlimited, Hold, vars, waiterVars, callerVars, permitVars
    <2>5. QED
      BY Zenon, <2>1, <2>2, <2>4
  <1>9. ASSUME NEW p \in Permits, PollCasOk(p) PROVE IndInv'
    <2>1. TypeOK'
      BY <1>9 DEF TypeOK, WaiterStates, PollCasOk, Hold, InFlight, vars, waiterVars, callerVars, permitVars
    <2>2. PermitAccounting' /\ (Limited => active <= MaxConcurrency)'
      BY <1>9, HoldCounts, OutstandingFinite DEF PollCasOk, PermitAccounting, InFlight, TypeOK
    <2>4. InFlight' /\ WakeComing'
      BY Zenon, <1>9 DEF TypeOK, InFlight, WakeComing, PollCasOk, Hold, vars, waiterVars, callerVars, permitVars
    <2>5. QED
      BY Zenon, <2>1, <2>2, <2>4
  <1>10. ASSUME NEW c \in Callers, TryLoad(c) PROVE IndInv'
    <2>1. TypeOK'
      BY Zenon, <1>10 DEF TypeOK, WaiterStates, TryLoad, InFlight, vars, waiterVars, callerVars, permitVars
    <2>2. PermitAccounting' /\ (Limited => active <= MaxConcurrency)'
      BY Zenon, <1>10, QuietCounts DEF TryLoad, vars, waiterVars, callerVars, permitVars
    <2>4. InFlight' /\ WakeComing'
      BY <1>10 DEF TypeOK, InFlight, WakeComing, TryLoad, vars, waiterVars, callerVars, permitVars
    <2>5. QED
      BY Zenon, <2>1, <2>2, <2>4
  <1>11. ASSUME NEW c \in Callers, TryCasFail(c) PROVE IndInv'
    <2>1. TypeOK'
      BY Zenon, <1>11 DEF TypeOK, WaiterStates, TryCasFail, InFlight, vars, waiterVars, callerVars, permitVars
    <2>2. PermitAccounting' /\ (Limited => active <= MaxConcurrency)'
      BY Zenon, <1>11, QuietCounts DEF TryCasFail, vars, waiterVars, callerVars, permitVars
    <2>4. InFlight' /\ WakeComing'
      BY Zenon, <1>11 DEF TypeOK, InFlight, WakeComing, TryCasFail, vars, waiterVars, callerVars, permitVars
    <2>5. QED
      BY Zenon, <2>1, <2>2, <2>4
  <1>12. ASSUME NEW c \in Callers, NEW p \in Permits, TryUnlimited(c, p) PROVE IndInv'
    <2>1. TypeOK'
      BY Zenon, <1>12 DEF TypeOK, WaiterStates, TryUnlimited, Hold, InFlight, vars, waiterVars, callerVars, permitVars
    <2>2. PermitAccounting' /\ (Limited => active <= MaxConcurrency)'
      BY Zenon, <1>12, HoldCounts, OutstandingFinite DEF TryUnlimited, PermitAccounting, InFlight, TypeOK
    <2>4. InFlight' /\ WakeComing'
      BY Zenon, <1>12 DEF TypeOK, InFlight, WakeComing, TryUnlimited, Hold, vars, waiterVars, callerVars, permitVars
    <2>5. QED
      BY Zenon, <2>1, <2>2, <2>4
  <1>13. ASSUME NEW c \in Callers, NEW p \in Permits, TryCasOk(c, p) PROVE IndInv'
    <2>1. TypeOK'
      BY <1>13 DEF TypeOK, WaiterStates, TryCasOk, Hold, InFlight, vars, waiterVars, callerVars, permitVars
    <2>2. PermitAccounting' /\ (Limited => active <= MaxConcurrency)'
      BY <1>13, HoldCounts, OutstandingFinite DEF TryCasOk, PermitAccounting, InFlight, TypeOK
    <2>4. InFlight' /\ WakeComing'
      BY Zenon, <1>13 DEF TypeOK, InFlight, WakeComing, TryCasOk, Hold, vars, waiterVars, callerVars, permitVars
    <2>5. QED
      BY Zenon, <2>1, <2>2, <2>4
  <1>14. ASSUME NEW p \in Permits, DropUnlimited(p) PROVE IndInv'
    <2>1. TypeOK'
      BY Zenon, <1>14 DEF TypeOK, WaiterStates, DropUnlimited, InFlight, vars, waiterVars, callerVars, permitVars
    <2>2. PermitAccounting' /\ (Limited => active <= MaxConcurrency)'
      <3>1. p \in Outstanding
        BY Zenon, <1>14 DEF DropUnlimited, Outstanding
      <3>2. Cardinality(Outstanding') = Cardinality(Outstanding) - 1
        BY Zenon, <1>14, <3>1, ReleaseCounts DEF DropUnlimited
      <3>3. QED
        BY Zenon, <1>14, <3>2 DEF DropUnlimited, PermitAccounting, TypeOK
    <2>4. InFlight' /\ WakeComing'
      BY Zenon, <1>14 DEF TypeOK, InFlight, WakeComing, DropUnlimited, vars, waiterVars, callerVars, permitVars
    <2>5. QED
      BY Zenon, <2>1, <2>2, <2>4
  <1>15. ASSUME NEW p \in Permits, DropLoad(p) PROVE IndInv'
    <2>0. p \in Outstanding /\ active > 0
      BY Zenon, <1>15, DropSeesPositive DEF DropLoad, Outstanding, InFlight
    <2>1. TypeOK'
      BY Zenon, <1>15, <2>0 DEF TypeOK, WaiterStates, DropLoad, DropSees, InFlight, vars, waiterVars, callerVars, permitVars
    <2>2. Outstanding' = Outstanding
      BY Zenon, <1>15, <2>0 DEF Outstanding, DropLoad, DropSees, TypeOK
    <2>3. PermitAccounting' /\ (Limited => active <= MaxConcurrency)'
      BY Zenon, <1>15, <2>2 DEF DropLoad, PermitAccounting
    <2>4. InFlight' /\ WakeComing'
      BY Zenon, <1>15, <2>0 DEF TypeOK, InFlight, WakeComing, DropLoad, DropSees, vars, waiterVars, callerVars, permitVars
    <2>5. QED
      BY Zenon, <2>1, <2>3, <2>4
  <1>16. ASSUME NEW p \in Permits, DropCasOk(p) PROVE IndInv'
    <2>1. TypeOK'
      BY <1>16 DEF TypeOK, WaiterStates, DropCasOk, InFlight, vars, waiterVars, callerVars, permitVars
    <2>2. PermitAccounting' /\ (Limited => active <= MaxConcurrency)'
      <3>1. p \in Outstanding
        BY Zenon, <1>16 DEF DropCasOk, Outstanding
      <3>2. Cardinality(Outstanding') = Cardinality(Outstanding) - 1
        BY Zenon, <1>16, <3>1, ReleaseCounts DEF DropCasOk
      <3>3. QED
        BY <1>16, <3>2 DEF DropCasOk, PermitAccounting, TypeOK
    <2>4. InFlight' /\ WakeComing'
      BY Zenon, <1>16 DEF TypeOK, InFlight, WakeComing, DropCasOk, vars, waiterVars, callerVars, permitVars
    <2>5. QED
      BY Zenon, <2>1, <2>2, <2>4
  <1>17. ASSUME NEW p \in Permits, DropCasFail(p) PROVE IndInv'
    <2>0. p \in Outstanding /\ active > 0
      BY Zenon, <1>17, DropSeesPositive DEF DropCasFail, Outstanding, InFlight
    <2>1. TypeOK'
      BY Zenon, <1>17, <2>0 DEF TypeOK, WaiterStates, DropCasFail, DropSees, InFlight, vars, waiterVars, callerVars, permitVars
    <2>2. Outstanding' = Outstanding
      BY Zenon, <1>17, <2>0 DEF Outstanding, DropCasFail, DropSees, TypeOK
    <2>3. PermitAccounting' /\ (Limited => active <= MaxConcurrency)'
      BY Zenon, <1>17, <2>2 DEF DropCasFail, PermitAccounting
    <2>4. InFlight' /\ WakeComing'
      BY Zenon, <1>17, <2>0 DEF TypeOK, InFlight, WakeComing, DropCasFail, DropSees, vars, waiterVars, callerVars, permitVars
    <2>5. QED
      BY Zenon, <2>1, <2>3, <2>4
  <1>18. ASSUME NEW p \in Permits, Wake(p) PROVE IndInv'
    <2>1. TypeOK'
      BY Zenon, <1>18 DEF TypeOK, WaiterStates, Wake, InFlight, vars, waiterVars, callerVars, permitVars
    <2>2. Outstanding' = Outstanding
      BY Zenon, <1>18 DEF Outstanding, Wake, TypeOK
    <2>3. PermitAccounting' /\ (Limited => active <= MaxConcurrency)'
      BY Zenon, <1>18, <2>2 DEF Wake, PermitAccounting
    <2>4. InFlight' /\ WakeComing'
      BY Zenon, <1>18 DEF TypeOK, InFlight, WakeComing, Wake, vars, waiterVars, callerVars, permitVars
    <2>5. QED
      BY Zenon, <2>1, <2>3, <2>4
  <1>19. CASE UNCHANGED vars
    <2>1. PermitAccounting' /\ (Limited => active <= MaxConcurrency)'
      BY Zenon, <1>19, QuietCounts DEF vars, waiterVars, callerVars, permitVars
    <2>2. TypeOK' /\ InFlight' /\ WakeComing'
      BY Zenon, <1>19 DEF TypeOK, InFlight, WakeComing, vars, waiterVars, callerVars, permitVars
    <2>3. QED
      BY Zenon, <2>1, <2>2
  <1>20. QED
    BY <1>1, <1>2, <1>3, <1>4, <1>5, <1>6, <1>7, <1>8, <1>9, <1>10, <1>11, <1>12, <1>13, <1>14, <1>15, <1>16, <1>17, <1>18, <1>19, ConfCallers
       DEF Next, Poll, Try, Drop

\* IndInv holds in every reachable state.
THEOREM Invariance == Spec => []IndInv
  BY InitInv, NextInv, PTL DEF Spec

\* Type correctness; the counter, which drop() decrements, stays a natural.
THEOREM TypeCorrect == Spec => []TypeOK
  <1>1. IndInv => TypeOK
     BY Zenon DEF IndInv
  <1> QED
     BY <1>1, Invariance, PTL

\* The counter always equals the number of guards that hold a permit.
THEOREM AccountingHolds == Spec => []PermitAccounting
  BY Invariance, PTL DEF IndInv

\* Never more than max guards hold a permit.
THEOREM BoundHolds == Spec => []ConcurrencyBound
  <1>1. IndInv => ConcurrencyBound
    BY Zenon DEF IndInv, PermitAccounting, ConcurrencyBound
  <1>2. QED
    BY <1>1, Invariance, PTL

\* A listener never sleeps through a free permit: the wake-up is done or coming.
THEOREM NoLostWakeupHolds == Spec => []NoLostWakeup
  <1>1. IndInv => NoLostWakeup
    BY Zenon DEF IndInv, WakeComing, NoLostWakeup
  <1>2. QED
    BY <1>1, Invariance, PTL

\* Without a limit the listener never waits for a permit.
THEOREM UnlimitedHolds == Spec => []UnlimitedNeverWaits
  <1>1. IndInv => UnlimitedNeverWaits
    BY LimitAssumption DEF IndInv, TypeOK, WaiterStates, InFlight, Limited, UnlimitedNeverWaits
  <1>2. QED
    BY <1>1, Invariance, PTL

\* No drop ends without giving its permit back.
THEOREM ReleaseHolds == Spec => ReleaseNeverSkipped
  <1>1. ASSUME IndInv, [Next]_vars
        PROVE  [Limited => \A p \in Outstanding : permit'[p] # "free"]_vars
    <2> SUFFICES ASSUME Next, Limited, NEW q \in Outstanding PROVE permit'[q] # "free"
      BY Zenon, <1>1
    <2> USE <1>1 DEF IndInv, permitVars
    <2>1. CASE Acquire \/ Poll \/ Abort
      BY Zenon, <2>1 DEF TypeOK, Outstanding, Acquire, Poll, Abort, PollLoad, PollCasFail, PollRegister,
                  PollRecheck, Repoll, AcquireUnlimited, PollCasOk, Hold
    <2>2. ASSUME NEW c \in Callers, Try(c) PROVE permit'[q] # "free"
      BY Zenon, <2>2 DEF TypeOK, Outstanding, Try, TryLoad, TryCasFail, TryUnlimited, TryCasOk, Hold
    <2>3. ASSUME NEW p \in Permits, Drop(p) PROVE permit'[q] # "free"
      <3>1. active > 0
        BY Zenon, DropSeesPositive
      <3>2. QED
        BY Zenon, <2>3, <3>1 DEF TypeOK, Outstanding, Drop, DropUnlimited, DropLoad, DropSees, DropCasOk,
                          DropCasFail, Wake
    <2>4. QED
      BY Zenon, <2>1, <2>2, <2>3, ConfCallers DEF Next
  <1>2. QED
    BY <1>1, Invariance, PTL DEF Spec, ReleaseNeverSkipped

-----------------------------------------------------------------------------
\* The atomic counter and the waker implement the abstract pool of permits.
THEOREM PoolRefinement == Spec => ImplementsPool
  <1>1. Init => Pool!PoolInit
    BY SMTT(30) DEF Init, Pool!PoolInit, Outstanding
  <1>2. ASSUME IndInv, [Next]_vars PROVE [Pool!PoolNext]_(Pool!poolVars)
    <2>a. /\ MaxConcurrency' = MaxConcurrency /\ Limited' = Limited
          /\ Limited => MaxConcurrency \in Nat /\ MaxConcurrency > 0
          /\ conf.callers \subseteq Callers
      BY Zenon, <1>2, LimitIsRigid, LimitIsPositive, ConfCallers DEF IndInv
    <2> USE <1>2, <2>a DEF IndInv, Pool!PoolNext, Pool!poolVars, permitVars, waiterVars
    <2>0. Pool!Cardinality(Outstanding) = Cardinality(Outstanding)
      BY Zenon DEF Pool!Cardinality, Cardinality
    <2>1. CASE Acquire \/ PollLoad \/ PollCasFail \/ PollRegister \/ PollRecheck \/ Repoll \/ Abort
      BY Zenon, <2>1 DEF Outstanding, Acquire, PollLoad, PollCasFail, PollRegister, PollRecheck, Repoll,
                  Abort, Pool!Request, Pool!Abandon
    <2>2. ASSUME NEW p \in Permits, AcquireUnlimited(p) \/ PollCasOk(p)
          PROVE  Pool!Grant(p)
      <3>1. Hold(p) /\ wpc \notin {"idle", "stopped"} /\ wpc' = "idle"
        BY Zenon, <2>2 DEF AcquireUnlimited, PollCasOk
      <3>2. Pool!Room
        BY Zenon, <2>0, <2>2 DEF Pool!Room, AcquireUnlimited, PollCasOk, InFlight, PermitAccounting
      <3>3. QED
        BY Zenon, <3>1, <3>2, HoldCounts DEF Pool!Grant
    <2>3. ASSUME NEW c \in Callers, TryLoad(c) \/ TryCasFail(c)
          PROVE  UNCHANGED Pool!poolVars
      BY Zenon, <2>3 DEF Outstanding, TryLoad, TryCasFail
    <2>4. ASSUME NEW c \in Callers, NEW p \in Permits, TryUnlimited(c, p) \/ TryCasOk(c, p)
          PROVE  Pool!TryGrant(p)
      <3>1. Hold(p) /\ UNCHANGED wpc
        BY Zenon, <2>4 DEF TryUnlimited, TryCasOk
      <3>2. Pool!Room
        BY Zenon, <2>0, <2>4 DEF Pool!Room, TryUnlimited, TryCasOk, InFlight, PermitAccounting
      <3>3. QED
        BY Zenon, <3>1, <3>2, HoldCounts DEF Pool!TryGrant
    <2>5. ASSUME NEW p \in Permits, DropUnlimited(p) \/ DropCasOk(p)
          PROVE  Pool!Release(p)
      <3>1. p \in Outstanding /\ UNCHANGED wpc
        BY Zenon, <2>5 DEF DropUnlimited, DropCasOk, Outstanding
      <3>2. Outstanding' = Outstanding \ {p}
        BY Zenon, <2>5, <3>1, ReleaseCounts DEF DropUnlimited, DropCasOk
      <3>3. QED
        BY Zenon, <3>1, <3>2 DEF Pool!Release
    <2>6. ASSUME NEW p \in Permits, DropLoad(p) \/ DropCasFail(p)
          PROVE  UNCHANGED Pool!poolVars
      <3>1. p \in Outstanding /\ Limited
        BY Zenon, <2>6 DEF DropLoad, DropCasFail, Outstanding, InFlight
      <3>2. active > 0
        BY Zenon, <3>1, DropSeesPositive
      <3>3. QED
        BY Zenon, <2>6, <3>2 DEF TypeOK, Outstanding, DropLoad, DropCasFail, DropSees
    <2>7. ASSUME NEW p \in Permits, Wake(p) PROVE UNCHANGED Pool!poolVars
      BY Zenon, <2>7 DEF TypeOK, Outstanding, Wake
    <2>8. CASE UNCHANGED vars
      BY Zenon, <2>8 DEF vars, Outstanding
    <2>9. QED
      BY Zenon, <2>1, <2>2, <2>3, <2>4, <2>5, <2>6, <2>7, <2>8 DEF Next, Poll, Try, Drop
  <1>3. QED
    BY <1>1, <1>2, Invariance, PTL DEF Spec, ImplementsPool, Pool!PoolSpec
=============================================================================

-------------------------- MODULE ConcurrencyLimit --------------------------
(***************************************************************************)
(* The per-worker permit counter of core/concurrency.rs: an atomic count   *)
(* changed by compare_exchange_weak, and one AtomicWaker.  Every atomic    *)
(* access is a step of its own.                                            *)
(*                                                                         *)
(* Processes: the one listener loop that awaits acquire() (wpc), callers   *)
(* of try_acquire() (cpc), and the permit guards themselves, whose drop    *)
(* runs wherever the handler future ends (permit).                         *)
(***************************************************************************)
EXTENDS Naturals, FiniteSets

CONSTANTS None,
          Permits,  \* the guards that may exist at one time
          Callers,  \* threads that may call try_acquire()
          Configs   \* the limits to look at, see Config

\* max_concurrency_per_worker, and the threads that call try_acquire(): none of
\* them in a native server, whose loop awaits acquire().
Config == [max : Nat \cup {None}, callers : SUBSET Callers]

ASSUME LimitAssumption == None \notin Nat /\ Configs \subseteq Config
ASSUME PermitsAssumption == IsFiniteSet(Permits)

VARIABLES conf,        \* the limit's configuration; it never changes
          active,      \* ConcurrencyState.active
          registered,  \* the AtomicWaker holds the listener task's waker
          notified,    \* the listener task was woken and will be polled
          wpc, wseen,  \* AcquirePermit::poll: where it is, the value it loaded
          cpc, cseen,  \* the same of each try_acquire()
          permit,      \* each guard: free, held, releasing or waking
          pseen        \* the value its drop loaded

waiterVars == <<registered, notified, wpc, wseen>>
callerVars == <<cpc, cseen>>
permitVars == <<permit, pseen>>
vars == <<conf, active, waiterVars, callerVars, permitVars>>

MaxConcurrency == conf.max

\* new(): None and Some(0) both mean that there is no limit.
Limited == MaxConcurrency # None /\ MaxConcurrency > 0

\* The guards whose permit has not been given back yet.
Outstanding == {p \in Permits : permit[p] \in {"held", "releasing"}}

Init == /\ conf \in Configs
        /\ active = 0
        /\ registered = FALSE /\ notified = FALSE
        /\ wpc = "idle" /\ wseen = 0
        /\ cpc = [c \in Callers |-> "idle"] /\ cseen = [c \in Callers |-> 0]
        /\ permit = [p \in Permits |-> "free"] /\ pseen = [p \in Permits |-> 0]

\* A guard is created for an acquirer.
Hold(p) == permit[p] = "free" /\ permit' = [permit EXCEPT ![p] = "held"]

-----------------------------------------------------------------------------
(* acquire().await in the listener loop.                                   *)

\* The loop creates the future; without a limit it is ready at once.
Acquire == /\ wpc = "idle"
           /\ wpc' = "load"
           /\ UNCHANGED <<active, registered, notified, wseen, callerVars, permitVars>>

AcquireUnlimited(p) == /\ wpc = "load" /\ ~Limited
                       /\ Hold(p)
                       /\ wpc' = "idle"
                       /\ UNCHANGED <<active, registered, notified, wseen, callerVars, pseen>>

PollLoad == /\ wpc = "load" /\ Limited
            /\ wseen' = active
            /\ wpc' = IF active < MaxConcurrency THEN "cas" ELSE "register"
            /\ UNCHANGED <<active, registered, notified, callerVars, permitVars>>

\* Mutant of PollCasOk: a store instead of the compare-and-exchange.
PollStore(p) == /\ wpc = "cas"
                /\ active' = wseen + 1
                /\ Hold(p)
                /\ wpc' = "idle"
                /\ UNCHANGED <<registered, notified, wseen, callerVars, pseen>>

PollCasOk(p) == /\ wpc = "cas" /\ active = wseen
                /\ active' = wseen + 1
                /\ Hold(p)
                /\ wpc' = "idle"
                /\ UNCHANGED <<registered, notified, wseen, callerVars, pseen>>

\* compare_exchange_weak may also fail when the values agree.
PollCasFail == /\ wpc = "cas"
               /\ wpc' = "load"
               /\ UNCHANGED <<active, registered, notified, wseen, callerVars, permitVars>>

\* Mutant of PollRegister: Pending without looking at the count again.
PollRegisterOnly == /\ wpc = "register"
                    /\ registered' = TRUE
                    /\ wpc' = "pending"
                    /\ UNCHANGED <<active, notified, wseen, callerVars, permitVars>>

PollRegister == /\ wpc = "register"
                /\ registered' = TRUE
                /\ wpc' = "recheck"
                /\ UNCHANGED <<active, notified, wseen, callerVars, permitVars>>

PollRecheck == /\ wpc = "recheck"
               /\ wpc' = IF active < MaxConcurrency THEN "load" ELSE "pending"
               /\ UNCHANGED <<active, registered, notified, wseen, callerVars, permitVars>>

\* The executor polls the task again after its waker was used.
Repoll == /\ wpc = "pending" /\ notified
          /\ notified' = FALSE
          /\ wpc' = "load"
          /\ UNCHANGED <<active, registered, wseen, callerVars, permitVars>>

\* The listener task is aborted between two polls; the waker stays behind.
Abort == /\ wpc \in {"idle", "pending"}
         /\ wpc' = "stopped"
         /\ UNCHANGED <<active, registered, notified, wseen, callerVars, permitVars>>

-----------------------------------------------------------------------------
(* try_acquire() in a dispatching loop.                                    *)

TryUnlimited(c, p) == /\ cpc[c] = "idle" /\ ~Limited
                      /\ Hold(p)
                      /\ UNCHANGED <<active, waiterVars, callerVars, pseen>>

\* Mutant of TryLoad: one permit too many.
TryLoadOffByOne(c) ==
  /\ cpc[c] \in {"idle", "load"} /\ Limited
  /\ cseen' = [cseen EXCEPT ![c] = active]
  /\ cpc' = [cpc EXCEPT ![c] = IF active > MaxConcurrency THEN "idle" ELSE "cas"]
  /\ UNCHANGED <<active, waiterVars, permitVars>>

TryLoad(c) == /\ cpc[c] \in {"idle", "load"} /\ Limited
              /\ cseen' = [cseen EXCEPT ![c] = active]
              /\ cpc' = [cpc EXCEPT ![c] = IF active >= MaxConcurrency THEN "idle" ELSE "cas"]
              /\ UNCHANGED <<active, waiterVars, permitVars>>

\* Mutant of TryCasOk: a store instead of the compare-and-exchange.
TryStore(c, p) == /\ cpc[c] = "cas"
                  /\ active' = cseen[c] + 1
                  /\ Hold(p)
                  /\ cpc' = [cpc EXCEPT ![c] = "idle"]
                  /\ UNCHANGED <<waiterVars, cseen, pseen>>

TryCasOk(c, p) == /\ cpc[c] = "cas" /\ active = cseen[c]
                  /\ active' = cseen[c] + 1
                  /\ Hold(p)
                  /\ cpc' = [cpc EXCEPT ![c] = "idle"]
                  /\ UNCHANGED <<waiterVars, cseen, pseen>>

TryCasFail(c) == /\ cpc[c] = "cas"
                 /\ cpc' = [cpc EXCEPT ![c] = "load"]
                 /\ UNCHANGED <<active, waiterVars, cseen, permitVars>>

-----------------------------------------------------------------------------
(* ConcurrencyPermit::drop.                                                *)

DropUnlimited(p) == /\ permit[p] = "held" /\ ~Limited
                    /\ permit' = [permit EXCEPT ![p] = "free"]
                    /\ UNCHANGED <<active, waiterVars, callerVars, pseen>>

\* A load, or a failed compare_exchange_weak, and the test of "while active > 0":
\* at zero the guard goes away and gives nothing back.
DropSees(p) == /\ pseen' = [pseen EXCEPT ![p] = active]
               /\ permit' = [permit EXCEPT ![p] = IF active > 0 THEN "releasing" ELSE "free"]

DropLoad(p) == /\ permit[p] = "held" /\ Limited
               /\ DropSees(p)
               /\ UNCHANGED <<active, waiterVars, callerVars>>

\* Mutant of DropCasOk: the permit is given back twice.
DropReleasesTwice(p) == /\ permit[p] = "releasing" /\ active = pseen[p]
                        /\ active' = pseen[p] - 2
                        /\ permit' = [permit EXCEPT ![p] = "waking"]
                        /\ UNCHANGED <<waiterVars, callerVars, pseen>>

DropCasOk(p) == /\ permit[p] = "releasing" /\ active = pseen[p]
                /\ active' = pseen[p] - 1
                /\ permit' = [permit EXCEPT ![p] = "waking"]
                /\ UNCHANGED <<waiterVars, callerVars, pseen>>

DropCasFail(p) == /\ permit[p] = "releasing"
                  /\ DropSees(p)
                  /\ UNCHANGED <<active, waiterVars, callerVars>>

\* Mutant of Wake: only the last guard wakes.
WakeAtZero(p) == /\ permit[p] = "waking"
                 /\ registered' = FALSE
                 /\ notified' = (notified \/ (registered /\ active = 0))
                 /\ permit' = [permit EXCEPT ![p] = "free"]
                 /\ UNCHANGED <<active, wpc, wseen, callerVars, pseen>>

\* AtomicWaker::wake: take the waker, if there is one, and use it.
Wake(p) == /\ permit[p] = "waking"
           /\ registered' = FALSE
           /\ notified' = (notified \/ registered)
           /\ permit' = [permit EXCEPT ![p] = "free"]
           /\ UNCHANGED <<active, wpc, wseen, callerVars, pseen>>

-----------------------------------------------------------------------------
Poll == \/ PollLoad \/ PollCasFail \/ PollRegister \/ PollRecheck \/ Repoll
        \/ \E p \in Permits : AcquireUnlimited(p) \/ PollCasOk(p)

Try(c) == \/ TryLoad(c) \/ TryCasFail(c)
          \/ \E p \in Permits : TryUnlimited(c, p) \/ TryCasOk(c, p)

Drop(p) == \/ DropUnlimited(p) \/ DropLoad(p) \/ DropCasOk(p) \/ DropCasFail(p)
           \/ Wake(p)

Next == /\ \/ Acquire \/ Poll \/ Abort
           \/ \E c \in conf.callers : Try(c)
           \/ \E p \in Permits : Drop(p)
        /\ UNCHANGED conf

Spec == Init /\ [][Next]_vars

\* The executor keeps polling a woken task, every handler future ends, and
\* compare_exchange_weak does not fail spuriously for ever.
Fairness == /\ WF_vars(Poll /\ UNCHANGED conf)
            /\ SF_vars((\E p \in Permits : PollCasOk(p)) /\ UNCHANGED conf)
            /\ \A p \in Permits : /\ WF_vars(Drop(p) /\ UNCHANGED conf)
                                  /\ WF_vars(DropCasOk(p) /\ UNCHANGED conf)

FairSpec == Spec /\ Fairness

-----------------------------------------------------------------------------
WaiterStates == {"idle", "load", "cas", "register", "recheck", "pending", "stopped"}

TypeOK == /\ conf \in Config
          /\ active \in Nat
          /\ registered \in BOOLEAN /\ notified \in BOOLEAN
          /\ wpc \in WaiterStates /\ wseen \in Nat
          /\ cpc \in [Callers -> {"idle", "load", "cas"}] /\ cseen \in [Callers -> Nat]
          /\ permit \in [Permits -> {"free", "held", "releasing", "waking"}]
          /\ pseen \in [Permits -> Nat]

\* The counter is exactly the number of guards that still hold a permit,
\* whatever the interleaving of acquires and drops: none is counted twice and
\* none is lost (concurrency.rs, the two compare_exchange loops).
PermitAccounting == Limited => active = Cardinality(Outstanding)

\* Never more than max guards hold a permit, however acquire(), try_acquire()
\* and drop race (design: at most n handler futures per worker).
ConcurrencyBound == Limited => Cardinality(Outstanding) <= MaxConcurrency

\* A drop never leaves through its "while active > 0" condition: that exit
\* would lose a permit and the wake-up that goes with it.
ReleaseNeverSkipped ==
  [][Limited => \A p \in Outstanding : permit'[p] # "free"]_vars

\* A listener that returned Pending while a permit is available has been
\* woken, or the guard that freed the permit is still about to wake it: the
\* re-check after AtomicWaker::register closes the window between the two.
NoLostWakeup == (wpc = "pending" /\ active < MaxConcurrency)
                   => \/ notified
                      \/ registered /\ \E p \in Permits : permit[p] = "waking"

\* Without a limit, that is with None or Some(0), the listener never waits.
UnlimitedNeverWaits == MaxConcurrency \in {None, 0} => wpc \in {"idle", "load", "stopped"}

\* A listener that awaits acquire() gets its permit, when handlers end and
\* nobody else takes permits (a native loop is the only acquirer of its limit).
ListenerServed == (wpc = "load" /\ conf.callers = {}) ~> (wpc \in {"idle", "stopped"})

\* The counter and the waker implement the abstract pool.
Pool == INSTANCE PermitPool WITH
           limited <- Limited, max <- MaxConcurrency, out <- Outstanding,
           waiting <- wpc \notin {"idle", "stopped"}

\* What ConcurrencyLimit implements: every step is a step of the pool.
ImplementsPool == Pool!PoolSpec
=============================================================================

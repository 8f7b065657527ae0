----------------------------- MODULE PermitPool -----------------------------
(***************************************************************************)
(* What WorkerConcurrencyLimit promises its users, with no atomics and no  *)
(* waker: a pool of at most max permits (no bound when ~limited), one      *)
(* listener loop that may wait for a permit, and callers that try for one. *)
(* ConcurrencyLimit implements it.                                         *)
(***************************************************************************)
EXTENDS Naturals, FiniteSets

CONSTANT Permits     \* the permit guards that may exist

VARIABLES limited,   \* whether a positive maximum is configured; never changes
          max,       \* the maximum, when limited; never changes
          out,       \* the permits that count against the maximum
          waiting    \* the listener loop has an acquire() outstanding

poolVars == <<limited, max, out, waiting>>

Room == limited => Cardinality(out) < max

PoolInit == out = {} /\ waiting = FALSE

\* The listener loop calls acquire().
Request == ~waiting /\ waiting' = TRUE /\ UNCHANGED out

\* acquire() resolves with permit p.
Grant(p) == /\ waiting /\ Room /\ p \notin out
            /\ out' = out \cup {p}
            /\ waiting' = FALSE

\* try_acquire() returns Some(p).
TryGrant(p) == Room /\ p \notin out /\ out' = out \cup {p} /\ UNCHANGED waiting

\* The permit guard p is dropped.
Release(p) == p \in out /\ out' = out \ {p} /\ UNCHANGED waiting

\* The task that awaits acquire() is aborted.
Abandon == waiting /\ waiting' = FALSE /\ UNCHANGED out

PoolNext == /\ \/ Request \/ Abandon
               \/ \E p \in Permits : Grant(p) \/ TryGrant(p) \/ Release(p)
            /\ UNCHANGED <<limited, max>>

PoolSpec == PoolInit /\ [][PoolNext]_poolVars
=============================================================================

------------------------- MODULE MCConcurrencyLimit -------------------------
(* Instances of ConcurrencyLimit for TLC.                                  *)
EXTENDS ConcurrencyLimit

CONSTANTS c1, c2

Limit(max, callers) == [max |-> max, callers |-> callers]

\* A dispatched worker, two callers at a single permit, a native listener, and
\* the two ways to ask for no limit.
Limits == {Limit(2, {c1}), Limit(1, {c1, c2}), Limit(2, {}), Limit(0, {}), Limit(None, {c1})}
=============================================================================

--------------------------- MODULE MCRoutedReceive ---------------------------
(* Instances of RoutedReceive for TLC.                                     *)
EXTENDS RoutedReceive

\* Any number of awaiting readers, and on tokio a single polling one.
Views == {[runtime |-> t, kind |-> k] : t \in {"tokio", "async-std"}, k \in [Readers -> {"await", "off"}]}
         \cup {[runtime |-> "tokio", kind |-> [r \in Readers |-> IF r = 1 THEN "poll" ELSE "off"]]}

AsyncStdPoller ==
  {[runtime |-> "async-std", kind |-> [r \in Readers |-> IF r = 1 THEN "poll" ELSE "off"]]}
=============================================================================

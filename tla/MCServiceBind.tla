--------------------------- MODULE MCServiceBind ---------------------------
(* Instances of ServiceBind for TLC.                                       *)
EXTENDS ServiceBind

Plain(k, o, p, b) == [kind |-> k, callback |-> FALSE, os |-> o, port |-> p, bpf |-> b,
                      transparent |-> "disabled", family |-> TRUE]

\* Every kind on every platform, on both sorts of port, the transparent option in
\* every form where it matters, and serve_socket where it differs.
Services ==
  {Plain(k, o, p, TRUE) : k \in {"tcp", "udp"}, o \in {"linux", "bsd", "windows"},
                          p \in {"fixed", "any"}}
  \cup {Plain("quic", o, p, b) : o \in {"linux", "bsd"}, p \in {"fixed", "any"}, b \in BOOLEAN}
  \cup {[Plain("udp", o, "fixed", TRUE) EXCEPT !.transparent = t, !.family = f] :
           o \in {"linux", "windows"}, t \in {"best_effort", "required"}, f \in BOOLEAN}
  \cup {[Plain(k, "windows", "fixed", TRUE) EXCEPT !.callback = TRUE] : k \in {"udp", "quic"}}
  \cup {[Plain("quic", "linux", "fixed", TRUE) EXCEPT !.callback = TRUE]}
=============================================================================
